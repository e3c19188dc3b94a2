----------------------------- MODULE BookProofs -----------------------------
(***************************************************************************)
(* Proofs about FlatOrderBook and the statistics that BookMetrics takes    *)
(* from it, for every value of the constants.                              *)
(*                                                                         *)
(* find_position is only right on a sorted vector, and the vector stays    *)
(* sorted only if find_position is right.  On a sorted vector the levels   *)
(* that come before a price are an initial segment, so their number is the *)
(* position std::lower_bound returns; inserting, overwriting and removing  *)
(* there keeps the vector sorted and changes one level of the map.         *)
(***************************************************************************)
EXTENDS BookMetrics, DataTheorems, SequenceTheorems

-----------------------------------------------------------------------------
(* Vectors *)

(* A downward closed set of positions is an initial segment, and its       *)
(* cardinality is where it ends.                                           *)
LEMMA InitialSegment ==
    ASSUME NEW n \in Nat, NEW B \in SUBSET (1 .. n),
           \A j \in B : \A i \in 1 .. n : i < j => i \in B
    PROVE  Cardinality(B) \in 0 .. n /\ B = 1 .. Cardinality(B)
<1> DEFINE C == (1 .. (n + 1)) \ B
<1>1. n + 1 \in C /\ C \in SUBSET Nat
  OBVIOUS
<1>2. PICK x \in C : \A y \in C : x <= y
  BY <1>1, LeastNatural
<1>3. x \in 1 .. (n + 1) /\ x \notin B
  OBVIOUS
<1>4. \A y \in 1 .. (n + 1) : y \notin B => x <= y
  BY <1>2
<1> HIDE DEF C
<1>5. \A y \in 1 .. n : y < x => y \in B
  BY <1>3, <1>4
<1>6. \A y \in B : y < x
  BY <1>3, <1>5
<1>7. B = 1 .. (x - 1)
  <2>1. ASSUME NEW y \in B PROVE y \in 1 .. (x - 1)
    BY <1>3, <1>6
  <2>2. ASSUME NEW y \in 1 .. (x - 1) PROVE y \in B
    BY <1>3, <1>5
  <2> QED BY <2>1, <2>2
<1>8. Cardinality(1 .. (x - 1)) = x - 1
  BY <1>3, FS_Interval
<1> QED BY <1>3, <1>7, <1>8

(* The vector without its i-th element, element by element.                *)
LEMMA RemoveAtElements ==
    ASSUME NEW S, NEW v \in Seq(S), NEW i \in 1 .. Len(v)
    PROVE  /\ RemoveAt(v, i) \in Seq(S)
           /\ Len(RemoveAt(v, i)) = Len(v) - 1
           /\ \A j \in 1 .. (Len(v) - 1) :
                 RemoveAt(v, i)[j] = IF j < i THEN v[j] ELSE v[j + 1]
<1> DEFINE n == Len(v)
           a == SubSeq(v, 1, i - 1)
           b == SubSeq(v, i + 1, n)
<1>0. n \in Nat /\ i \in 1 .. n /\ \A j \in 1 .. n : v[j] \in S
  BY LenProperties
<1>1. /\ a \in Seq(S) /\ Len(a) = i - 1 /\ \A j \in 1 .. (i - 1) : a[j] = v[j]
  <2>1. \A j \in 1 .. (i - 1) : v[j] \in S
    BY <1>0
  <2>2. /\ a \in Seq(S) /\ Len(a) = IF 1 <= i - 1 THEN i - 1 - 1 + 1 ELSE 0
        /\ \A j \in 1 .. (i - 1) - 1 + 1 : a[j] = v[1 + j - 1]
    BY <1>0, <2>1, SubSeqProperties
  <2> HIDE DEF a
  <2> QED BY <1>0, <2>2
<1>2. /\ b \in Seq(S) /\ Len(b) = n - i /\ \A j \in 1 .. (n - i) : b[j] = v[i + j]
  <2>1. \A j \in (i + 1) .. n : v[j] \in S
    BY <1>0
  <2>2. /\ b \in Seq(S) /\ Len(b) = IF i + 1 <= n THEN n - (i + 1) + 1 ELSE 0
        /\ \A j \in 1 .. n - (i + 1) + 1 : b[j] = v[(i + 1) + j - 1]
    BY <1>0, <2>1, SubSeqProperties
  <2> HIDE DEF b
  <2> QED BY <1>0, <2>2
<1> HIDE DEF a, b, n
<1>3. /\ a \o b \in Seq(S) /\ Len(a \o b) = n - 1
      /\ \A j \in 1 .. (n - 1) : (a \o b)[j] = IF j < i THEN v[j] ELSE v[j + 1]
  <2>1. /\ a \o b \in Seq(S) /\ Len(a \o b) = Len(a) + Len(b)
        /\ \A j \in 1 .. Len(a) + Len(b) : (a \o b)[j] =
              IF j <= Len(a) THEN a[j] ELSE b[j - Len(a)]
    BY <1>1, <1>2, ConcatProperties
  <2> DEFINE c == a \o b
  <2> HIDE DEF c
  <2>2. /\ c \in Seq(S) /\ Len(c) = n - 1
        /\ \A j \in 1 .. (n - 1) : c[j] = IF j < i THEN a[j] ELSE b[j - i + 1]
    BY <1>0, <1>1, <1>2, <2>1 DEF c
  <2>3. \A j \in 1 .. (n - 1) : c[j] = IF j < i THEN v[j] ELSE v[j + 1]
    <3> TAKE j \in 1 .. (n - 1)
    <3>1. CASE j < i
      BY <1>0, <1>1, <2>2, <3>1
    <3>2. CASE ~(j < i)
      <4>1. j - i + 1 \in 1 .. (n - i) /\ i + (j - i + 1) = j + 1
        BY <1>0, <3>2
      <4> QED BY <1>2, <2>2, <3>2, <4>1
    <3> QED BY <3>1, <3>2
  <2> QED BY <2>2, <2>3 DEF c
<1> QED BY <1>3 DEF RemoveAt, a, b, n

(* The vector with x inserted at position i, element by element.           *)
LEMMA InsertAtElements ==
    ASSUME NEW S, NEW v \in Seq(S), NEW i \in 1 .. (Len(v) + 1), NEW x \in S
    PROVE  /\ InsertAt(v, i, x) \in Seq(S)
           /\ Len(InsertAt(v, i, x)) = Len(v) + 1
           /\ \A j \in 1 .. (Len(v) + 1) :
                 InsertAt(v, i, x)[j] = IF j < i THEN v[j]
                                        ELSE IF j = i THEN x ELSE v[j - 1]
<1> DEFINE n == Len(v)
           a == SubSeq(v, 1, i - 1)
           b == SubSeq(v, i, n)
           c == a \o <<x>>
           w == c \o b
<1>0. n \in Nat /\ i \in 1 .. (n + 1) /\ \A j \in 1 .. n : v[j] \in S
  BY LenProperties
<1>1. /\ a \in Seq(S) /\ Len(a) = i - 1 /\ \A j \in 1 .. (i - 1) : a[j] = v[j]
  <2>1. \A j \in 1 .. (i - 1) : v[j] \in S
    BY <1>0
  <2>2. /\ a \in Seq(S) /\ Len(a) = IF 1 <= i - 1 THEN i - 1 - 1 + 1 ELSE 0
        /\ \A j \in 1 .. (i - 1) - 1 + 1 : a[j] = v[1 + j - 1]
    BY <1>0, <2>1, SubSeqProperties
  <2> HIDE DEF a
  <2> QED BY <1>0, <2>2
<1>2. /\ b \in Seq(S) /\ Len(b) = n - i + 1 /\ \A j \in 1 .. (n - i + 1) : b[j] = v[i + j - 1]
  <2>1. \A j \in i .. n : v[j] \in S
    BY <1>0
  <2>2. /\ b \in Seq(S) /\ Len(b) = IF i <= n THEN n - i + 1 ELSE 0
        /\ \A j \in 1 .. n - i + 1 : b[j] = v[i + j - 1]
    BY <1>0, <2>1, SubSeqProperties
  <2> HIDE DEF b
  <2> QED BY <1>0, <2>2
<1>3. <<x>> \in Seq(S) /\ Len(<<x>>) = 1 /\ <<x>>[1] = x
  OBVIOUS
<1> HIDE DEF a, b, n
<1>4. /\ c \in Seq(S) /\ Len(c) = i
      /\ \A j \in 1 .. i : c[j] = IF j < i THEN v[j] ELSE x
  <2>1. /\ a \o <<x>> \in Seq(S) /\ Len(a \o <<x>>) = Len(a) + Len(<<x>>)
        /\ \A j \in 1 .. Len(a) + Len(<<x>>) : (a \o <<x>>)[j] =
              IF j <= Len(a) THEN a[j] ELSE <<x>>[j - Len(a)]
    BY <1>1, <1>3, ConcatProperties
  <2> DEFINE y == <<x>>
  <2> HIDE DEF y
  <2>2. /\ c \in Seq(S) /\ Len(c) = i
        /\ \A j \in 1 .. i : c[j] = IF j <= i - 1 THEN a[j] ELSE y[j - (i - 1)]
    BY <1>0, <1>1, <1>3, <2>1 DEF y
  <2> HIDE DEF c
  <2> QED BY <1>0, <1>1, <1>3, <2>2 DEF y
<1> HIDE DEF c
<1>5. /\ w \in Seq(S) /\ Len(w) = Len(c) + Len(b)
      /\ \A j \in 1 .. Len(c) + Len(b) : w[j] = IF j <= Len(c) THEN c[j] ELSE b[j - Len(c)]
  BY <1>2, <1>4, ConcatProperties
<1> HIDE DEF w
<1>6. Len(w) = n + 1 /\ \A j \in 1 .. (n + 1) : w[j] = IF j <= i THEN c[j] ELSE b[j - i]
  BY <1>0, <1>2, <1>4, <1>5
<1>7. \A j \in 1 .. (n + 1) :
         w[j] = IF j < i THEN v[j] ELSE IF j = i THEN x ELSE v[j - 1]
  <2> TAKE j \in 1 .. (n + 1)
  <2>1. CASE j <= i
    BY <1>0, <1>4, <1>6, <2>1
  <2>2. CASE ~(j <= i)
    <3>1. j - i \in 1 .. (n - i + 1) /\ i + (j - i) - 1 = j - 1
      BY <1>0, <2>2
    <3>2. w[j] = b[j - i]
      BY <1>6, <2>2
    <3>3. b[j - i] = v[i + (j - i) - 1]
      BY <1>2, <3>1
    <3>4. ~(j < i) /\ j # i
      BY <1>0, <2>2
    <3> QED BY <3>1, <3>2, <3>3, <3>4
  <2> QED BY <2>1, <2>2
<1> QED BY <1>5, <1>6, <1>7 DEF InsertAt, w, c, a, b, n

-----------------------------------------------------------------------------
(* Sorted vectors of levels *)

(* The order of a side's prices is a strict linear order.                  *)
LEMMA BeforeOrder ==
    ASSUME NEW s
    PROVE  /\ \A p, q \in Prices : p = q \/ before(s, p, q) \/ before(s, q, p)
           /\ \A p \in Prices : ~before(s, p, p)
           /\ \A p, q, r \in Prices : before(s, p, q) /\ before(s, q, r) => before(s, p, r)
<1>1. \A p \in Prices : p \in Int
  BY FeedAssumption
<1>2. CASE s = "Buy"
  BY <1>1, <1>2 DEF before
<1>3. CASE s # "Buy"
  BY <1>1, <1>3 DEF before
<1> QED BY <1>2, <1>3

SortedVector(s, v) ==
    /\ v \in Seq(BookLevel)
    /\ \A i, j \in DOMAIN v : i < j => before(s, v[i].price, v[j].price)
    /\ \A i \in DOMAIN v : v[i].quantity # 0

(* The quantity a vector has at a price, as AsBook reads it.               *)
Quantity(v, p) ==
    IF \E i \in DOMAIN v : v[i].price = p
    THEN v[CHOOSE i \in DOMAIN v : v[i].price = p].quantity
    ELSE 0

(* The positions and the levels of a sorted vector.                        *)
LEMMA SortedFacts ==
    ASSUME NEW s, NEW v, SortedVector(s, v)
    PROVE  /\ Len(v) \in Nat /\ DOMAIN v = 1 .. Len(v)
           /\ \A j \in 1 .. Len(v) : v[j] \in BookLevel /\ v[j].price \in Prices
                                      /\ v[j].quantity \in Nat /\ v[j].quantity # 0
           /\ \A j, k \in 1 .. Len(v) : j < k => before(s, v[j].price, v[k].price)
           /\ \A j, k \in 1 .. Len(v) : v[j].price = v[k].price => j = k
<1>1. /\ Len(v) \in Nat /\ DOMAIN v = 1 .. Len(v)
      /\ \A j \in 1 .. Len(v) : v[j] \in BookLevel
  BY LenProperties DEF SortedVector
<1>2. \A j \in 1 .. Len(v) : v[j].price \in Prices /\ v[j].quantity \in Nat
  BY <1>1 DEF BookLevel
<1>3. /\ \A j \in 1 .. Len(v) : v[j].quantity # 0
      /\ \A j, k \in 1 .. Len(v) : j < k => before(s, v[j].price, v[k].price)
  BY <1>1 DEF SortedVector
<1>4. ASSUME NEW j \in 1 .. Len(v), NEW k \in 1 .. Len(v), v[j].price = v[k].price
      PROVE  j = k
  <2>1. ~(j < k) /\ ~(k < j)
    BY <1>2, <1>3, <1>4, BeforeOrder
  <2> QED BY <1>1, <2>1
<1> QED BY <1>1, <1>2, <1>3, <1>4

(* The quantity at a price is that of its one level, or 0.                 *)
LEMMA QuantityFacts ==
    ASSUME NEW s, NEW v, SortedVector(s, v), NEW p
    PROVE  /\ \A k \in 1 .. Len(v) : v[k].price = p => Quantity(v, p) = v[k].quantity
           /\ (\A k \in 1 .. Len(v) : v[k].price # p) => Quantity(v, p) = 0
           /\ Quantity(v, p) \in Nat
           /\ Quantity(v, p) # 0 =>
                 \E k \in 1 .. Len(v) : v[k].price = p /\ v[k].quantity = Quantity(v, p)
<1> DEFINE n == Len(v)
           c == CHOOSE i \in DOMAIN v : v[i].price = p
<1>1. /\ DOMAIN v = 1 .. n
      /\ \A j \in 1 .. n : v[j].quantity \in Nat
      /\ \A j, k \in 1 .. n : v[j].price = v[k].price => j = k
  BY SortedFacts
<1> HIDE DEF n
<1>2. ASSUME NEW k \in 1 .. n, v[k].price = p
      PROVE  Quantity(v, p) = v[k].quantity
  <2>1. c \in 1 .. n /\ v[c].price = p
    BY <1>1, <1>2
  <2>2. c = k
    BY <1>1, <1>2, <2>1
  <2> HIDE DEF c
  <2>3. Quantity(v, p) = v[c].quantity
    BY <1>1, <1>2 DEF Quantity, c
  <2> QED BY <2>2, <2>3
<1>3. (\A k \in 1 .. n : v[k].price # p) => Quantity(v, p) = 0
  BY <1>1 DEF Quantity
<1> QED BY <1>1, <1>2, <1>3 DEF n

(* Two vectors with the same levels at a price have the same quantity.     *)
LEMMA SameQuantity ==
    ASSUME NEW s, NEW v, SortedVector(s, v), NEW w, SortedVector(s, w), NEW p,
           \A k \in 1 .. Len(v) : v[k].price = p =>
              \E l \in 1 .. Len(w) : w[l].price = p /\ w[l].quantity = v[k].quantity,
           \A l \in 1 .. Len(w) : w[l].price = p => \E k \in 1 .. Len(v) : v[k].price = p
    PROVE  Quantity(w, p) = Quantity(v, p)
<1>1. CASE \E k \in 1 .. Len(v) : v[k].price = p
  <2>1. PICK k \in 1 .. Len(v) : v[k].price = p
    BY <1>1
  <2>2. PICK l \in 1 .. Len(w) : w[l].price = p /\ w[l].quantity = v[k].quantity
    BY <2>1
  <2>3. Quantity(v, p) = v[k].quantity
    BY <2>1, QuantityFacts
  <2>4. Quantity(w, p) = w[l].quantity
    BY <2>2, QuantityFacts
  <2> QED BY <2>2, <2>3, <2>4
<1>2. CASE ~\E k \in 1 .. Len(v) : v[k].price = p
  <2>1. \A l \in 1 .. Len(w) : w[l].price # p
    BY <1>2
  <2>2. Quantity(w, p) = 0
    BY <2>1, QuantityFacts
  <2>3. Quantity(v, p) = 0
    BY <1>2, QuantityFacts
  <2> QED BY <2>2, <2>3
<1> QED BY <1>1, <1>2

(* find_position is std::lower_bound: exactly the levels before it come    *)
(* before the price.                                                       *)
LEMMA FindPosition ==
    ASSUME NEW s, NEW v, SortedVector(s, v), NEW p \in Prices
    PROVE  /\ find_position(v, s, p) \in 1 .. (Len(v) + 1)
           /\ \A j \in 1 .. Len(v) :
                 before(s, v[j].price, p) <=> j < find_position(v, s, p)
<1> DEFINE n == Len(v)
           B == {j \in DOMAIN v : before(s, v[j].price, p)}
<1>1. /\ n \in Nat /\ DOMAIN v = 1 .. n
      /\ \A j \in 1 .. n : v[j].price \in Prices
      /\ \A j, k \in 1 .. n : j < k => before(s, v[j].price, v[k].price)
  BY SortedFacts
<1>2. B \in SUBSET (1 .. n)
  BY <1>1
<1>3. \A j \in B : \A i \in 1 .. n : i < j => i \in B
  <2> SUFFICES ASSUME NEW j \in B, NEW i \in 1 .. n, i < j PROVE before(s, v[i].price, p)
    BY <1>1
  <2>1. before(s, v[i].price, v[j].price) /\ before(s, v[j].price, p) /\ j \in 1 .. n
    BY <1>1
  <2> QED BY <1>1, <2>1, BeforeOrder
<1>4. \A j \in 1 .. n : j \in B <=> before(s, v[j].price, p)
  BY <1>1
<1> HIDE DEF n, B
<1>5. Cardinality(B) \in 0 .. n /\ B = 1 .. Cardinality(B)
  BY <1>1, <1>2, <1>3, InitialSegment
<1>6. find_position(v, s, p) = 1 + Cardinality(B)
  BY DEF find_position, B
<1>7. \A j \in 1 .. n : j \in B <=> j < 1 + Cardinality(B)
  <2> DEFINE c == Cardinality(B)
  <2>1. c \in 0 .. n /\ B = 1 .. c
    BY <1>5
  <2> HIDE DEF c
  <2> QED BY <1>1, <2>1 DEF c
<1> QED BY <1>1, <1>4, <1>5, <1>6, <1>7 DEF n

(* What an operation at one price has to do to a side.                     *)
Sets(s, v, w, price, qty) ==
    /\ SortedVector(s, w)
    /\ \A p \in Prices : Quantity(w, p) = IF p = price THEN qty ELSE Quantity(v, p)

(* Removing a level leaves none at its price.                              *)
LEMMA RemoveSets ==
    ASSUME NEW s, NEW v, SortedVector(s, v), NEW i \in 1 .. Len(v)
    PROVE  Sets(s, v, RemoveAt(v, i), v[i].price, 0)
<1> DEFINE n == Len(v)
           w == RemoveAt(v, i)
           from(j) == IF j < i THEN j ELSE j + 1
<1>1. /\ n \in Nat /\ v \in Seq(BookLevel) /\ i \in 1 .. n
      /\ \A j \in 1 .. n : v[j].price \in Prices /\ v[j].quantity # 0
      /\ \A j, k \in 1 .. n : j < k => before(s, v[j].price, v[k].price)
      /\ \A j, k \in 1 .. n : v[j].price = v[k].price => j = k
  BY SortedFacts DEF SortedVector
<1>2. /\ w \in Seq(BookLevel) /\ Len(w) = n - 1
      /\ \A j \in 1 .. (n - 1) : w[j] = v[from(j)]
  BY <1>1, RemoveAtElements
<1>3. DOMAIN w = 1 .. (n - 1)
  BY <1>2, LenProperties
<1> HIDE DEF n, w
<1>4. /\ \A j \in 1 .. (n - 1) : from(j) \in 1 .. n /\ from(j) # i
      /\ \A j, k \in 1 .. (n - 1) : j < k => from(j) < from(k)
      /\ \A k \in 1 .. n : k # i => \E j \in 1 .. (n - 1) : from(j) = k
  <2>1. \A j \in 1 .. (n - 1) : from(j) \in 1 .. n /\ from(j) # i
    BY <1>1
  <2>2. \A j, k \in 1 .. (n - 1) : j < k => from(j) < from(k)
    BY <1>1
  <2>3. ASSUME NEW k \in 1 .. n, k # i PROVE \E j \in 1 .. (n - 1) : from(j) = k
    <3>1. CASE k < i
      <4>1. k \in 1 .. (n - 1) /\ from(k) = k
        BY <1>1, <3>1
      <4> QED BY <4>1
    <3>2. CASE ~(k < i)
      <4>1. k - 1 \in 1 .. (n - 1) /\ from(k - 1) = k
        BY <1>1, <2>3, <3>2
      <4> QED BY <4>1
    <3> QED BY <3>1, <3>2
  <2> QED BY <2>1, <2>2, <2>3
<1> HIDE DEF from
<1>5. SortedVector(s, w)
  <2>1. ASSUME NEW j \in 1 .. (n - 1), NEW k \in 1 .. (n - 1), j < k
        PROVE  before(s, w[j].price, w[k].price)
    <3>1. /\ w[j] = v[from(j)] /\ from(j) \in 1 .. n
          /\ w[k] = v[from(k)] /\ from(k) \in 1 .. n
          /\ from(j) < from(k)
      BY <1>2, <1>4, <2>1
    <3> QED BY <1>1, <3>1
  <2>2. ASSUME NEW j \in 1 .. (n - 1) PROVE w[j].quantity # 0
    <3>1. w[j] = v[from(j)] /\ from(j) \in 1 .. n
      BY <1>2, <1>4
    <3> QED BY <1>1, <3>1
  <2> QED BY <1>2, <1>3, <2>1, <2>2 DEF SortedVector
<1>6. Quantity(w, v[i].price) = 0
  <2>1. ASSUME NEW j \in 1 .. (n - 1) PROVE w[j].price # v[i].price
    <3>1. w[j] = v[from(j)] /\ from(j) \in 1 .. n /\ from(j) # i
      BY <1>2, <1>4
    <3> QED BY <1>1, <3>1
  <2> QED BY <1>2, <1>5, <2>1, QuantityFacts
<1>7. ASSUME NEW p \in Prices, p # v[i].price
      PROVE  Quantity(w, p) = Quantity(v, p)
  <2>1. \A k \in 1 .. n : v[k].price = p =>
           \E l \in 1 .. (n - 1) : w[l].price = p /\ w[l].quantity = v[k].quantity
    BY <1>2, <1>4, <1>7
  <2>2. \A l \in 1 .. (n - 1) : w[l].price = p => \E k \in 1 .. n : v[k].price = p
    BY <1>2, <1>4
  <2>3. /\ \A k \in 1 .. Len(v) : v[k].price = p =>
               \E l \in 1 .. Len(w) : w[l].price = p /\ w[l].quantity = v[k].quantity
        /\ \A l \in 1 .. Len(w) : w[l].price = p => \E k \in 1 .. Len(v) : v[k].price = p
    BY <1>2, <2>1, <2>2 DEF n
  <2> QED BY <1>5, <2>3, SameQuantity
<1> QED BY <1>5, <1>6, <1>7 DEF Sets, w

(* Overwriting a level's quantity.                                         *)
LEMMA OverwriteSets ==
    ASSUME NEW s, NEW v, SortedVector(s, v), NEW i \in 1 .. Len(v),
           NEW qty \in Nat, qty # 0
    PROVE  Sets(s, v, [v EXCEPT ![i].quantity = qty], v[i].price, qty)
<1> DEFINE n == Len(v)
           x == [v[i] EXCEPT !.quantity = qty]
           w == [v EXCEPT ![i] = x]
<1>1. /\ n \in Nat /\ v \in Seq(BookLevel) /\ i \in 1 .. n
      /\ \A j \in 1 .. n : v[j] \in BookLevel /\ v[j].price \in Prices /\ v[j].quantity # 0
      /\ \A j, k \in 1 .. n : j < k => before(s, v[j].price, v[k].price)
      /\ \A j, k \in 1 .. n : v[j].price = v[k].price => j = k
  BY SortedFacts DEF SortedVector
<1>2. x \in BookLevel /\ x.price = v[i].price /\ x.quantity = qty
  BY <1>1 DEF BookLevel
<1> HIDE DEF x
<1>3. /\ w \in Seq(BookLevel) /\ Len(w) = n
      /\ \A j \in 1 .. n : w[j] = IF j = i THEN x ELSE v[j]
  BY <1>1, <1>2, ExceptSeq
<1>4. DOMAIN w = 1 .. n
  BY <1>3, LenProperties
<1>5. [v EXCEPT ![i].quantity = qty] = w
  BY DEF x
<1> HIDE DEF n, w
<1>6. \A j \in 1 .. n : w[j].price = v[j].price /\ w[j].quantity # 0
                        /\ (j # i => w[j].quantity = v[j].quantity)
  BY <1>1, <1>2, <1>3
<1>7. SortedVector(s, w)
  BY <1>1, <1>3, <1>4, <1>6 DEF SortedVector
<1>8. Quantity(w, v[i].price) = qty
  <2>1. w[i].price = v[i].price /\ w[i].quantity = qty /\ i \in 1 .. Len(w)
    BY <1>1, <1>2, <1>3
  <2> QED BY <1>7, <2>1, QuantityFacts
<1>9. ASSUME NEW p \in Prices, p # v[i].price
      PROVE  Quantity(w, p) = Quantity(v, p)
  <2>1. /\ \A k \in 1 .. Len(v) : v[k].price = p =>
               \E l \in 1 .. Len(w) : w[l].price = p /\ w[l].quantity = v[k].quantity
        /\ \A l \in 1 .. Len(w) : w[l].price = p => \E k \in 1 .. Len(v) : v[k].price = p
    BY <1>3, <1>6, <1>9 DEF n
  <2> QED BY <1>7, <2>1, SameQuantity
<1> QED BY <1>5, <1>7, <1>8, <1>9 DEF Sets

(* Inserting a level between those that come before its price and those    *)
(* that come after.                                                        *)
LEMMA InsertSets ==
    ASSUME NEW s, NEW v, SortedVector(s, v), NEW i \in 1 .. (Len(v) + 1),
           NEW price \in Prices, NEW qty \in Nat, qty # 0,
           \A j \in 1 .. Len(v) : IF j < i THEN before(s, v[j].price, price)
                                           ELSE before(s, price, v[j].price)
    PROVE  Sets(s, v, InsertAt(v, i, [price |-> price, quantity |-> qty]), price, qty)
<1> DEFINE n == Len(v)
           x == [price |-> price, quantity |-> qty]
           w == InsertAt(v, i, x)
<1>1. /\ n \in Nat /\ v \in Seq(BookLevel) /\ i \in 1 .. (n + 1)
      /\ \A j \in 1 .. n : v[j].price \in Prices /\ v[j].quantity # 0
      /\ \A j, k \in 1 .. n : j < k => before(s, v[j].price, v[k].price)
      /\ \A j \in 1 .. n : IF j < i THEN before(s, v[j].price, price)
                                   ELSE before(s, price, v[j].price)
  BY SortedFacts DEF SortedVector
<1>2. x \in BookLevel /\ x.price = price /\ x.quantity = qty
  BY DEF BookLevel
<1> HIDE DEF x
<1>3. /\ w \in Seq(BookLevel) /\ Len(w) = n + 1
      /\ \A j \in 1 .. (n + 1) : w[j] = IF j < i THEN v[j] ELSE IF j = i THEN x ELSE v[j - 1]
  BY <1>1, <1>2, InsertAtElements
<1>4. DOMAIN w = 1 .. (n + 1)
  BY <1>3, LenProperties
<1> HIDE DEF n, w
<1>5. /\ \A j \in 1 .. n : j < i => j \in 1 .. (n + 1) /\ w[j] = v[j]
      /\ w[i] = x
      /\ \A j \in 1 .. n : ~(j < i) => j + 1 \in 1 .. (n + 1) /\ w[j + 1] = v[j]
  BY <1>1, <1>3
<1>6. \A j \in 1 .. (n + 1) :
         \/ j < i /\ j \in 1 .. n /\ w[j] = v[j]
         \/ j = i /\ w[j] = x
         \/ j > i /\ j - 1 \in 1 .. n /\ ~(j - 1 < i) /\ w[j] = v[j - 1]
  BY <1>1, <1>3
<1>7. SortedVector(s, w)
  <2>1. \A j \in 1 .. (n + 1) : w[j].quantity # 0
    BY <1>1, <1>2, <1>6
  <2>2. ASSUME NEW j \in 1 .. (n + 1), NEW k \in 1 .. (n + 1), j < k
        PROVE  before(s, w[j].price, w[k].price)
    <3>1. CASE j < i
      <4>1. w[j] = v[j] /\ j \in 1 .. n /\ before(s, v[j].price, price)
        BY <1>1, <1>6, <3>1
      <4>2. CASE k < i
        BY <1>1, <1>6, <2>2, <4>1, <4>2
      <4>3. CASE k = i
        BY <1>2, <1>5, <4>1, <4>3
      <4>4. CASE k > i
        <5>1. w[k] = v[k - 1] /\ k - 1 \in 1 .. n /\ j < k - 1
          BY <1>1, <1>6, <3>1, <4>4
        <5> QED BY <1>1, <4>1, <5>1
      <4> QED BY <1>1, <4>2, <4>3, <4>4
    <3>2. CASE j = i
      <4>1. w[k] = v[k - 1] /\ k - 1 \in 1 .. n /\ ~(k - 1 < i)
        BY <1>1, <1>6, <2>2, <3>2
      <4> QED BY <1>1, <1>2, <1>5, <3>2, <4>1
    <3>3. CASE j > i
      <4>1. /\ w[k] = v[k - 1] /\ k - 1 \in 1 .. n
            /\ w[j] = v[j - 1] /\ j - 1 \in 1 .. n /\ j - 1 < k - 1
        BY <1>1, <1>6, <2>2, <3>3
      <4> QED BY <1>1, <4>1
    <3> QED BY <1>1, <3>1, <3>2, <3>3
  <2> QED BY <1>3, <1>4, <2>1, <2>2 DEF SortedVector
<1>8. Quantity(w, price) = qty
  <2>1. i \in 1 .. Len(w) /\ w[i].price = price /\ w[i].quantity = qty
    BY <1>1, <1>2, <1>3, <1>5
  <2> QED BY <1>7, <2>1, QuantityFacts
<1>9. ASSUME NEW p \in Prices, p # price
      PROVE  Quantity(w, p) = Quantity(v, p)
  <2>1. ASSUME NEW k \in 1 .. n, v[k].price = p
        PROVE  \E l \in 1 .. (n + 1) : w[l].price = p /\ w[l].quantity = v[k].quantity
    BY <1>5, <2>1
  <2>2. \A l \in 1 .. (n + 1) : w[l].price = p => \E k \in 1 .. n : v[k].price = p
    BY <1>2, <1>6, <1>9
  <2>3. /\ \A k \in 1 .. Len(v) : v[k].price = p =>
               \E l \in 1 .. Len(w) : w[l].price = p /\ w[l].quantity = v[k].quantity
        /\ \A l \in 1 .. Len(w) : w[l].price = p => \E k \in 1 .. Len(v) : v[k].price = p
    BY <1>3, <2>1, <2>2 DEF n
  <2> QED BY <1>7, <2>3, SameQuantity
<1> QED BY <1>7, <1>8, <1>9 DEF Sets, w, x

(* upsert_level sets the quantity at its price and no other.               *)
LEMMA UpsertSets ==
    ASSUME NEW s, NEW v, SortedVector(s, v), NEW price \in Prices, NEW qty \in Nat
    PROVE  Sets(s, v, upsert_level(v, s, price, qty), price, qty)
<1> DEFINE n == Len(v)
           i == find_position(v, s, price)
           w == upsert_level(v, s, price, qty)
           hit == found(v, i, price)
<1>1. /\ n \in Nat /\ DOMAIN v = 1 .. n
      /\ \A j \in 1 .. n : v[j].price \in Prices
      /\ \A j, k \in 1 .. n : j < k => before(s, v[j].price, v[k].price)
  BY SortedFacts
<1>2. /\ i \in 1 .. (n + 1)
      /\ \A j \in 1 .. n : before(s, v[j].price, price) <=> j < i
  BY FindPosition
<1>3. w = CASE hit /\ qty = 0  -> RemoveAt(v, i)
            [] hit /\ qty # 0  -> [v EXCEPT ![i].quantity = qty]
            [] ~hit /\ qty # 0 -> InsertAt(v, i, [price |-> price, quantity |-> qty])
            [] OTHER           -> v
  BY DEF upsert_level
<1>4. hit <=> i \in 1 .. n /\ v[i].price = price
  BY <1>1 DEF found
<1> HIDE DEF i, w, hit
<1>5. CASE hit /\ qty = 0
  <2>1. w = RemoveAt(v, i)
    BY <1>3, <1>5
  <2> QED BY <1>4, <1>5, <2>1, RemoveSets DEF w
<1>6. CASE hit /\ qty # 0
  <2>1. w = [v EXCEPT ![i].quantity = qty]
    BY <1>3, <1>6
  <2>2. Sets(s, v, [v EXCEPT ![i].quantity = qty], v[i].price, qty)
    BY <1>4, <1>6, OverwriteSets
  <2>3. Sets(s, v, w, v[i].price, qty)
    BY <2>1, <2>2
  <2> QED BY <1>4, <1>6, <2>3 DEF w
<1>7. ASSUME ~hit
      PROVE  \A j \in 1 .. n : IF j < i THEN before(s, v[j].price, price)
                                      ELSE before(s, price, v[j].price)
  <2> TAKE j \in 1 .. n
  <2>1. CASE ~(j < i)
    <3>1. i \in 1 .. n /\ v[i].price # price /\ ~before(s, v[i].price, price)
      BY <1>1, <1>2, <1>4, <1>7, <2>1
    <3>2. before(s, price, v[i].price)
      BY <1>1, <3>1, BeforeOrder
    <3>3. j = i \/ before(s, v[i].price, v[j].price)
      BY <1>1, <1>2, <2>1, <3>1
    <3>4. before(s, price, v[j].price)
      BY <1>1, <3>1, <3>2, <3>3, BeforeOrder
    <3> QED BY <2>1, <3>4
  <2> QED BY <1>2, <2>1
<1>8. CASE ~hit /\ qty # 0
  <2>1. w = InsertAt(v, i, [price |-> price, quantity |-> qty])
    BY <1>3, <1>8
  <2>2. Sets(s, v, InsertAt(v, i, [price |-> price, quantity |-> qty]), price, qty)
    BY <1>2, <1>7, <1>8, InsertSets
  <2> QED BY <2>1, <2>2 DEF w
<1>9. CASE ~hit /\ qty = 0
  <2>1. w = v
    BY <1>3, <1>9
  <2>2. \A j \in 1 .. n : v[j].price # price
    BY <1>1, <1>7, <1>9, BeforeOrder
  <2>3. Quantity(v, price) = 0
    BY <2>2, QuantityFacts
  <2> QED BY <1>9, <2>1, <2>3 DEF Sets, w
<1> QED BY <1>5, <1>6, <1>8, <1>9

(* erase_level is upsert_level with quantity 0.                            *)
LEMMA EraseSets ==
    ASSUME NEW s, NEW v, SortedVector(s, v), NEW price \in Prices
    PROVE  Sets(s, v, erase_level(v, s, price), price, 0)
<1>1. erase_level(v, s, price) = upsert_level(v, s, price, 0)
  BY DEF erase_level, upsert_level
<1> QED BY <1>1, UpsertSets

(* An empty vector is sorted and has quantity 0 everywhere.                *)
LEMMA EmptySorted ==
    ASSUME NEW s
    PROVE  SortedVector(s, <<>>) /\ \A p : Quantity(<<>>, p) = 0
BY DEF SortedVector, Quantity

-----------------------------------------------------------------------------
(* The book *)

(* The fields of an event that the book reads.                             *)
LEMMA EventFields ==
    ASSUME NEW ev \in MarketEvent
    PROVE  /\ ev.side \in Sides /\ ev.quantity \in Nat
           /\ ev.type \in {"Quote", "BookDelete"} => ev.price \in Prices
<1> USE FeedAssumption
<1>1. CASE ev \in Events("Trade", {"Buy"}, Prices, TradeQuantities, BOOLEAN)
  BY <1>1 DEF Events, Sides
<1>2. CASE ev \in Events("Quote", Sides, Prices, QuoteQuantities, {TRUE})
  BY <1>2 DEF Events, Sides
<1>3. CASE ev \in Events("BookDelete", Sides, Prices, {0}, {TRUE})
  BY <1>3 DEF Events, Sides
<1>4. CASE ev \in Events("Snapshot", {"Buy"}, {0}, {0}, {TRUE})
  BY <1>4 DEF Events, Sides
<1>5. CASE ev \in Events("Heartbeat", {"Buy"}, {0}, {0}, {TRUE})
  BY <1>5 DEF Events, Sides
<1> QED BY <1>1, <1>2, <1>3, <1>4, <1>5 DEF MarketEvent

(* The inductive invariant: one sorted vector per side.                    *)
BookInv ==
    /\ levels = [s \in Sides |-> levels[s]]
    /\ \A s \in Sides : SortedVector(s, levels[s])

(* What an event does to the quantity at a price.                          *)
LevelAfter(ev, s, p, quantity) ==
    IF ev.type = "Snapshot" THEN 0
    ELSE IF ev.side # s \/ ev.price # p THEN quantity
    ELSE IF ev.type = "Quote" THEN ev.quantity
    ELSE IF ev.type = "BookDelete" THEN 0
    ELSE quantity

LEMMA ApplyLevels ==
    ASSUME BookInv, NEW ev \in MarketEvent, Apply(ev)
    PROVE  /\ BookInv'
           /\ \A s \in Sides, p \in Prices :
                 Quantity(levels'[s], p) = LevelAfter(ev, s, p, Quantity(levels[s], p))
<1>1. /\ ev.side \in Sides /\ ev.quantity \in Nat
      /\ ev.type \in {"Quote", "BookDelete"} => ev.price \in Prices
  BY EventFields
<1>2. \A s \in Sides : SortedVector(s, levels[s])
  BY DEF BookInv
<1>3. levels = [s \in Sides |-> levels[s]]
  BY DEF BookInv
<1> DEFINE Puts(q) == \A s \in Sides, p \in Prices :
                         LevelAfter(ev, s, p, Quantity(levels[s], p))
                            = IF s = ev.side /\ p = ev.price THEN q
                              ELSE Quantity(levels[s], p)
           Follows == \A s \in Sides, p \in Prices :
                         Quantity(levels'[s], p)
                            = LevelAfter(ev, s, p, Quantity(levels[s], p))
<1> SUFFICES BookInv' /\ Follows
  OBVIOUS
<1>4. ASSUME NEW w, NEW q, Sets(ev.side, levels[ev.side], w, ev.price, q),
             levels' = [levels EXCEPT ![ev.side] = w], Puts(q)
      PROVE  BookInv' /\ Follows
  <2>1. /\ levels' = [s \in Sides |-> levels'[s]]
        /\ \A s \in Sides : levels'[s] = IF s = ev.side THEN w ELSE levels[s]
    BY <1>1, <1>3, <1>4
  <2>2. /\ SortedVector(ev.side, w)
        /\ \A p \in Prices :
              Quantity(w, p) = IF p = ev.price THEN q ELSE Quantity(levels[ev.side], p)
    BY <1>4 DEF Sets
  <2>3. BookInv'
    BY <1>2, <2>1, <2>2 DEF BookInv
  <2>4. ASSUME NEW s \in Sides, NEW p \in Prices
        PROVE  Quantity(levels'[s], p) = LevelAfter(ev, s, p, Quantity(levels[s], p))
    <3>1. CASE s = ev.side
      BY <1>4, <2>1, <2>2, <3>1
    <3>2. CASE s # ev.side
      BY <1>4, <2>1, <3>2
    <3> QED BY <3>1, <3>2
  <2> QED BY <2>3, <2>4
<1>5. CASE ev.type = "Quote"
  <2> DEFINE w == upsert_level(levels[ev.side], ev.side, ev.price, ev.quantity)
  <2>1. levels' = [levels EXCEPT ![ev.side] = w]
    BY <1>5 DEF Apply
  <2>2. Sets(ev.side, levels[ev.side], w, ev.price, ev.quantity)
    BY <1>1, <1>2, <1>5, UpsertSets
  <2> HIDE DEF w
  <2>3. Puts(ev.quantity)
    BY <1>5 DEF LevelAfter
  <2> HIDE DEF Puts, Follows
  <2> QED BY <1>4, <2>1, <2>2, <2>3
<1>6. CASE ev.type = "BookDelete"
  <2> DEFINE w == erase_level(levels[ev.side], ev.side, ev.price)
  <2>1. levels' = [levels EXCEPT ![ev.side] = w]
    BY <1>6 DEF Apply
  <2>2. Sets(ev.side, levels[ev.side], w, ev.price, 0)
    BY <1>1, <1>2, <1>6, EraseSets
  <2> HIDE DEF w
  <2>3. Puts(0)
    BY <1>6 DEF LevelAfter
  <2> HIDE DEF Puts, Follows
  <2> QED BY <1>4, <2>1, <2>2, <2>3
<1>7. CASE ev.type = "Snapshot"
  <2>1. levels' = [s \in Sides |-> <<>>]
    BY <1>7 DEF Apply
  <2> QED BY <1>7, <2>1, EmptySorted DEF BookInv, LevelAfter
<1>8. CASE ev.type \notin {"Quote", "BookDelete", "Snapshot"}
  <2>1. levels' = levels
    BY <1>8 DEF Apply
  <2> QED BY <1>8, <2>1 DEF BookInv, LevelAfter
<1> HIDE DEF Follows
<1> QED BY <1>5, <1>6, <1>7, <1>8

(* The invariant, and that it is preserved.                                *)
LEMMA InitBookInv == Init => BookInv
BY EmptySorted DEF Init, BookInv

LEMMA NextBookInv == BookInv /\ [Next]_vars => BookInv'
<1> SUFFICES ASSUME BookInv, [Next]_vars PROVE BookInv'
  OBVIOUS
<1>1. CASE Clear
  BY <1>1, EmptySorted DEF Clear, BookInv
<1>2. ASSUME NEW ev \in MarketEvent, Apply(ev) PROVE BookInv'
  BY <1>2, ApplyLevels
<1>3. CASE UNCHANGED vars
  BY <1>3 DEF vars, BookInv
<1> QED BY <1>1, <1>2, <1>3 DEF Next

LEMMA BookInvariance == Spec => []BookInv
BY InitBookInv, NextBookInv, PTL DEF Spec

(* Every insertion and removal keeps each vector strictly sorted and free  *)
(* of empty levels, so that the binary search of the next event is right.  *)
THEOREM BookStaysSorted == Spec => []SortedLevels
<1>1. BookInv => SortedLevels
  BY DEF BookInv, SortedVector, SortedLevels
<1> QED BY <1>1, BookInvariance, PTL

-----------------------------------------------------------------------------
(* The map the vectors stand for *)

(* The map holds at a price what the vector holds there.                   *)
LEMMA AsBookFields ==
    /\ AsBook = [level |-> AsBook.level, last_update |-> last_update]
    /\ AsBook.level = [s \in Sides |-> [p \in Prices |-> Quantity(levels[s], p)]]
BY DEF AsBook, Quantity

(* clear empties the map.                                                  *)
LEMMA ClearMap ==
    ASSUME NEW level, NEW time
    PROVE  clear([level |-> level, last_update |-> time])
              = [level |-> NoLevels, last_update |-> time]
BY DEF clear

(* The map with quantity q at one price.                                   *)
Changed(level, side, price, q) ==
    [level EXCEPT ![side] = [level[side] EXCEPT ![price] = q]]

(* Stamping a map leaves its levels alone.                                 *)
LEMMA StampMap ==
    ASSUME NEW level, NEW time, NEW stamp
    PROVE  [[level |-> level, last_update |-> time] EXCEPT !.last_update = stamp]
              = [level |-> level, last_update |-> stamp]
OBVIOUS

(* upsert changes the one level.                                           *)
LEMMA UpsertMap ==
    ASSUME NEW level, NEW time, NEW side, NEW price, NEW q
    PROVE  upsert([level |-> level, last_update |-> time], side, price, q)
              = [level |-> Changed(level, side, price, q), last_update |-> time]
BY DEF upsert, Changed

(* A function of the sides and the prices.                                 *)
IsMap(level) == level = [s \in Sides |-> [p \in Prices |-> level[s][p]]]

(* An event changes the map as LevelAfter says.                            *)
LEMMA ApplyMap ==
    ASSUME NEW ev \in MarketEvent, NEW level, NEW time, IsMap(level)
    PROVE  apply([level |-> level, last_update |-> time], ev)
              = [level |-> [s \in Sides |-> [p \in Prices |->
                               LevelAfter(ev, s, p, level[s][p])]],
                 last_update |-> ev.timestamp]
<1> DEFINE after == [s \in Sides |-> [p \in Prices |-> LevelAfter(ev, s, p, level[s][p])]]
           stamped == [[level |-> level, last_update |-> time] EXCEPT !.last_update = ev.timestamp]
<1>1. ev.side \in Sides /\ (ev.type \in {"Quote", "BookDelete"} => ev.price \in Prices)
  BY EventFields
<1>2. stamped = [level |-> level, last_update |-> ev.timestamp]
  BY StampMap
<1> HIDE DEF stamped
<1>3. ASSUME NEW q, ev.price \in Prices,
             \A s \in Sides, p \in Prices :
                LevelAfter(ev, s, p, level[s][p])
                   = IF s = ev.side /\ p = ev.price THEN q ELSE level[s][p]
      PROVE  upsert(stamped, ev.side, ev.price, q)
                = [level |-> after, last_update |-> ev.timestamp]
  <2> DEFINE changed == Changed(level, ev.side, ev.price, q)
  <2>1. upsert(stamped, ev.side, ev.price, q)
           = [level |-> changed, last_update |-> ev.timestamp]
    BY <1>2, UpsertMap
  <2>2. changed = [s \in Sides |-> changed[s]]
    BY <1>1 DEF Changed, IsMap
  <2>3. ASSUME NEW s \in Sides PROVE changed[s] = after[s]
    <3>1. level[s] = [p \in Prices |-> level[s][p]]
      BY DEF IsMap
    <3>2. CASE s = ev.side
      <4>1. changed[s] = [level[s] EXCEPT ![ev.price] = q]
        BY <1>1, <3>2 DEF Changed, IsMap
      <4>2. after[s] = [p \in Prices |-> IF p = ev.price THEN q ELSE level[s][p]]
        BY <1>3, <3>2
      <4> QED BY <1>3, <3>1, <4>1, <4>2
    <3>3. CASE s # ev.side
      <4>1. changed[s] = level[s]
        BY <1>1, <3>3 DEF Changed, IsMap
      <4>2. after[s] = [p \in Prices |-> level[s][p]]
        BY <1>3, <3>3
      <4> QED BY <3>1, <4>1, <4>2
    <3> QED BY <3>2, <3>3
  <2> HIDE DEF changed
  <2>4. changed = after
    BY <2>2, <2>3
  <2> QED BY <2>1, <2>4
<1> HIDE DEF after
<1>4. CASE ev.type = "Quote"
  <2>1. \A s \in Sides, p \in Prices :
           LevelAfter(ev, s, p, level[s][p])
              = IF s = ev.side /\ p = ev.price THEN ev.quantity ELSE level[s][p]
    BY <1>4 DEF LevelAfter
  <2>2. apply([level |-> level, last_update |-> time], ev)
           = upsert(stamped, ev.side, ev.price, ev.quantity)
    BY <1>4 DEF apply, stamped
  <2> QED BY <1>1, <1>3, <1>4, <2>1, <2>2 DEF after
<1>5. CASE ev.type = "BookDelete"
  <2>1. \A s \in Sides, p \in Prices :
           LevelAfter(ev, s, p, level[s][p])
              = IF s = ev.side /\ p = ev.price THEN 0 ELSE level[s][p]
    BY <1>5 DEF LevelAfter
  <2>2. apply([level |-> level, last_update |-> time], ev)
           = upsert(stamped, ev.side, ev.price, 0)
    BY <1>5 DEF apply, erase, upsert, stamped
  <2> QED BY <1>1, <1>3, <1>5, <2>1, <2>2 DEF after
<1>6. CASE ev.type = "Snapshot"
  <2>1. apply([level |-> level, last_update |-> time], ev) = clear(stamped)
    BY <1>6 DEF apply, stamped
  <2>2. after = NoLevels
    BY <1>6 DEF after, NoLevels, LevelAfter
  <2> QED BY <1>2, <2>1, <2>2, ClearMap DEF after
<1>7. CASE ev.type \notin {"Quote", "BookDelete", "Snapshot"}
  <2>1. apply([level |-> level, last_update |-> time], ev) = stamped
    BY <1>7 DEF apply, stamped
  <2>2. after = [s \in Sides |-> [p \in Prices |-> level[s][p]]]
    BY <1>7 DEF after, LevelAfter
  <2> QED BY <1>2, <2>1, <2>2 DEF after, IsMap
<1> QED BY <1>4, <1>5, <1>6, <1>7

(* The vectors implement the map: an event changes the level it names and  *)
(* no other, and clear() empties both sides.                               *)
THEOREM VectorsImplementLevelBook == Spec => ImplementsLevelBook
<1>1. Init => Map!Init
  <2> SUFFICES ASSUME Init PROVE AsBook = EmptyBook /\ event = None
    BY DEF Map!Init, Map!EmptyBook, EmptyBook, Map!NoLevels, NoLevels, Map!Sides, Sides
  <2>1. AsBook.level = NoLevels
    BY AsBookFields, EmptySorted DEF Init, NoLevels
  <2> QED BY <2>1, AsBookFields DEF Init, EmptyBook
<1>2. ASSUME BookInv, [Next]_vars
      PROVE  [Map!Next]_<<AsBook, event>>
  <2> DEFINE now  == [s \in Sides |-> [p \in Prices |-> Quantity(levels[s], p)]]
             then == [s \in Sides |-> [p \in Prices |-> Quantity(levels'[s], p)]]
  <2>1. /\ AsBook = [level |-> now, last_update |-> last_update]
        /\ AsBook' = [level |-> then, last_update |-> last_update']
    BY DEF AsBook, Quantity
  <2>2. CASE Clear
    <3>1. then = NoLevels
      BY <2>2, EmptySorted DEF Clear, NoLevels
    <3> HIDE DEF now, then
    <3>2. event' = None /\ AsBook' = clear(AsBook)
      BY <2>1, <2>2, <3>1, ClearMap DEF Clear
    <3> QED BY <3>2 DEF Map!Next, Map!clear, clear, Map!NoLevels, NoLevels, Map!Sides, Sides
  <2>3. ASSUME NEW ev \in MarketEvent, Apply(ev)
        PROVE  Map!Next
    <3>1. IsMap(now)
      BY DEF IsMap
    <3>2. then = [s \in Sides |-> [p \in Prices |-> LevelAfter(ev, s, p, now[s][p])]]
      BY <1>2, <2>3, ApplyLevels
    <3> HIDE DEF now, then
    <3>3. last_update' = ev.timestamp /\ event' = ev
      BY <2>3 DEF Apply
    <3>4. AsBook' = apply(AsBook, ev)
      BY <2>1, <3>1, <3>2, <3>3, ApplyMap
    <3> QED BY <2>3, <3>3, <3>4
            DEF Map!Next, Map!apply, apply, Map!upsert, upsert, Map!erase, erase, Map!clear,
                clear, Map!NoLevels, NoLevels, Map!Sides, Sides, Map!MarketEvent, MarketEvent,
                Map!Events, Events
  <2>4. CASE UNCHANGED vars
    BY <2>4 DEF vars, AsBook
  <2> QED BY <1>2, <2>2, <2>3, <2>4 DEF Next
<1> QED BY <1>1, <1>2, BookInvariance, PTL DEF Spec, ImplementsLevelBook, Map!Spec

-----------------------------------------------------------------------------
(* The fronts of the vectors *)

(* A side of the map has a level at a price exactly if its vector does.    *)
LEMMA LevelsOfVector ==
    ASSUME BookInv, NEW s \in Sides
    PROVE  \A p : p \in Levels(AsBook, s) <=>
                 \E i \in 1 .. Len(levels[s]) : levels[s][i].price = p
<1> DEFINE v == levels[s]
<1>1. SortedVector(s, v)
  BY DEF BookInv
<1>2. \A p \in Prices : AsBook.level[s][p] = Quantity(v, p)
  BY AsBookFields
<1>3. /\ \A i \in 1 .. Len(v) : /\ v[i].price \in Prices
                               /\ v[i].quantity \in Nat /\ v[i].quantity # 0
                               /\ Quantity(v, v[i].price) = v[i].quantity
      /\ \A p : (\A i \in 1 .. Len(v) : v[i].price # p) => Quantity(v, p) = 0
  BY <1>1, SortedFacts, QuantityFacts
<1> HIDE DEF v
<1>4. \A p : p \in Levels(AsBook, s) <=> p \in Prices /\ Quantity(v, p) > 0
  BY <1>2 DEF Levels
<1>5. \A p : p \in Levels(AsBook, s) <=> \E i \in 1 .. Len(v) : v[i].price = p
  <2> TAKE p
  <2>1. CASE \E i \in 1 .. Len(v) : v[i].price = p
    BY <1>3, <1>4, <2>1
  <2>2. CASE ~\E i \in 1 .. Len(v) : v[i].price = p
    BY <1>3, <1>4, <2>2
  <2> QED BY <2>1, <2>2
<1> QED BY <1>5 DEF v

(* The front of a vector is the side's best price.                         *)
LEMMA FrontIsBest ==
    ASSUME BookInv, NEW s \in Sides
    PROVE  /\ levels[s] = <<>> <=> Levels(AsBook, s) = {}
           /\ levels[s] # <<>> =>
                 LET top == Head(levels[s]).price
                 IN  /\ top \in Levels(AsBook, s) /\ top \in Prices
                     /\ \A p \in Levels(AsBook, s) :
                           p \in Prices /\ (p = top \/ before(s, top, p))
<1> DEFINE v == levels[s]
<1>1. SortedVector(s, v)
  BY DEF BookInv
<1>2. /\ Len(v) \in Nat /\ DOMAIN v = 1 .. Len(v)
      /\ \A j \in 1 .. Len(v) : v[j].price \in Prices
      /\ \A j, k \in 1 .. Len(v) : j < k => before(s, v[j].price, v[k].price)
  BY <1>1, SortedFacts
<1>3. v \in Seq(BookLevel)
  BY <1>1 DEF SortedVector
<1>4. v = <<>> <=> Len(v) = 0
  BY <1>3, EmptySeq
<1>5. Head(v) = v[1]
  OBVIOUS
<1>6. \A p : p \in Levels(AsBook, s) <=> \E i \in 1 .. Len(v) : v[i].price = p
  BY LevelsOfVector
<1> HIDE DEF v
<1>7. CASE Len(v) = 0
  BY <1>4, <1>6, <1>7 DEF v
<1>8. CASE Len(v) # 0
  <2>1. 1 \in 1 .. Len(v) /\ \A i \in 1 .. Len(v) : i = 1 \/ 1 < i
    BY <1>2, <1>8
  <2>2. /\ v[1].price \in Levels(AsBook, s) /\ v[1].price \in Prices
        /\ \A p \in Levels(AsBook, s) :
              p \in Prices /\ (p = v[1].price \/ before(s, v[1].price, p))
    BY <1>2, <1>6, <2>1
  <2> QED BY <1>4, <1>5, <1>8, <2>2 DEF v
<1> QED BY <1>7, <1>8

(* What the code reads off the fronts of its vectors are the queries of    *)
(* the map: which sides are empty, the best prices and whether the book is *)
(* crossed.                                                                *)
THEOREM FrontsAreBest == Spec => []FrontsAnswerQueries
<1>1. ASSUME BookInv PROVE FrontsAnswerQueries
  <2> DEFINE b == Head(levels["Buy"]).price
             a == Head(levels["Sell"]).price
             B == Levels(AsBook, "Buy")
             A == Levels(AsBook, "Sell")
  <2>0. Prices \subseteq Int /\ "Buy" \in Sides /\ "Sell" \in Sides /\ "Sell" # "Buy"
    BY FeedAssumption DEF Sides
  <2>1. \A s \in Sides : levels[s] = <<>> <=> Levels(AsBook, s) = {}
    BY <1>1, FrontIsBest
  <2>2. B # {} => /\ b \in B /\ b \in Int
                  /\ \A p \in B : p \in Int /\ p <= b
    <3>1. ASSUME B # {}
          PROVE  /\ b \in B /\ b \in Prices
                 /\ \A p \in B : p \in Prices /\ (p = b \/ before("Buy", b, p))
      BY <1>1, <2>0, <2>1, <3>1, FrontIsBest
    <3> HIDE DEF b, B
    <3>2. ASSUME B # {}, NEW p \in B
          PROVE  p \in Int /\ b \in Int /\ p <= b
      <4>1. p \in Int /\ b \in Int
        BY <2>0, <3>1, <3>2
      <4>2. p = b \/ before("Buy", b, p)
        BY <3>1, <3>2
      <4> QED BY <2>0, <4>1, <4>2 DEF before
    <3> QED BY <3>1, <3>2
  <2>3. A # {} => /\ a \in A /\ a \in Int
                  /\ \A p \in A : p \in Int /\ p >= a
    <3>1. ASSUME A # {}
          PROVE  /\ a \in A /\ a \in Prices
                 /\ \A p \in A : p \in Prices /\ (p = a \/ before("Sell", a, p))
      BY <1>1, <2>0, <2>1, <3>1, FrontIsBest
    <3> HIDE DEF a, A
    <3>2. ASSUME A # {}, NEW p \in A
          PROVE  p \in Int /\ a \in Int /\ p >= a
      <4>1. p \in Int /\ a \in Int
        BY <2>0, <3>1, <3>2
      <4>2. p = a \/ before("Sell", a, p)
        BY <3>1, <3>2
      <4> QED BY <2>0, <4>1, <4>2 DEF before
    <3> QED BY <3>1, <3>2
  <2>4. (levels["Buy"] # <<>> <=> B # {}) /\ (levels["Sell"] # <<>> <=> A # {})
    BY <2>0, <2>1
  <2>5. TwoSided(AsBook) <=> B # {} /\ A # {}
    BY DEF TwoSided, Sides
  <2>6. best_bid(AsBook) = Max(B) /\ best_ask(AsBook) = Min(A)
    BY DEF best_bid, best_ask
  <2>7. flat_crossed <=> B # {} /\ A # {} /\ b >= a
    BY <2>4 DEF flat_crossed
  <2>8. crossed(AsBook) <=> \E p \in B, q \in A : p >= q
    BY DEF crossed
  <2> HIDE DEF a, b, A, B
  <2>9. B # {} => Max(B) = b
    BY <2>2 DEF Max
  <2>10. A # {} => Min(A) = a
    BY <2>3 DEF Min
  <2>11. (B # {} /\ A # {} /\ b >= a) <=> \E p \in B, q \in A : p >= q
    BY <2>2, <2>3
  <2> QED BY <2>1, <2>5, <2>6, <2>7, <2>8, <2>9, <2>10, <2>11 DEF FrontsAnswerQueries, a, b
<1> QED BY <1>1, BookInvariance, PTL

-----------------------------------------------------------------------------
(* The window of returns *)

(* on_book_update and reset_price_history ride on the steps of the book.   *)
LEMMA MetricsBook == MetricsSpec => Spec
<1>1. MetricsInit => Init
  BY DEF MetricsInit
<1>2. [MetricsNext]_<<vars, metricVars>> => [Next]_vars
  BY DEF MetricsNext, Next, ApplyAndSample, ClearAndReset
<1> QED BY <1>1, <1>2, PTL DEF MetricsSpec, Spec

(* The returns between neighbours of a sequence of mids.                   *)
Returns(s) == [i \in 1 .. (Len(s) - 1) |-> <<s[i], s[i + 1]>>]

(* A sequence is a function of its positions.                              *)
LEMMA SeqIsFunction ==
    ASSUME NEW S, NEW s \in Seq(S)
    PROVE  s = [i \in 1 .. Len(s) |-> s[i]]
<1>1. s \in [1 .. Len(s) -> S]
  BY LenProperties
<1> QED BY <1>1

(* A window of at most k elements without its oldest.                      *)
LEMMA BoundedElements ==
    ASSUME NEW S, NEW s \in Seq(S), NEW k \in Nat
    PROVE  /\ Bounded(s, k) \in Seq(S)
           /\ Len(s) > k => /\ Len(Bounded(s, k)) = Len(s) - 1
                           /\ \A i \in 1 .. (Len(s) - 1) : Bounded(s, k)[i] = s[i + 1]
           /\ ~(Len(s) > k) => Bounded(s, k) = s
<1>1. CASE Len(s) > k
  <2>1. s # <<>> /\ Len(s) \in Nat
    BY <1>1, LenProperties, EmptySeq
  <2>2. /\ Tail(s) \in Seq(S) /\ Len(Tail(s)) = Len(s) - 1
        /\ \A i \in 1 .. Len(Tail(s)) : Tail(s)[i] = s[i + 1]
    BY <2>1, HeadTailProperties
  <2> QED BY <1>1, <2>2 DEF Bounded
<1>2. CASE ~(Len(s) > k)
  BY <1>2 DEF Bounded
<1> QED BY <1>1, <1>2

(* Appending a mid to the mids and its return to the returns, and dropping *)
(* the oldest of each, keeps the one the returns of the other.             *)
LEMMA SlideReturns ==
    ASSUME NEW s \in Seq(Int), s # <<>>, NEW mid \in Int, NEW k \in Nat
    PROVE  Bounded(Append(Returns(s), <<s[Len(s)], mid>>), k)
              = Returns(Bounded(Append(s, mid), k + 1))
<1> DEFINE n == Len(s)
           t == Append(s, mid)
           r == Returns(s)
           u == Append(r, <<s[n], mid>>)
           R == Int \X Int
<1>1. n \in Nat /\ n # 0 /\ \A i \in 1 .. n : s[i] \in Int
  BY LenProperties, EmptySeq
<1>2. /\ t \in Seq(Int) /\ Len(t) = n + 1
      /\ \A i \in 1 .. n : t[i] = s[i]
      /\ t[n + 1] = mid
  BY AppendProperties
<1>3. r \in Seq(R) /\ Len(r) = n - 1 /\ \A i \in 1 .. (n - 1) : r[i] = <<s[i], s[i + 1]>>
  <2>1. n - 1 \in Nat /\ \A i \in 1 .. (n - 1) : <<s[i], s[i + 1]>> \in R
    BY <1>1
  <2>2. r \in [1 .. (n - 1) -> R]
    BY <2>1 DEF Returns
  <2>3. r \in Seq(R)
    BY <2>1, <2>2, SeqDef
  <2> QED BY <2>1, <2>2, <2>3, LenProperties DEF Returns
<1> HIDE DEF r, t
<1>4. /\ u \in Seq(R) /\ Len(u) = n
      /\ \A i \in 1 .. (n - 1) : u[i] = r[i]
      /\ u[n] = <<s[n], mid>>
  <2>1. <<s[n], mid>> \in R
    BY <1>1
  <2>2. /\ u \in Seq(R) /\ Len(u) = Len(r) + 1
        /\ \A i \in 1 .. Len(r) : u[i] = r[i]
        /\ u[Len(r) + 1] = <<s[n], mid>>
    BY <1>3, <2>1, AppendProperties
  <2> QED BY <1>1, <1>3, <2>2
<1> HIDE DEF u, R
<1>5. \A i \in 1 .. n : u[i] = <<t[i], t[i + 1]>>
  <2> TAKE i \in 1 .. n
  <2>1. CASE i = n
    BY <1>1, <1>2, <1>4, <2>1
  <2>2. CASE i # n
    <3>1. i \in 1 .. (n - 1) /\ i \in 1 .. n /\ i + 1 \in 1 .. n
      BY <1>1, <2>2
    <3>2. t[i] = s[i] /\ t[i + 1] = s[i + 1]
      BY <1>2, <3>1
    <3>3. u[i] = <<s[i], s[i + 1]>>
      BY <1>3, <1>4, <3>1
    <3> QED BY <3>2, <3>3, Zenon
  <2> QED BY <2>1, <2>2
<1> HIDE DEF n
<1> DEFINE bu == Bounded(u, k)
           bt == Bounded(t, k + 1)
<1>6. CASE n > k
  <2>1. /\ bu \in Seq(R) /\ Len(bu) = n - 1 /\ \A i \in 1 .. (n - 1) : bu[i] = u[i + 1]
    BY <1>4, <1>6, BoundedElements
  <2>2. /\ bt \in Seq(Int) /\ Len(bt) = n /\ \A i \in 1 .. n : bt[i] = t[i + 1]
    <3>1. Len(t) > k + 1 /\ k + 1 \in Nat /\ Len(t) - 1 = n
      BY <1>1, <1>2, <1>6
    <3> QED BY <1>2, <3>1, BoundedElements
  <2> HIDE DEF bu, bt
  <2>3. \A i \in 1 .. (n - 1) : bu[i] = <<bt[i], bt[i + 1]>>
    <3> TAKE i \in 1 .. (n - 1)
    <3>1. i \in 1 .. n /\ i + 1 \in 1 .. n
      BY <1>1
    <3>2. bt[i] = t[i + 1] /\ bt[i + 1] = t[(i + 1) + 1]
      BY <2>2, <3>1
    <3>3. bu[i] = <<t[i + 1], t[(i + 1) + 1]>>
      BY <1>5, <2>1, <3>1
    <3> QED BY <3>2, <3>3, Zenon
  <2>4. bu = [i \in 1 .. (n - 1) |-> bu[i]]
    BY <2>1, SeqIsFunction
  <2>5. bu = Returns(bt)
    BY <2>2, <2>3, <2>4 DEF Returns
  <2> QED BY <2>5 DEF bu, bt, u, t, r, n
<1>7. CASE ~(n > k)
  <2>1. bu = u
    BY <1>4, <1>7, BoundedElements
  <2>2. bt = t
    <3>1. ~(Len(t) > k + 1) /\ k + 1 \in Nat
      BY <1>1, <1>2, <1>7
    <3> QED BY <1>2, <3>1, BoundedElements
  <2> HIDE DEF bu, bt
  <2>3. u = [i \in 1 .. n |-> u[i]]
    BY <1>4, SeqIsFunction
  <2>4. u = Returns(t)
    <3>1. Len(t) - 1 = n
      BY <1>1, <1>2
    <3> QED BY <1>5, <2>3, <3>1 DEF Returns
  <2>5. bu = Returns(bt)
    BY <2>1, <2>2, <2>4
  <2> QED BY <2>5 DEF bu, bt, u, t, r, n
<1> QED BY <1>1, <1>6, <1>7

(* w is the window of the mids t: next to the returns, last_mid is the     *)
(* latest mid, and there is none exactly if t is empty.                    *)
WindowOf(w, t) ==
    /\ t \in Seq(Int)
    /\ \A i \in 1 .. Len(t) : t[i] # None
    /\ w = [last_mid |-> IF t = <<>> THEN None ELSE t[Len(t)],
            returns  |-> Returns(t)]

(* The end of the history h from the last resync on.                       *)
SinceResync(h, t) ==
    /\ h \in Seq(Int \cup {None}) /\ t \in Seq(Int)
    /\ Len(h) <= VolatilityWindow + 1
    /\ Len(t) <= Len(h)
    /\ \A i \in 1 .. Len(t) : t[i] = h[Len(h) - Len(t) + i]
    /\ Len(t) < Len(h) => h[Len(h) - Len(t)] = None

(* The inductive invariant: the window is that of the mids since the last  *)
(* resync, as far back as the history goes.                                *)
WindowInv == \E t : WindowOf(window, t) /\ SinceResync(seen, t)

Slid(h, x) == Bounded(Append(h, x), VolatilityWindow + 1)

(* What a sample does to the window.                                       *)
LEMMA SampleWindow ==
    ASSUME NEW w, NEW t, WindowOf(w, t), NEW mid \in Int, mid # None
    PROVE  WindowOf(on_book_update(w, mid), Slid(t, mid))
<1> DEFINE v == on_book_update(w, mid)
           a == Append(t, mid)
           b == Slid(t, mid)
           last == IF t = <<>> THEN None ELSE t[Len(t)]
<1>0. /\ t \in Seq(Int) /\ Len(t) \in Nat
      /\ \A i \in 1 .. Len(t) : t[i] # None
      /\ w = [last_mid |-> last, returns |-> Returns(t)]
  BY LenProperties DEF WindowOf
<1>2. v = [last_mid |-> mid,
           returns  |-> IF w.last_mid = None THEN w.returns
                        ELSE Bounded(Append(w.returns, <<w.last_mid, mid>>),
                                     VolatilityWindow)]
  BY DEF on_book_update
<1>3. b = Bounded(a, VolatilityWindow + 1)
  BY DEF Slid
<1>4. /\ a \in Seq(Int) /\ Len(a) = Len(t) + 1
      /\ \A i \in 1 .. Len(t) : a[i] = t[i]
      /\ a[Len(t) + 1] = mid
  BY <1>0, AppendProperties
<1>5. VolatilityWindow \in Nat /\ VolatilityWindow + 1 \in Nat
  BY MetricsAssumption
<1> HIDE DEF a, b, v
<1>6. /\ b \in Seq(Int) /\ b # <<>> /\ Len(b) \in Nat
      /\ b[Len(b)] = mid
      /\ \A i \in 1 .. Len(b) : b[i] # None
  <2>1. \A i \in 1 .. Len(a) : a[i] # None
    <3> SUFFICES ASSUME NEW i \in 1 .. Len(a) PROVE a[i] # None
      OBVIOUS
    <3>1. i \in 1 .. Len(t) \/ i = Len(t) + 1
      BY <1>0, <1>4
    <3>2. CASE i \in 1 .. Len(t)
      <4>1. a[i] = t[i] /\ t[i] # None
        BY <1>0, <1>4, <3>2
      <4> QED BY <4>1
    <3>3. CASE i = Len(t) + 1
      BY <1>4, <3>3, Zenon
    <3> QED BY <3>1, <3>2, <3>3
  <2>2. CASE Len(a) > VolatilityWindow + 1
    <3>1. /\ b \in Seq(Int) /\ Len(b) = Len(a) - 1
          /\ \A i \in 1 .. (Len(a) - 1) : b[i] = a[i + 1]
      BY <1>3, <1>4, <1>5, <2>2, BoundedElements
    <3>2. Len(t) >= 1 /\ Len(b) = Len(t)
      BY <1>0, <1>4, <1>5, <2>2, <3>1
    <3>3. b[Len(t)] = mid
      BY <1>0, <1>4, <3>1, <3>2
    <3>4. \A i \in 1 .. Len(t) : b[i] # None
      <4> SUFFICES ASSUME NEW i \in 1 .. Len(t) PROVE b[i] # None
        OBVIOUS
      <4>1. i + 1 \in 1 .. Len(a) /\ i \in 1 .. (Len(a) - 1)
        BY <1>0, <1>4
      <4> QED BY <2>1, <3>1, <4>1
    <3>5. b # <<>>
      BY <3>1, <3>2, EmptySeq
    <3> QED BY <1>0, <3>1, <3>2, <3>3, <3>4, <3>5
  <2>3. CASE ~(Len(a) > VolatilityWindow + 1)
    <3>1. b = a
      BY <1>3, <1>4, <1>5, <2>3, BoundedElements
    <3>2. a # <<>>
      BY <1>0, <1>4, EmptySeq
    <3> QED BY <1>0, <1>4, <2>1, <3>1, <3>2
  <2> QED BY <2>2, <2>3
<1>7. v.returns = Returns(b)
  <2>1. CASE t = <<>>
    <3>1. w.last_mid = None /\ w.returns = Returns(t) /\ Len(t) = 0
      BY <1>0, <2>1
    <3>2. v.returns = Returns(t)
      BY <1>2, <3>1
    <3>3. Len(b) = 1
      <4>1. Len(a) = 1 /\ ~(Len(a) > VolatilityWindow + 1)
        BY <1>4, <1>5, <3>1
      <4>2. b = a
        BY <1>3, <1>4, <1>5, <4>1, BoundedElements
      <4> QED BY <4>1, <4>2
    <3>4. Returns(t) = <<>> /\ Returns(b) = <<>>
      BY <3>1, <3>3 DEF Returns
    <3> QED BY <3>2, <3>4
  <2>2. CASE t # <<>>
    <3>1. /\ w.last_mid = t[Len(t)] /\ w.last_mid # None
          /\ w.returns = Returns(t)
      BY <1>0, <2>2, EmptySeq
    <3>2. v.returns
             = Bounded(Append(Returns(t), <<t[Len(t)], mid>>), VolatilityWindow)
      BY <1>2, <3>1
    <3> QED BY <1>0, <1>3, <1>5, <2>2, <3>2, SlideReturns DEF a
  <2> QED BY <2>1, <2>2
<1>8. v = [last_mid |-> IF b = <<>> THEN None ELSE b[Len(b)], returns |-> Returns(b)]
  BY <1>2, <1>6, <1>7
<1> QED BY <1>6, <1>8 DEF WindowOf, v, b

(* The history after another entry: it grows up to the length of the       *)
(* window, then the oldest entry goes.                                     *)
LEMMA SlidElements ==
    ASSUME NEW S, NEW h \in Seq(S), NEW x \in S, Len(h) <= VolatilityWindow + 1
    PROVE  /\ Slid(h, x) \in Seq(S)
           /\ Len(h) = VolatilityWindow + 1 =>
                 /\ Len(Slid(h, x)) = Len(h)
                 /\ \A i \in 1 .. (Len(h) - 1) : Slid(h, x)[i] = h[i + 1]
                 /\ Slid(h, x)[Len(h)] = x
           /\ Len(h) < VolatilityWindow + 1 =>
                 /\ Len(Slid(h, x)) = Len(h) + 1
                 /\ \A i \in 1 .. Len(h) : Slid(h, x)[i] = h[i]
                 /\ Slid(h, x)[Len(h) + 1] = x
<1> DEFINE a == Append(h, x)
           b == Slid(h, x)
           k == VolatilityWindow + 1
<1>1. /\ a \in Seq(S) /\ Len(a) = Len(h) + 1 /\ Len(h) \in Nat
      /\ \A i \in 1 .. Len(h) : a[i] = h[i]
      /\ a[Len(h) + 1] = x
  BY AppendProperties, LenProperties
<1>2. k \in Nat /\ k >= 1 /\ b = Bounded(a, k) /\ Len(h) <= k
  BY MetricsAssumption DEF Slid
<1> HIDE DEF a, b, k
<1>3. /\ b \in Seq(S)
      /\ Len(a) > k => /\ Len(b) = Len(a) - 1
                       /\ \A i \in 1 .. (Len(a) - 1) : b[i] = a[i + 1]
      /\ ~(Len(a) > k) => b = a
  BY <1>1, <1>2, BoundedElements
<1>4. ASSUME Len(h) = k
      PROVE  /\ Len(b) = Len(h)
             /\ \A i \in 1 .. (Len(h) - 1) : b[i] = h[i + 1]
             /\ b[Len(h)] = x
  <2>1. Len(b) = Len(h) /\ \A i \in 1 .. Len(h) : b[i] = a[i + 1]
    BY <1>1, <1>2, <1>3, <1>4
  <2>2. Len(h) \in 1 .. Len(h)
    BY <1>1, <1>2, <1>4
  <2>3. ASSUME NEW i \in 1 .. (Len(h) - 1) PROVE b[i] = h[i + 1]
    <3>1. i \in 1 .. Len(h) /\ i + 1 \in 1 .. Len(h)
      BY <1>1
    <3> QED BY <1>1, <2>1, <3>1
  <2> QED BY <1>1, <2>1, <2>2, <2>3
<1>5. ASSUME Len(h) < k
      PROVE  /\ Len(b) = Len(h) + 1
             /\ \A i \in 1 .. Len(h) : b[i] = h[i]
             /\ b[Len(h) + 1] = x
  BY <1>1, <1>2, <1>3, <1>5
<1> QED BY <1>3, <1>4, <1>5 DEF b, k

(* A sample is appended to the mids since the resync as to the history.    *)
LEMMA SampleSinceResync ==
    ASSUME NEW h, NEW t, SinceResync(h, t), NEW mid \in Int
    PROVE  SinceResync(Slid(h, mid), Slid(t, mid))
<1> DEFINE k == VolatilityWindow + 1
           g == Slid(h, mid)
           u == Slid(t, mid)
           S == Int \cup {None}
<1>0. /\ h \in Seq(S) /\ t \in Seq(Int) /\ mid \in S
      /\ Len(h) \in Nat /\ Len(t) \in Nat /\ k \in Nat /\ k >= 1
      /\ Len(h) <= k /\ Len(t) <= Len(h) /\ Len(t) <= k
      /\ \A i \in 1 .. Len(t) : t[i] = h[Len(h) - Len(t) + i]
      /\ Len(t) < Len(h) => h[Len(h) - Len(t)] = None
  <2>1. Len(h) \in Nat /\ Len(t) \in Nat
    BY LenProperties DEF SinceResync
  <2> QED BY <2>1, MetricsAssumption DEF SinceResync
<1>1. /\ g \in Seq(S)
      /\ Len(h) = k => /\ Len(g) = Len(h)
                       /\ \A i \in 1 .. (Len(h) - 1) : g[i] = h[i + 1]
                       /\ g[Len(h)] = mid
      /\ Len(h) < k => /\ Len(g) = Len(h) + 1
                       /\ \A i \in 1 .. Len(h) : g[i] = h[i]
                       /\ g[Len(h) + 1] = mid
  BY <1>0, SlidElements
<1>2. /\ u \in Seq(Int)
      /\ Len(t) = k => /\ Len(u) = Len(t)
                       /\ \A i \in 1 .. (Len(t) - 1) : u[i] = t[i + 1]
                       /\ u[Len(t)] = mid
      /\ Len(t) < k => /\ Len(u) = Len(t) + 1
                       /\ \A i \in 1 .. Len(t) : u[i] = t[i]
                       /\ u[Len(t) + 1] = mid
  BY <1>0, SlidElements
<1> HIDE DEF g, u, S, k
<1>3. CASE Len(h) < k
  <2>1. Len(g) = Len(h) + 1 /\ Len(u) = Len(t) + 1
    BY <1>0, <1>1, <1>2, <1>3
  <2>2. ASSUME NEW i \in 1 .. Len(u) PROVE u[i] = g[Len(g) - Len(u) + i]
    <3>1. CASE i = Len(t) + 1
      BY <1>0, <1>1, <1>2, <1>3, <2>1, <3>1
    <3>2. CASE i \in 1 .. Len(t)
      <4>1. Len(h) - Len(t) + i \in 1 .. Len(h) /\ Len(g) - Len(u) + i = Len(h) - Len(t) + i
        BY <1>0, <2>1, <3>2
      <4>2. u[i] = t[i] /\ t[i] = h[Len(h) - Len(t) + i]
        BY <1>0, <1>2, <1>3, <3>2
      <4> QED BY <1>1, <1>3, <4>1, <4>2
    <3> QED BY <1>0, <2>1, <3>1, <3>2
  <2>3. ASSUME Len(u) < Len(g) PROVE g[Len(g) - Len(u)] = None
    <3>1. /\ Len(h) - Len(t) \in 1 .. Len(h) /\ Len(g) - Len(u) = Len(h) - Len(t)
          /\ Len(t) < Len(h)
      BY <1>0, <2>1, <2>3
    <3> QED BY <1>0, <1>1, <1>3, <3>1
  <2>4. Len(g) <= k /\ Len(u) <= Len(g)
    BY <1>0, <1>3, <2>1
  <2> QED BY <1>1, <1>2, <2>2, <2>3, <2>4 DEF SinceResync, g, u, S, k
<1>4. CASE Len(h) = k /\ Len(t) = k
  <2>1. Len(g) = k /\ Len(u) = k
    BY <1>0, <1>1, <1>2, <1>4
  <2>2. ASSUME NEW i \in 1 .. Len(u) PROVE u[i] = g[Len(g) - Len(u) + i]
    <3>1. CASE i = k
      BY <1>0, <1>1, <1>2, <1>4, <2>1, <3>1
    <3>2. CASE i # k
      <4>1. i \in 1 .. (k - 1) /\ i + 1 \in 1 .. k /\ Len(g) - Len(u) + i = i
        BY <1>0, <2>1, <3>2
      <4>2. u[i] = t[i + 1] /\ t[i + 1] = h[i + 1] /\ g[i] = h[i + 1]
        BY <1>0, <1>1, <1>2, <1>4, <4>1
      <4> QED BY <4>1, <4>2
    <3> QED BY <3>1, <3>2
  <2> QED BY <1>0, <1>1, <1>2, <2>1, <2>2 DEF SinceResync, g, u, S, k
<1>5. CASE Len(h) = k /\ Len(t) < k
  <2>1. Len(g) = Len(h) /\ Len(u) = Len(t) + 1
    BY <1>0, <1>1, <1>2, <1>5
  <2>2. ASSUME NEW i \in 1 .. Len(u) PROVE u[i] = g[Len(g) - Len(u) + i]
    <3>1. CASE i = Len(t) + 1
      BY <1>0, <1>1, <1>2, <1>5, <2>1, <3>1
    <3>2. CASE i \in 1 .. Len(t)
      <4>1. /\ Len(g) - Len(u) + i \in 1 .. (Len(h) - 1)
            /\ (Len(g) - Len(u) + i) + 1 = Len(h) - Len(t) + i
        BY <1>0, <1>5, <2>1, <3>2
      <4>2. u[i] = t[i] /\ t[i] = h[Len(h) - Len(t) + i]
        BY <1>0, <1>2, <1>5, <3>2
      <4>3. g[Len(g) - Len(u) + i] = h[(Len(g) - Len(u) + i) + 1]
        BY <1>1, <1>5, <4>1
      <4> QED BY <4>1, <4>2, <4>3
    <3> QED BY <1>0, <2>1, <3>1, <3>2
  <2>3. ASSUME Len(u) < Len(g) PROVE g[Len(g) - Len(u)] = None
    <3>1. /\ Len(g) - Len(u) \in 1 .. (Len(h) - 1)
          /\ (Len(g) - Len(u)) + 1 = Len(h) - Len(t) /\ Len(t) < Len(h)
      BY <1>0, <1>5, <2>1, <2>3
    <3>2. g[Len(g) - Len(u)] = h[(Len(g) - Len(u)) + 1]
      BY <1>1, <1>5, <3>1
    <3> QED BY <1>0, <3>1, <3>2
  <2>4. Len(g) <= k /\ Len(u) <= Len(g)
    BY <1>0, <1>5, <2>1
  <2> QED BY <1>1, <1>2, <2>2, <2>3, <2>4 DEF SinceResync, g, u, S, k
<1> QED BY <1>0, <1>3, <1>4, <1>5

(* After a resync there is no mid since it.                                *)
LEMMA NothingSinceResync ==
    ASSUME NEW h \in Seq(Int \cup {None}), Len(h) <= VolatilityWindow + 1
    PROVE  SinceResync(Slid(h, None), <<>>)
<1> DEFINE g == Slid(h, None)
<1>1. Len(h) \in Nat /\ VolatilityWindow + 1 \in Nat /\ VolatilityWindow + 1 >= 1
  BY LenProperties, MetricsAssumption
<1>2. /\ g \in Seq(Int \cup {None})
      /\ Len(h) = VolatilityWindow + 1 => Len(g) = Len(h) /\ g[Len(h)] = None
      /\ Len(h) < VolatilityWindow + 1 => Len(g) = Len(h) + 1 /\ g[Len(h) + 1] = None
  BY SlidElements
<1> HIDE DEF g
<1>3. Len(g) <= VolatilityWindow + 1 /\ Len(g) \in Nat /\ g[Len(g)] = None
  BY <1>1, <1>2
<1>4. <<>> \in Seq(Int) /\ Len(<<>>) = 0
  BY EmptySeq
<1> QED BY <1>2, <1>3, <1>4 DEF SinceResync, g

LEMMA InitWindowInv == MetricsInit => WindowInv
<1> SUFFICES ASSUME MetricsInit PROVE WindowInv
  OBVIOUS
<1>1. Returns(<<>>) = <<>>
  BY DEF Returns
<1>2. <<>> \in Seq(Int) /\ <<>> \in Seq(Int \cup {None}) /\ Len(<<>>) = 0
  BY EmptySeq
<1>3. WindowOf(window, <<>>)
  BY <1>1, <1>2 DEF MetricsInit, WindowOf
<1>4. SinceResync(seen, <<>>)
  BY <1>2, MetricsAssumption DEF MetricsInit, SinceResync
<1> QED BY <1>3, <1>4 DEF WindowInv

LEMMA NextWindowInv ==
    BookInv' /\ WindowInv /\ [MetricsNext]_<<vars, metricVars>> => WindowInv'
<1> SUFFICES ASSUME BookInv', WindowInv, [MetricsNext]_<<vars, metricVars>>
             PROVE  WindowInv'
  OBVIOUS
<1> DEFINE mid == mid_price(levels')
<1>0. PICK t : WindowOf(window, t) /\ SinceResync(seen, t)
  BY DEF WindowInv
<1>1. CASE ClearAndReset
  <2>1. Returns(<<>>) = <<>> /\ <<>> \in Seq(Int) /\ Len(<<>>) = 0
    BY EmptySeq DEF Returns
  <2>2. WindowOf(window', <<>>)
    BY <1>1, <2>1 DEF ClearAndReset, reset_price_history, WindowOf
  <2>3. seen' = Slid(seen, None)
    BY <1>1 DEF ClearAndReset, Remember, Slid
  <2>4. SinceResync(seen', <<>>)
    BY <1>0, <2>3, NothingSinceResync DEF SinceResync
  <2> QED BY <2>2, <2>4 DEF WindowInv
<1>2. CASE UNCHANGED <<vars, metricVars>>
  BY <1>2 DEF metricVars, WindowInv
<1>3. ASSUME NEW ev \in MarketEvent, ApplyAndSample(ev)
      PROVE  WindowInv'
  <2>1. CASE mid = None
    BY <1>0, <1>3, <2>1 DEF ApplyAndSample, on_book_update, WindowInv
  <2>2. CASE mid # None
    <3>1. mid \in Int
      <4>1. \A s \in Sides : SortedVector(s, levels'[s]) /\ levels'[s] # <<>>
        BY <2>2 DEF BookInv, mid_price
      <4>2. \A s \in Sides : Head(levels'[s]).price \in Int
        <5> TAKE s \in Sides
        <5>1. levels'[s] \in Seq(BookLevel) /\ levels'[s] # <<>>
          BY <4>1 DEF SortedVector
        <5>2. Head(levels'[s]) \in BookLevel
          BY <5>1, HeadTailProperties
        <5>3. Prices \subseteq Int
          BY FeedAssumption
        <5>4. Head(levels'[s]).price \in Prices
          BY <5>2, Zenon DEF BookLevel
        <5> QED BY <5>3, <5>4, Zenon
      <4>3. mid = Head(levels'["Buy"]).price + Head(levels'["Sell"]).price
        BY <2>2 DEF mid_price
      <4> HIDE DEF mid
      <4> QED BY <4>2, <4>3 DEF Sides
    <3>2. window' = on_book_update(window, mid)
      BY <1>3 DEF ApplyAndSample
    <3>3. seen' = Slid(seen, mid)
      BY <1>3, <2>2 DEF ApplyAndSample, Remember, Slid
    <3> HIDE DEF mid
    <3>4. WindowOf(window', Slid(t, mid))
      BY <1>0, <2>2, <3>1, <3>2, SampleWindow
    <3>5. SinceResync(seen', Slid(t, mid))
      BY <1>0, <3>1, <3>3, SampleSinceResync
    <3> QED BY <3>4, <3>5 DEF WindowInv
  <2> QED BY <2>1, <2>2
<1> QED BY <1>1, <1>2, <1>3 DEF MetricsNext

(* The mids since the last resync are those behind the last None of the    *)
(* history.                                                                *)
LEMMA WindowSinceResync == WindowInv => ReturnsSinceResync
<1> SUFFICES ASSUME WindowInv PROVE ReturnsSinceResync
  OBVIOUS
<1>0. PICK t : WindowOf(window, t) /\ SinceResync(seen, t)
  BY DEF WindowInv
<1> DEFINE S == {0} \cup {i \in DOMAIN seen : seen[i] = None}
           m == Len(seen) - Len(t)
<1>1. /\ t \in Seq(Int) /\ Len(t) \in Nat /\ Len(seen) \in Nat /\ Len(t) <= Len(seen)
      /\ DOMAIN seen = 1 .. Len(seen)
      /\ \A i \in 1 .. Len(t) : t[i] # None /\ t[i] = seen[m + i]
      /\ m > 0 => seen[m] = None
      /\ window.returns = Returns(t)
  <2>1. seen \in Seq(Int \cup {None}) /\ t \in Seq(Int)
    BY <1>0 DEF SinceResync
  <2>2. Len(seen) \in Nat /\ Len(t) \in Nat /\ DOMAIN seen = 1 .. Len(seen)
    BY <2>1, LenProperties
  <2> QED BY <1>0, <2>1, <2>2 DEF SinceResync, WindowOf
<1>2. m \in S
  BY <1>1
<1>3. \A y \in S : m >= y
  <2> SUFFICES ASSUME NEW y \in S, ~(m >= y) PROVE FALSE
    OBVIOUS
  <2>1. y \in 1 .. Len(seen) /\ seen[y] = None
    BY <1>1
  <2>2. y - m \in 1 .. Len(t) /\ m + (y - m) = y
    BY <1>1, <2>1
  <2> QED BY <1>1, <2>1, <2>2
<1>4. \A x \in S : x \in Int
  BY <1>1
<1>5. Max(S) = m
  <2>1. \A x \in S : (\A y \in S : x >= y) => x = m
    BY <1>2, <1>3, <1>4
  <2> QED BY <1>2, <1>3, <2>1 DEF Max
<1> HIDE DEF S
<1>6. Len(seen) - m = Len(t) /\ m \in Nat
  BY <1>1
<1> HIDE DEF m
<1>7. Returns(t) = [i \in 1 .. (Len(seen) - m - 1) |-> <<seen[m + i], seen[m + i + 1]>>]
  <2>1. Len(seen) - m - 1 = Len(t) - 1
    BY <1>6
  <2>2. ASSUME NEW i \in 1 .. (Len(t) - 1)
        PROVE  t[i] = seen[m + i] /\ t[i + 1] = seen[m + i + 1]
    <3>1. Len(t) \in Nat /\ m \in Nat /\ i \in Int
      BY <1>1, <1>6
    <3>2. i \in 1 .. Len(t) /\ i + 1 \in 1 .. Len(t) /\ m + (i + 1) = m + i + 1
      BY <3>1
    <3> QED BY <1>1, <3>2
  <2> QED BY <2>1, <2>2 DEF Returns
<1> QED BY <1>1, <1>5, <1>7 DEF ReturnsSinceResync, S

(* For every length of the window, the volatility estimate uses exactly    *)
(* the returns between consecutive two-sided books since the last resync,  *)
(* as many as the window holds, and none across a resync.                  *)
THEOREM MetricsReturnsSinceResync == MetricsSpec => []ReturnsSinceResync
<1> QED BY WindowSinceResync, MetricsBook, BookInvariance, InitWindowInv, NextWindowInv, PTL
        DEF MetricsSpec

-----------------------------------------------------------------------------
(* The statistics of the book *)

(* The levels that depth returns.                                          *)
LEMMA DepthFacts ==
    ASSUME BookInv, NEW s \in Sides, NEW n \in Nat \ {0}, NEW m,
           m = IF n <= Len(levels[s]) THEN n ELSE Len(levels[s])
    PROVE  /\ m \in Nat /\ m <= Len(levels[s]) /\ m <= n
           /\ depth(s, n) \in Seq(BookLevel)
           /\ Len(depth(s, n)) = m /\ DOMAIN depth(s, n) = 1 .. m
           /\ \A i \in 1 .. m : depth(s, n)[i] = levels[s][i]
           /\ levels[s] # <<>> => m >= 1
<1>1. levels[s] \in Seq(BookLevel) /\ Len(levels[s]) \in Nat
  BY DEF BookInv, SortedVector
<1>2. m \in Nat /\ m <= Len(levels[s]) /\ m <= n
  BY <1>1
<1>3. Min({n, Len(levels[s])}) = m
  BY <1>1, MinOfTwo
<1>4. depth(s, n) = SubSeq(levels[s], 1, m)
  BY <1>3 DEF depth
<1>5. levels[s] # <<>> => m >= 1
  BY <1>1
<1> QED BY <1>1, <1>2, <1>4, <1>5, SubSeqProperties

(* What the n best levels of a side hold.                                  *)
DepthVolume(s, n) ==
    SumFunction([i \in DOMAIN depth(s, n) |-> depth(s, n)[i].quantity])

(* A side with a level has some volume, and over one level it is that of   *)
(* the best.                                                               *)
LEMMA DepthVolumeFacts ==
    ASSUME BookInv, NEW s \in Sides, levels[s] # <<>>, NEW n \in Nat \ {0}
    PROVE  /\ DepthVolume(s, n) \in Nat \ {0}
           /\ n = 1 => DepthVolume(s, n) = Head(levels[s]).quantity
<1>0. PICK m : m = IF n <= Len(levels[s]) THEN n ELSE Len(levels[s])
  OBVIOUS
<1> DEFINE f == [i \in DOMAIN depth(s, n) |-> depth(s, n)[i].quantity]
<1>1. /\ m \in Nat /\ m >= 1 /\ m <= n /\ m <= Len(levels[s])
      /\ DOMAIN depth(s, n) = 1 .. m
      /\ \A i \in 1 .. m : depth(s, n)[i] = levels[s][i]
  BY <1>0, DepthFacts
<1>2. \A j \in 1 .. Len(levels[s]) :
         levels[s][j].quantity \in Nat /\ levels[s][j].quantity # 0
  BY SortedFacts DEF BookInv
<1>3. DOMAIN f = 1 .. m /\ \A i \in 1 .. m : f[i] = levels[s][i].quantity
  BY <1>1
<1>4. \A i \in 1 .. m : f[i] \in Nat /\ f[i] # 0
  BY <1>1, <1>2, <1>3
<1>5. DepthVolume(s, n) = SumFunctionOnSet(f, 1 .. m)
  BY <1>3 DEF DepthVolume, SumFunction
<1> HIDE DEF f
<1> DEFINE D == 1 .. m
<1>6. IsFiniteSet(D) /\ 1 \in D
  BY <1>1, IndicesFinite
<1>7. \A i \in D : f[i] \in Nat /\ f[i] \in Int
  BY <1>4
<1>8. n = 1 => D \ {1} = {}
  BY <1>1
<1>9. f[1] \in Nat /\ f[1] # 0 /\ f[1] = Head(levels[s]).quantity
  BY <1>1, <1>3, <1>4
<1> HIDE DEF D
<1>10. SumFunctionOnSet(f, D) = f[1] + SumFunctionOnSet(f, D \ {1})
  BY <1>6, <1>7, SumRemove
<1>11. SumFunctionOnSet(f, D \ {1}) \in Nat
  <2>1. IsFiniteSet(D \ {1})
    BY <1>6, FS_RemoveElement
  <2> QED BY <1>7, <2>1, SumNat
<1>12. n = 1 => SumFunctionOnSet(f, D \ {1}) = 0
  BY <1>8, SumEmpty
<1> QED BY <1>5, <1>9, <1>10, <1>11, <1>12 DEF D

(* The microprice of two prices p < q and quantities b, a lies between     *)
(* them, and leans towards q exactly if b is the larger quantity.          *)
LEMMA MicropriceLeans ==
    ASSUME NEW p \in Int, NEW q \in Int, p < q,
           NEW a \in Nat \ {0}, NEW b \in Nat \ {0},
           NEW num, num = p * a + q * b
    PROVE  /\ p * (b + a) < num /\ num < q * (b + a)
           /\ (2 * num - (p + q) * (b + a) > 0) <=> (b - a > 0)
           /\ (2 * num - (p + q) * (b + a) < 0) <=> (b - a < 0)
<1> DEFINE w == q - p
<1>1. w \in Nat /\ w # 0 /\ q = p + w
  OBVIOUS
<1> HIDE DEF w
<1>2. (p + w) * b = p * b + w * b /\ (p + w) * (b + a) = p * b + p * a + w * b + w * a
      /\ p * (b + a) = p * b + p * a
      /\ (p + (p + w)) * (b + a) = 2 * (p * b) + 2 * (p * a) + w * b + w * a
      /\ w * (b - a) = w * b - w * a
  BY <1>1
<1>3. /\ p * b \in Int /\ p * a \in Int /\ w * a \in Int /\ w * b \in Int
      /\ w * a > 0 /\ w * b > 0
  BY <1>1
<1>4. num = p * a + p * b + w * b
  BY <1>1, <1>2, <1>3
<1>5. 2 * num - (p + q) * (b + a) = w * (b - a)
  BY <1>1, <1>2, <1>3, <1>4
<1>6. p * (b + a) < num /\ num < q * (b + a)
  BY <1>1, <1>2, <1>3, <1>4
<1>7. (w * (b - a) > 0 <=> b - a > 0) /\ (w * (b - a) < 0 <=> b - a < 0)
  BY <1>1
<1> QED BY <1>5, <1>6, <1>7

(* In every state of the book, its statistics fit together.                *)
LEMMA BookStatistics == ASSUME BookInv PROVE StatisticsFit
<1> SUFFICES ASSUME mid_price(levels) # None PROVE StatisticsFit
  BY DEF StatisticsFit
<1> DEFINE p == bid.price
           q == ask.price
           b == bid.quantity
           a == ask.quantity
           Vb(n) == DepthVolume("Buy", n)
           Va(n) == DepthVolume("Sell", n)
<1>1. "Buy" \in Sides /\ "Sell" \in Sides /\ levels["Buy"] # <<>> /\ levels["Sell"] # <<>>
  BY DEF mid_price, Sides
<1>2. /\ p \in Int /\ p > 0 /\ q \in Int /\ q > 0
      /\ b \in Nat \ {0} /\ a \in Nat \ {0}
  <2>1. ASSUME NEW s \in Sides, levels[s] # <<>>
        PROVE  /\ Head(levels[s]).price \in Prices
               /\ Head(levels[s]).quantity \in Nat \ {0}
    <3>1. SortedVector(s, levels[s])
      BY DEF BookInv
    <3>2. Len(levels[s]) \in Nat /\ 1 \in 1 .. Len(levels[s]) /\ Head(levels[s]) = levels[s][1]
      BY <2>1, <3>1 DEF SortedVector
    <3> QED BY <3>1, <3>2, SortedFacts
  <2>2. \A x \in Prices : x \in Int /\ x > 0
    BY FeedAssumption
  <2>3. bid.price \in Prices /\ bid.quantity \in Nat \ {0}
    BY <1>1, <2>1 DEF bid
  <2>4. ask.price \in Prices /\ ask.quantity \in Nat \ {0}
    BY <1>1, <2>1 DEF ask
  <2> QED BY <2>2, <2>3, <2>4
<1>3. mid_price(levels) = p + q
  BY <1>1 DEF mid_price, Sides, bid, ask
<1>4. flat_crossed <=> p >= q
  BY <1>1 DEF flat_crossed, bid, ask
<1>5. \A x, y : y # 0 => IfDefined(<<x, y>>) = <<x, y>>
  BY DEF IfDefined
<1>6. \A n \in Nat \ {0} : Vb(n) \in Nat \ {0} /\ Va(n) \in Nat \ {0}
  BY <1>1, DepthVolumeFacts
<1>7. Vb(1) = b /\ Va(1) = a
  BY <1>1, DepthVolumeFacts DEF bid, ask
<1>8. \A n : depth_imbalance(n) = IfDefined(<<Vb(n) - Va(n), Vb(n) + Va(n)>>)
  BY DEF depth_imbalance, imbalance, DepthVolume
<1>9. /\ spread_bps = IfDefined(<<20000 * (q - p), q + p>>)
      /\ microprice = IfDefined(<<p * a + q * b, b + a>>)
      /\ top_of_book_imbalance = IfDefined(<<b - a, b + a>>)
  BY DEF spread_bps, microprice, top_of_book_imbalance, imbalance
<1> HIDE DEF p, q, a, b, Va, Vb
<1>10. /\ spread_bps = <<20000 * (q - p), q + p>>
       /\ microprice = <<p * a + q * b, b + a>>
       /\ top_of_book_imbalance = <<b - a, b + a>>
  <2>1. q + p # 0 /\ b + a # 0
    BY <1>2
  <2> QED BY <1>5, <1>9, <2>1
<1>11. \A n \in Nat \ {0} : depth_imbalance(n) = <<Vb(n) - Va(n), Vb(n) + Va(n)>>
  <2> TAKE n \in Nat \ {0}
  <2>1. Vb(n) + Va(n) # 0
    BY <1>6
  <2> QED BY <1>5, <1>8, <2>1
<1>12. (spread_bps[1] > 0) = ~flat_crossed
  <2>1. spread_bps[1] = 20000 * (q - p)
    BY <1>10
  <2>2. spread_bps[1] > 0 <=> ~flat_crossed
    BY <1>2, <1>4, <2>1
  <2> QED BY <2>2
<1>13. depth_imbalance(1) = top_of_book_imbalance
  BY <1>7, <1>10, <1>11
<1>14. ASSUME NEW n \in 1 .. LevelsNeeded
       PROVE  depth_imbalance(n)[1]
                 \in -depth_imbalance(n)[2] + 1 .. depth_imbalance(n)[2] - 1
  <2>1. n \in Nat \ {0}
    BY MarketOrderAssumption
  <2> DEFINE x == Vb(n)
             y == Va(n)
  <2>2. x \in Nat \ {0} /\ y \in Nat \ {0}
    BY <1>6, <2>1
  <2>3. depth_imbalance(n)[1] = x - y /\ depth_imbalance(n)[2] = x + y
    BY <1>11, <2>1
  <2> HIDE DEF x, y
  <2>4. x - y \in -(x + y) + 1 .. (x + y) - 1
    BY <2>2
  <2> QED BY <2>3, <2>4
<1>15. ASSUME ~flat_crossed
       PROVE  LET lean == 2 * microprice[1] - mid_price(levels) * microprice[2]
              IN  /\ bid.price * microprice[2] < microprice[1]
                  /\ microprice[1] < ask.price * microprice[2]
                  /\ (lean > 0) = (top_of_book_imbalance[1] > 0)
                  /\ (lean < 0) = (top_of_book_imbalance[1] < 0)
  <2>1. p < q
    BY <1>2, <1>4, <1>15
  <2> DEFINE num == p * a + q * b
             lean == 2 * num - (p + q) * (b + a)
  <2>2. /\ p * (b + a) < num /\ num < q * (b + a)
        /\ lean > 0 <=> b - a > 0
        /\ lean < 0 <=> b - a < 0
    BY <1>2, <2>1, MicropriceLeans
  <2>3. microprice[1] = num /\ microprice[2] = b + a /\ top_of_book_imbalance[1] = b - a
    BY <1>10
  <2> HIDE DEF num
  <2>4. /\ bid.price * microprice[2] < microprice[1]
        /\ microprice[1] < ask.price * microprice[2]
    BY <2>2, <2>3 DEF p, q
  <2>5. 2 * microprice[1] - mid_price(levels) * microprice[2] = lean
    BY <1>3, <2>3
  <2> HIDE DEF lean
  <2> QED BY <2>2, <2>3, <2>4, <2>5
<1> QED BY <1>12, <1>13, <1>14, <1>15 DEF StatisticsFit

(* For every book that events can make, the spread, the microprice and the *)
(* imbalances say the same of it: which side is heavier, and whether it is *)
(* crossed.                                                                *)
THEOREM MetricsStatisticsFit == MetricsSpec => []StatisticsFit
<1>1. BookInv => StatisticsFit
  BY BookStatistics
<1> QED BY <1>1, MetricsBook, BookInvariance, PTL
-----------------------------------------------------------------------------
(* Market orders *)

(* A market order on its way through the levels.                           *)
Order == [remaining : Nat, filled : Nat, notional : Int]

LEMMA TakeFields ==
    ASSUME NEW st \in Order, NEW l \in BookLevel, NEW t,
           t = IF st.remaining <= l.quantity THEN st.remaining ELSE l.quantity
    PROVE  /\ take(st, l) \in Order
           /\ take(st, l).remaining = st.remaining - t
           /\ take(st, l).filled = st.filled + t
           /\ take(st, l).notional = st.notional + t * l.price
<1>1. /\ st.remaining \in Nat /\ st.filled \in Nat /\ st.notional \in Int
      /\ l.quantity \in Nat /\ l.price \in Int
  <2>1. st.remaining \in Nat /\ st.filled \in Nat /\ st.notional \in Int
    BY DEF Order
  <2>2. l.quantity \in Nat /\ l.price \in Prices
    BY DEF BookLevel
  <2>3. Prices \subseteq Int
    BY FeedAssumption
  <2>4. l.price \in Int
    BY <2>2, <2>3, Zenon
  <2> QED BY <2>1, <2>2, <2>4
<1>2. t \in Nat /\ st.remaining - t \in Nat
  BY <1>1
<1>3. Min({st.remaining, l.quantity}) = t
  BY <1>1, MinOfTwo
<1>4. take(st, l) = [remaining |-> st.remaining - t, filled |-> st.filled + t,
                     notional  |-> st.notional + t * l.price]
  BY <1>3 DEF take
<1>5. t * l.price \in Int
  BY <1>1, <1>2
<1> HIDE DEF take
<1> QED BY <1>1, <1>2, <1>4, <1>5 DEF Order

(* The states of a sweep, level by level.                                  *)
IsSweep(r, base, q) ==
    /\ r[0] = base
    /\ \A i \in 1 .. Len(q) : r[i] = take(r[i - 1], q[i])

LEMMA SweepStates ==
    ASSUME NEW base \in Order, NEW q \in Seq(BookLevel)
    PROVE  \E r \in [0 .. Len(q) -> Order] :
              IsSweep(r, base, q) /\ FoldLeft(take, base, q) = r[Len(q)]
<1> DEFINE n == Len(q)
           D == SUBSET (1 .. n)
           IsFold(g) == g = [s \in D |-> IF s = {} THEN base
                                         ELSE take(g[s \ {Max(s)}], q[Max(s)])]
           F == CHOOSE g : IsFold(g)
           step == [x \in Order \X BookLevel |-> take(x[1], x[2])]
<1>1. n \in Nat /\ DOMAIN q = 1 .. n /\ q \in [1 .. n -> BookLevel]
  OBVIOUS
<1>2. FoldLeft(take, base, q) = F[1 .. n]
  BY <1>1 DEF FoldLeft, MapThenFoldSet
<1>3. \A v \in Order, w \in BookLevel : take(v, w) \in Order
  BY TakeFields
<1>4. /\ step \in [Order \X BookLevel -> Order]
      /\ \A v \in Order, w \in BookLevel : step[<<v, w>>] = take(v, w)
  BY <1>3
<1> HIDE DEF n, step
<1>5. PICK f \in [D -> Order] : FoldsTo(f, step, base, q, n)
  BY <1>1, <1>4, FoldExists
<1>6. ASSUME NEW s \in D
      PROVE  f[s] = IF s = {} THEN base ELSE take(f[s \ {Max(s)}], q[Max(s)])
  <2>1. CASE s = {}
    BY <1>5, <2>1 DEF FoldsTo
  <2>2. CASE s # {}
    <3>1. Max(s) \in 1 .. n
      BY <1>1, <2>2, LastIndex
    <3>2. s \ {Max(s)} \in D
      OBVIOUS
    <3>3. f[s \ {Max(s)}] \in Order /\ q[Max(s)] \in BookLevel
      BY <1>1, <3>1, <3>2
    <3>4. f[s] = step[<<f[s \ {Max(s)}], q[Max(s)]>>]
      BY <1>5, <2>2, Zenon DEF FoldsTo
    <3> QED BY <1>4, <2>2, <3>3, <3>4
  <2> QED BY <2>1, <2>2
<1>7. IsFold(f)
  <2> DEFINE g == [s \in D |-> IF s = {} THEN base
                               ELSE take(f[s \ {Max(s)}], q[Max(s)])]
  <2>1. \A s \in D : f[s] = g[s]
    BY <1>6
  <2>2. f = g
    BY <2>1, Zenon
  <2> QED BY <2>2
<1> HIDE DEF IsFold
<1>8. IsFold(F)
  BY <1>7
<1> HIDE DEF F
<1>9. \A s \in D : F[s] = IF s = {} THEN base ELSE take(F[s \ {Max(s)}], q[Max(s)])
  BY <1>8, Zenon DEF IsFold
<1> DEFINE r == [i \in 0 .. n |-> F[1 .. i]]
<1>10. r[0] = base
  <2>1. 0 \in 0 .. n /\ 1 .. 0 = {}
    BY <1>1
  <2>2. {} \in D
    OBVIOUS
  <2>3. F[{}] = base
    BY <1>9, <2>2
  <2> QED BY <2>1, <2>3
<1>11. ASSUME NEW i \in 1 .. n PROVE r[i] = take(r[i - 1], q[i])
  <2> DEFINE s == 1 .. i
  <2>0. \A j \in s : j \in 1 .. n
    BY <1>1
  <2>1. i \in Nat /\ s \in SUBSET (1 .. i) /\ i \in s /\ s \in D /\ s # {}
    <3>1. i \in Nat /\ i \in s
      BY <1>1
    <3>2. s \in D
      BY <2>0
    <3> QED BY <3>1, <3>2
  <2>2. Max(s) = i
    BY <2>1, LastIndex
  <2>3. s \ {i} = 1 .. (i - 1) /\ i - 1 \in 0 .. n /\ i \in 0 .. n
    BY <1>1
  <2>4. F[s] = take(F[s \ {i}], q[i])
    BY <1>9, <2>1, <2>2, Zenon
  <2> QED BY <2>3, <2>4
<1>12. r \in [0 .. n -> Order]
  <2> DEFINE Bad == {m \in 0 .. n : r[m] \notin Order}
  <2> HIDE DEF r
  <2>1. ASSUME Bad # {} PROVE FALSE
    <3>1. PICK m \in Bad : \A k \in Bad : m <= k
      <4>1. Bad \in SUBSET Nat
        OBVIOUS
      <4> QED BY <2>1, <4>1, MinOfNaturals
    <3>2. m # 0
      BY <1>10, <3>1
    <3>3. m \in 1 .. n /\ m - 1 \in 0 .. n /\ m - 1 < m
      BY <1>1, <3>1, <3>2
    <3>4. r[m - 1] \in Order
      BY <3>1, <3>3
    <3>5. q[m] \in BookLevel
      BY <1>1, <3>3
    <3>6. r[m] \in Order
      BY <1>3, <1>11, <3>3, <3>4, <3>5
    <3> QED BY <3>1, <3>6
  <2>2. \A m \in 0 .. n : r[m] \in Order
    BY <2>1
  <2> QED BY <2>2 DEF r
<1>13. r[n] = F[1 .. n]
  BY <1>1
<1> HIDE DEF r
<1> QED BY <1>2, <1>10, <1>11, <1>12, <1>13 DEF IsSweep, n

(* limit divides the levels of a side: g takes all of the better ones and  *)
(* nothing of the worse ones.                                              *)
UpToLimit(side, v, g, limit) ==
    \A p \in Prices : /\ before(side, p, limit) => g[p] = Quantity(v, p)
                      /\ before(side, limit, p) => g[p] = 0

(* g is what an order for qty has taken from each price after i levels of  *)
(* v: all of them, or up to a limit if nothing remains.                    *)
Greedy(side, v, qty, i, st, g) ==
    /\ g \in [Prices -> Nat]
    /\ st.filled = SumFunctionOnSet(g, Prices)
    /\ st.notional = SumFunctionOnSet([p \in Prices |-> p * g[p]], Prices)
    /\ st.remaining + st.filled = qty
    /\ \A p \in Prices : g[p] # 0 => \E j \in 1 .. i : v[j].price = p
    /\ st.remaining # 0 => \A j \in 1 .. i : g[v[j].price] = v[j].quantity
    /\ st.remaining = 0 => \E limit \in Prices : UpToLimit(side, v, g, limit)

LEMMA PricesFinite == IsFiniteSet(Prices) /\ \A p \in Prices : p \in Int /\ p > 0
<1>1. IsFiniteSet(1 .. MaxPrice)
  BY FeedAssumption, IndicesFinite
<1>2. IsFiniteSet(Prices)
  BY <1>1, FeedAssumption, FS_Subset
<1> QED BY <1>2, FeedAssumption

(* Nothing is taken before the first level.                                *)
LEMMA GreedyStart ==
    ASSUME NEW side \in Sides, NEW v, NEW qty \in Nat \ {0}
    PROVE  Greedy(side, v, qty, 0, [remaining |-> qty, filled |-> 0, notional |-> 0],
                  [p \in Prices |-> 0])
<1> DEFINE g == [p \in Prices |-> 0]
           w == [p \in Prices |-> p * g[p]]
<1>1. g \in [Prices -> Nat] /\ \A p \in Prices : g[p] \in Int /\ g[p] = 0
  OBVIOUS
<1>2. \A p \in Prices : p * g[p] = 0
  BY <1>1, PricesFinite
<1>3. \A p \in Prices : g[p] \in Int /\ w[p] = g[p] + 0 * g[p]
  BY <1>1, <1>2
<1> HIDE DEF g
<1>4. SumFunctionOnSet(g, Prices) = 0
  <2>1. \A p \in Prices : g[p] = g[p] + (-1) * g[p]
    BY <1>1
  <2>2. SumFunctionOnSet(g, Prices)
           = SumFunctionOnSet(g, Prices) + (-1) * SumFunctionOnSet(g, Prices)
    BY <1>1, <2>1, PricesFinite, SumLinear
  <2>3. SumFunctionOnSet(g, Prices) \in Int
    BY <1>1, PricesFinite, SumInt
  <2> QED BY <2>2, <2>3
<1>5. SumFunctionOnSet(w, Prices) = 0
  <2>1. \A p \in Prices : g[p] \in Int /\ w[p] = g[p]
    BY <1>1, <1>2
  <2> HIDE DEF w
  <2>2. SumFunctionOnSet(w, Prices) = SumFunctionOnSet(g, Prices)
    BY <2>1, PricesFinite, SumSame
  <2> QED BY <1>4, <2>2
<1> QED BY <1>1, <1>4, <1>5 DEF Greedy, g

(* One level more.                                                         *)
LEMMA GreedyStep ==
    ASSUME NEW side \in Sides, NEW v, SortedVector(side, v), NEW qty \in Nat,
           NEW i \in Nat, i + 1 <= Len(v), NEW st \in Order, NEW g,
           Greedy(side, v, qty, i, st, g)
    PROVE  \E h : Greedy(side, v, qty, i + 1, take(st, v[i + 1]), h)
<1> DEFINE k == i + 1
           x == v[k].price
           q == v[k].quantity
           rem == st.remaining
           t == IF rem <= q THEN rem ELSE q
           next == take(st, v[k])
<1>1. /\ Len(v) \in Nat /\ k \in 1 .. Len(v) /\ \A j \in 1 .. i : j \in 1 .. Len(v)
      /\ v[k] \in BookLevel /\ x \in Prices /\ q \in Nat /\ q # 0
      /\ \A j \in 1 .. Len(v) : v[j].price \in Prices
      /\ \A j, l \in 1 .. Len(v) : j < l => before(side, v[j].price, v[l].price)
      /\ \A j, l \in 1 .. Len(v) : v[j].price = v[l].price => j = l
  <2>1. Len(v) \in Nat /\ k \in 1 .. Len(v) /\ \A j \in 1 .. i : j \in 1 .. Len(v)
    BY SortedFacts
  <2> QED BY <2>1, SortedFacts
<1>2. /\ rem \in Nat /\ st.filled \in Nat /\ st.notional \in Int /\ x \in Int
  <2>1. rem \in Nat /\ st.filled \in Nat /\ st.notional \in Int
    BY DEF Order
  <2> QED BY <1>1, <2>1, PricesFinite
<1>3. /\ next.remaining = rem - t /\ next.filled = st.filled + t
      /\ next.notional = st.notional + t * x
  BY <1>1, TakeFields
<1>4. t \in Nat /\ rem - t \in Nat
  BY <1>1, <1>2
<1>5. \A j \in 1 .. k : j \in 1 .. i \/ j = k
  OBVIOUS
<1>6. /\ g \in [Prices -> Nat]
      /\ st.filled = SumFunctionOnSet(g, Prices)
      /\ st.notional = SumFunctionOnSet([p \in Prices |-> p * g[p]], Prices)
      /\ rem + st.filled = qty
      /\ \A p \in Prices : g[p] # 0 => \E j \in 1 .. i : v[j].price = p
      /\ rem # 0 => \A j \in 1 .. i : g[v[j].price] = v[j].quantity
      /\ rem = 0 => \E limit \in Prices : UpToLimit(side, v, g, limit)
  BY DEF Greedy
<1>7. CASE rem = 0
  <2>1. t = 0 /\ t * x = 0
    BY <1>1, <1>2, <1>7
  <2> HIDE DEF next, t, x, q, k
  <2>2. /\ next.remaining = 0 /\ next.filled = st.filled /\ next.notional = st.notional
    BY <1>2, <1>3, <1>7, <2>1
  <2>3. \A p \in Prices : g[p] # 0 => \E j \in 1 .. k : v[j].price = p
    BY <1>6 DEF k
  <2>4. Greedy(side, v, qty, k, next, g)
    BY <1>6, <1>7, <2>2, <2>3 DEF Greedy
  <2> QED BY <2>4 DEF next, k
<1>8. CASE rem # 0
  <2> DEFINE h == [g EXCEPT ![x] = t]
             w == [p \in Prices |-> p * g[p]]
             u == [p \in Prices |-> p * h[p]]
  <2>1. h \in [Prices -> Nat] /\ h[x] = t /\ \A p \in Prices : p # x => h[p] = g[p]
    BY <1>1, <1>4, <1>6
  <2>2. g[x] = 0
    <3>1. \A j \in 1 .. i : v[j].price # x
      <4> SUFFICES ASSUME NEW j \in 1 .. i, v[j].price = x PROVE FALSE
        OBVIOUS
      <4>1. j = k
        BY <1>1
      <4> QED BY <4>1
    <3> QED BY <1>1, <1>6, <3>1
  <2> HIDE DEF h
  <2>3. SumFunctionOnSet(h, Prices) = st.filled + t
    <3>1. \A p \in Prices : g[p] \in Int /\ h[p] \in Int
      BY <1>6, <2>1
    <3>2. SumFunctionOnSet(h, Prices) = SumFunctionOnSet(g, Prices) - g[x] + h[x]
      <4>1. x \in Prices
        BY <1>1
      <4>2. \A p \in Prices : p # x => h[p] = g[p]
        BY <2>1
      <4> HIDE DEF x
      <4>3. IsFiniteSet(Prices)
        BY PricesFinite
      <4> DEFINE old == g
      <4>4. /\ \A p \in Prices : old[p] \in Int /\ h[p] \in Int
            /\ \A p \in Prices : p # x => h[p] = old[p]
        BY <3>1, <4>2
      <4> HIDE DEF old
      <4>5. SumFunctionOnSet(h, Prices) = SumFunctionOnSet(old, Prices) - old[x] + h[x]
        BY <4>1, <4>3, <4>4, SumChange
      <4> QED BY <4>5 DEF old
    <3>3. SumFunctionOnSet(h, Prices) = st.filled - 0 + t
      BY <1>6, <2>1, <2>2, <3>2
    <3> HIDE DEF t
    <3> QED BY <1>2, <1>4, <3>3
  <2>4. SumFunctionOnSet(u, Prices) = st.notional + t * x
    <3>1. \A p \in Prices : w[p] = p * g[p] /\ u[p] = p * h[p]
      OBVIOUS
    <3>2. \A p \in Prices : p \in Int /\ g[p] \in Int /\ h[p] \in Int
      BY <1>6, <2>1, PricesFinite
    <3>3. \A p \in Prices : w[p] \in Int /\ u[p] \in Int
      BY <3>1, <3>2
    <3>4. \A p \in Prices : p # x => u[p] = w[p]
      BY <2>1, <3>1
    <3>5. w[x] = x * 0 /\ u[x] = x * t
      BY <1>1, <2>1, <2>2, <3>1
    <3>6. st.notional = SumFunctionOnSet(w, Prices)
      BY <1>6
    <3> HIDE DEF w, u
    <3>7. SumFunctionOnSet(u, Prices) = SumFunctionOnSet(w, Prices) - w[x] + u[x]
      <4>1. x \in Prices
        BY <1>1
      <4> HIDE DEF x
      <4> QED BY <3>3, <3>4, <4>1, PricesFinite, SumChange
    <3> HIDE DEF x, t
    <3>8. x * 0 = 0 /\ x * t = t * x /\ t * x \in Int
      BY <1>2, <1>4
    <3> QED BY <1>2, <3>5, <3>6, <3>7, <3>8
  <2>5. \A p \in Prices : h[p] # 0 => \E j \in 1 .. k : v[j].price = p
    <3> SUFFICES ASSUME NEW p \in Prices, h[p] # 0 PROVE \E j \in 1 .. k : v[j].price = p
      OBVIOUS
    <3>1. CASE p = x
      <4>1. k \in 1 .. k
        OBVIOUS
      <4> QED BY <3>1, <4>1
    <3>2. CASE p # x
      <4>1. PICK j \in 1 .. i : v[j].price = p
        BY <1>6, <2>1, <3>2
      <4>2. j \in 1 .. k
        OBVIOUS
      <4> QED BY <4>1, <4>2
    <3> QED BY <3>1, <3>2
  <2>6. (rem - t # 0) => \A j \in 1 .. k : h[v[j].price] = v[j].quantity
    <3> SUFFICES ASSUME rem - t # 0, NEW j \in 1 .. k PROVE h[v[j].price] = v[j].quantity
      OBVIOUS
    <3>1. CASE j = k
      <4>1. t = q
        BY <1>1, <1>2
      <4> QED BY <2>1, <3>1, <4>1
    <3>2. CASE j \in 1 .. i
      <4>1. v[j].price # x /\ v[j].price \in Prices
        <5>1. j # k
          BY <3>2
        <5> QED BY <1>1, <3>2, <5>1
      <4> QED BY <1>6, <1>8, <2>1, <3>2, <4>1
    <3> QED BY <1>5, <3>1, <3>2
  <2>7. UpToLimit(side, v, h, x)
    <3> SUFFICES ASSUME NEW p \in Prices
                 PROVE  /\ before(side, p, x) => h[p] = Quantity(v, p)
                        /\ before(side, x, p) => h[p] = 0
      BY DEF UpToLimit
    <3>1. ASSUME before(side, p, x) PROVE h[p] = Quantity(v, p)
      <4>1. p # x /\ h[p] = g[p]
        BY <1>1, <2>1, <3>1, BeforeOrder
      <4>2. CASE \E j \in 1 .. Len(v) : v[j].price = p
        <5>1. PICK j \in 1 .. Len(v) : v[j].price = p
          BY <4>2
        <5>2. ~(k < j) /\ j # k
          <6>1. ~before(side, x, p)
            <7>1. x \in Prices
              BY <1>1
            <7> HIDE DEF x
            <7>2. ~before(side, p, p)
              BY BeforeOrder
            <7>3. before(side, p, x) /\ before(side, x, p) => before(side, p, p)
              BY <7>1, BeforeOrder
            <7> QED BY <3>1, <7>2, <7>3
          <6>2. k < j => before(side, x, p)
            BY <1>1, <5>1
          <6> QED BY <4>1, <5>1, <6>1, <6>2
        <5>3. j \in 1 .. i
          BY <1>1, <5>2
        <5>4. g[p] = v[j].quantity
          BY <1>6, <1>8, <5>1, <5>3
        <5> QED BY <4>1, <5>1, <5>4, QuantityFacts
      <4>3. CASE ~\E j \in 1 .. Len(v) : v[j].price = p
        <5>1. Quantity(v, p) = 0
          BY <4>3, QuantityFacts
        <5>2. g[p] = 0
          BY <1>1, <1>6, <4>3
        <5> QED BY <4>1, <5>1, <5>2
      <4> QED BY <4>2, <4>3
    <3>2. ASSUME before(side, x, p) PROVE h[p] = 0
      <4>1. p # x /\ h[p] = g[p]
        BY <1>1, <2>1, <3>2, BeforeOrder
      <4>2. ASSUME NEW j \in 1 .. i, v[j].price = p PROVE FALSE
        <5>1. j < k /\ j \in 1 .. Len(v)
          BY <1>1
        <5>2. before(side, p, x)
          BY <1>1, <4>2, <5>1
        <5>3. ~before(side, p, p)
          BY BeforeOrder
        <5>4. before(side, p, x) /\ before(side, x, p) => before(side, p, p)
          <6>1. x \in Prices
            BY <1>1
          <6> HIDE DEF x
          <6> QED BY <6>1, BeforeOrder
        <5> QED BY <3>2, <5>2, <5>3, <5>4
      <4> QED BY <1>6, <4>1, <4>2
    <3> QED BY <3>1, <3>2
  <2> HIDE DEF next, t, x, q, k
  <2>8. rem - t + (st.filled + t) = qty
    BY <1>2, <1>4, <1>6
  <2>9. Greedy(side, v, qty, k, next, h)
    BY <1>1, <1>3, <2>1, <2>3, <2>4, <2>5, <2>6, <2>7, <2>8 DEF Greedy
  <2> QED BY <2>9 DEF next, k
<1> QED BY <1>7, <1>8

(* The volume an order has met in the first i levels: it has taken it all, *)
(* or it wanted no more.                                                   *)
Served(st, qty, volume) ==
    /\ st.remaining # 0 => st.filled = volume
    /\ st.remaining = 0 => qty <= volume

LEMMA ServedStep ==
    ASSUME NEW qty \in Nat, NEW volume \in Int, NEW st \in Order, NEW l \in BookLevel,
           st.remaining + st.filled = qty, Served(st, qty, volume)
    PROVE  Served(take(st, l), qty, volume + l.quantity)
<1> DEFINE t == IF st.remaining <= l.quantity THEN st.remaining ELSE l.quantity
<1>1. /\ take(st, l).remaining = st.remaining - t
      /\ take(st, l).filled = st.filled + t
  BY TakeFields
<1>2. st.remaining \in Nat /\ st.filled \in Nat
  BY DEF Order
<1>3. l.quantity \in Nat
  BY DEF BookLevel
<1> QED BY <1>1, <1>2, <1>3 DEF Served

(* st is the sweep through q, the first m levels of v, with quantities f.  *)
SweepOf(st, qty, q, f, m, v) ==
    /\ q \in Seq(BookLevel) /\ m \in Nat /\ m = Len(q) /\ m <= Len(v)
    /\ \A i \in 1 .. m : q[i] = v[i]
    /\ \A i \in 1 .. m : f[i] = v[i].quantity
    /\ st = FoldLeft(take, [remaining |-> qty, filled |-> 0, notional |-> 0], q)

GreedySweep(st, qty, f, m, side, v) ==
    /\ st \in Order
    /\ \E g : Greedy(side, v, qty, m, st, g)
    /\ Served(st, qty, SumFunctionOnSet(f, 1 .. m))

(* A sweep is greedy.                                                      *)
LEMMA SweepIsGreedy ==
    ASSUME NEW side \in Sides, NEW v, SortedVector(side, v), NEW qty \in Nat \ {0},
           NEW q, NEW m, NEW f, NEW st, SweepOf(st, qty, q, f, m, v)
    PROVE  GreedySweep(st, qty, f, m, side, v)
<1> DEFINE base == [remaining |-> qty, filled |-> 0, notional |-> 0]
<1>0. /\ q \in Seq(BookLevel) /\ m \in Nat /\ m = Len(q) /\ m <= Len(v)
      /\ \A i \in 1 .. m : q[i] = v[i]
      /\ \A i \in 1 .. m : f[i] = v[i].quantity
      /\ st = FoldLeft(take, base, q)
  BY DEF SweepOf
<1> USE <1>0
<1>1. base \in Order
  BY DEF Order
<1>2. PICK r \in [0 .. m -> Order] : IsSweep(r, base, q) /\ st = r[m]
  BY <1>1, SweepStates
<1> DEFINE Good(i) == /\ \E g : Greedy(side, v, qty, i, r[i], g)
                      /\ Served(r[i], qty, SumFunctionOnSet(f, 1 .. i))
           Bad == {i \in 0 .. m : ~Good(i)}
<1>3. Good(0)
  <2>1. r[0] = base
    BY <1>2 DEF IsSweep
  <2>2. Greedy(side, v, qty, 0, base, [p \in Prices |-> 0])
    BY GreedyStart
  <2>3. 1 .. 0 = {}
    OBVIOUS
  <2>4. SumFunctionOnSet(f, 1 .. 0) = 0
    BY <2>3, SumEmpty
  <2>5. Served(base, qty, 0)
    BY DEF Served
  <2> QED BY <2>1, <2>2, <2>4, <2>5
<1>4. ASSUME NEW i \in 0 .. m, i # m, Good(i) PROVE Good(i + 1)
  <2>1. i \in Nat /\ i + 1 \in 1 .. m /\ i + 1 <= Len(v) /\ (i + 1) - 1 = i
    BY <1>4
  <2>2. r[i] \in Order /\ r[i + 1] = take(r[i], v[i + 1])
    <3>1. r[i] \in Order
      OBVIOUS
    <3>2. r[i + 1] = take(r[(i + 1) - 1], q[i + 1]) /\ q[i + 1] = v[i + 1]
      BY <1>2, <2>1 DEF IsSweep
    <3> QED BY <2>1, <3>1, <3>2
  <2>3. PICK g : Greedy(side, v, qty, i, r[i], g)
    BY <1>4
  <2>4. \E h : Greedy(side, v, qty, i + 1, r[i + 1], h)
    BY <2>1, <2>2, <2>3, GreedyStep
  <2>5. r[i].remaining + r[i].filled = qty
    BY <2>3 DEF Greedy
  <2> DEFINE D == 1 .. i
  <2>6. /\ IsFiniteSet(D) /\ i + 1 \notin D /\ D \cup {i + 1} = 1 .. (i + 1)
    BY <2>1, IndicesFinite
  <2>7. \A j \in D \cup {i + 1} : f[j] \in Int
    <3>1. \A j \in 1 .. Len(v) : v[j].quantity \in Nat
      BY SortedFacts
    <3>2. Len(v) \in Nat
      BY SortedFacts
    <3>3. \A j \in 1 .. (i + 1) : j \in 1 .. m /\ j \in 1 .. Len(v)
      BY <2>1, <3>2
    <3> SUFFICES ASSUME NEW j \in 1 .. (i + 1) PROVE f[j] \in Int
      BY <2>6
    <3>4. f[j] = v[j].quantity /\ v[j].quantity \in Nat
      BY <3>1, <3>3
    <3> QED BY <3>4
  <2>8. f[i + 1] = v[i + 1].quantity /\ v[i + 1] \in BookLevel
    <3>1. i + 1 \in 1 .. Len(v)
      BY <2>1, SortedFacts
    <3> QED BY <2>1, <3>1, SortedFacts
  <2> HIDE DEF D
  <2>9. SumFunctionOnSet(f, 1 .. (i + 1)) = f[i + 1] + SumFunctionOnSet(f, D)
    <3>1. SumFunctionOnSet(f, D \cup {i + 1}) = f[i + 1] + SumFunctionOnSet(f, D)
      BY <2>6, <2>7, SumAdd
    <3> QED BY <2>6, <3>1
  <2>10. SumFunctionOnSet(f, D) \in Int
    <3>1. \A j \in D : f[j] \in Int
      BY <2>7
    <3> QED BY <2>6, <3>1, SumInt
  <2>11. Served(r[i], qty, SumFunctionOnSet(f, D))
    BY <1>4 DEF D
  <2>12. Served(r[i + 1], qty, SumFunctionOnSet(f, D) + v[i + 1].quantity)
    BY <2>2, <2>5, <2>8, <2>10, <2>11, ServedStep
  <2>13. SumFunctionOnSet(f, D) + v[i + 1].quantity = SumFunctionOnSet(f, 1 .. (i + 1))
    <3>1. f[i + 1] \in Int
      BY <2>7
    <3> QED BY <2>8, <2>9, <2>10, <3>1
  <2> QED BY <2>4, <2>12, <2>13
<1> HIDE DEF Good
<1>5. ASSUME Bad # {} PROVE FALSE
  <2>1. PICK i \in Bad : \A k \in Bad : i <= k
    <3>1. Bad \in SUBSET Nat
      OBVIOUS
    <3> QED BY <1>5, <3>1, MinOfNaturals
  <2>2. i \in 0 .. m /\ ~Good(i) /\ i # 0
    BY <1>3, <2>1
  <2> DEFINE j == i - 1
  <2>3. j \in 0 .. m /\ j # m /\ j + 1 = i /\ j < i
    BY <2>2
  <2>4. Good(j)
    BY <2>1, <2>3
  <2> HIDE DEF j
  <2>5. Good(j + 1)
    BY <1>4, <2>3, <2>4
  <2> QED BY <2>2, <2>3, <2>5
<1>6. Good(m)
  BY <1>5
<1>7. st \in Order
  BY <1>2
<1> QED BY <1>2, <1>6, <1>7 DEF Good, GreedySweep

(* In the end there is a limit in any case.                                *)
LEMMA GreedyLimit ==
    ASSUME NEW side \in Sides, NEW v, SortedVector(side, v), NEW qty, NEW st, NEW g,
           NEW m \in Nat, m <= Len(v), m = 0 => v = <<>>,
           Greedy(side, v, qty, m, st, g)
    PROVE  \E limit \in Int : UpToLimit(side, v, g, limit)
<1>1. CASE st.remaining = 0
  BY <1>1, PricesFinite DEF Greedy
<1>2. CASE st.remaining # 0
  <2>1. /\ Len(v) \in Nat
        /\ \A j \in 1 .. Len(v) : v[j].price \in Prices
        /\ \A j, k \in 1 .. Len(v) : j < k => before(side, v[j].price, v[k].price)
    BY SortedFacts
  <2>2. /\ \A p \in Prices : g[p] # 0 => \E j \in 1 .. m : v[j].price = p
        /\ \A j \in 1 .. m : g[v[j].price] = v[j].quantity
    BY <1>2 DEF Greedy
  <2>3. \A j \in 1 .. m : j \in 1 .. Len(v)
    BY <2>1
  <2>4. CASE m = 0
    <3>1. \A p \in Prices : Quantity(v, p) = 0 /\ g[p] = 0
      <4>1. \A k \in 1 .. Len(v) : FALSE
        BY <2>4
      <4>2. \A p \in Prices : Quantity(v, p) = 0
        BY <4>1, QuantityFacts
      <4>3. \A j \in 1 .. m : FALSE
        BY <2>4
      <4> QED BY <2>2, <4>2, <4>3
    <3>2. UpToLimit(side, v, g, 0)
      BY <3>1 DEF UpToLimit
    <3> QED BY <3>2
  <2>5. CASE m # 0
    <3> DEFINE x == v[m].price
    <3>1. m \in 1 .. Len(v) /\ x \in Prices
      BY <2>1, <2>5
    <3> HIDE DEF x
    <3>2. ASSUME NEW p \in Prices, before(side, p, x) PROVE g[p] = Quantity(v, p)
      <4>1. CASE \E j \in 1 .. Len(v) : v[j].price = p
        <5>1. PICK j \in 1 .. Len(v) : v[j].price = p
          BY <4>1
        <5>2. ~before(side, x, p)
          <6>1. ~before(side, p, p)
            BY BeforeOrder
          <6>2. before(side, p, x) /\ before(side, x, p) => before(side, p, p)
            BY <3>1, BeforeOrder
          <6> QED BY <3>2, <6>1, <6>2
        <5>3. ~(m < j)
          BY <2>1, <3>1, <5>1, <5>2 DEF x
        <5>4. j \in 1 .. m
          BY <2>1, <3>1, <5>3
        <5> QED BY <2>2, <5>1, <5>4, QuantityFacts
      <4>2. CASE ~\E j \in 1 .. Len(v) : v[j].price = p
        <5>1. Quantity(v, p) = 0
          BY <4>2, QuantityFacts
        <5>2. g[p] = 0
          BY <2>2, <2>3, <4>2
        <5> QED BY <5>1, <5>2
      <4> QED BY <4>1, <4>2
    <3>3. ASSUME NEW p \in Prices, before(side, x, p) PROVE g[p] = 0
      <4> SUFFICES ASSUME NEW j \in 1 .. m, v[j].price = p PROVE FALSE
        BY <2>2
      <4>1. ~before(side, p, p)
        BY BeforeOrder
      <4>2. j = m \/ before(side, p, x)
        BY <2>1, <2>3, <3>1 DEF x
      <4>3. j = m => x = p
        BY DEF x
      <4>4. before(side, p, x) /\ before(side, x, p) => before(side, p, p)
        BY <3>1, BeforeOrder
      <4> QED BY <3>3, <4>1, <4>2, <4>3, <4>4
    <3>4. UpToLimit(side, v, g, x)
      BY <3>2, <3>3 DEF UpToLimit
    <3>5. x \in Int
      BY <3>1, PricesFinite
    <3> QED BY <3>4, <3>5
  <2> QED BY <2>4, <2>5
<1> QED BY <1>1, <1>2

(* Whoever takes as much without a limit pays no less, on the side of the  *)
(* asks, and receives no more on the side of the bids.                     *)
LEMMA NoBetterTaking ==
    ASSUME NEW side \in Sides, NEW v, SortedVector(side, v), NEW limit \in Int,
           NEW g \in [Prices -> Nat], UpToLimit(side, v, g, limit),
           NEW a, \A p \in Prices : a[p] \in Nat /\ a[p] <= Quantity(v, p),
           SumFunctionOnSet(a, Prices) = SumFunctionOnSet(g, Prices),
           NEW wa, \A p \in Prices : wa[p] = p * a[p],
           NEW wg, \A p \in Prices : wg[p] = p * g[p]
    PROVE  /\ side = "Sell" => SumFunctionOnSet(wg, Prices) <= SumFunctionOnSet(wa, Prices)
           /\ side = "Buy"  => SumFunctionOnSet(wg, Prices) >= SumFunctionOnSet(wa, Prices)
<1> DEFINE da == [p \in Prices |-> wa[p] + (-limit) * a[p]]
           dg == [p \in Prices |-> wg[p] + (-limit) * g[p]]
<1>1. \A p \in Prices : p \in Int /\ a[p] \in Int /\ g[p] \in Int
  BY PricesFinite
<1>2. \A p \in Prices : wa[p] \in Int /\ wg[p] \in Int
  BY <1>1
<1>3. /\ \A p \in Prices : da[p] = wa[p] + (-limit) * a[p]
      /\ \A p \in Prices : dg[p] = wg[p] + (-limit) * g[p]
  OBVIOUS
<1>4. \A p \in Prices : /\ da[p] = (p - limit) * a[p] /\ dg[p] = (p - limit) * g[p]
                        /\ da[p] \in Int /\ dg[p] \in Int
  <2> TAKE p \in Prices
  <2>1. \A y \in Int : p * y + (-limit) * y = (p - limit) * y /\ (p - limit) * y \in Int
    BY <1>1
  <2>2. da[p] = p * a[p] + (-limit) * a[p] /\ dg[p] = p * g[p] + (-limit) * g[p]
    BY <1>3
  <2> HIDE DEF da, dg
  <2>3. a[p] \in Int /\ g[p] \in Int
    BY <1>1
  <2>4. da[p] = (p - limit) * a[p] /\ da[p] \in Int
    BY <2>1, <2>2, <2>3
  <2>5. dg[p] = (p - limit) * g[p] /\ dg[p] \in Int
    BY <2>1, <2>2, <2>3
  <2> QED BY <2>4, <2>5
<1> HIDE DEF da, dg
<1>5. -limit \in Int
  OBVIOUS
<1>6. SumFunctionOnSet(da, Prices)
         = SumFunctionOnSet(wa, Prices) + (-limit) * SumFunctionOnSet(a, Prices)
  BY <1>1, <1>2, <1>3, <1>5, PricesFinite, SumLinear
<1>7. SumFunctionOnSet(dg, Prices)
         = SumFunctionOnSet(wg, Prices) + (-limit) * SumFunctionOnSet(g, Prices)
  <2> DEFINE old == g
  <2>1. \A p \in Prices : wg[p] \in Int /\ old[p] \in Int /\ dg[p] = wg[p] + (-limit) * old[p]
    BY <1>1, <1>2, <1>3
  <2> HIDE DEF old
  <2>2. SumFunctionOnSet(dg, Prices)
           = SumFunctionOnSet(wg, Prices) + (-limit) * SumFunctionOnSet(old, Prices)
    BY <1>5, <2>1, PricesFinite, SumLinear
  <2> QED BY <2>2 DEF old
<1>8. /\ SumFunctionOnSet(a, Prices) \in Int
      /\ SumFunctionOnSet(wa, Prices) \in Int /\ SumFunctionOnSet(wg, Prices) \in Int
  <2>1. /\ \A p \in Prices : a[p] \in Int
        /\ \A p \in Prices : wa[p] \in Int
        /\ \A p \in Prices : wg[p] \in Int
    BY <1>1, <1>2
  <2> QED BY <2>1, PricesFinite, SumInt
<1>9. \A p \in Prices : /\ before(side, p, limit) => a[p] <= g[p]
                        /\ before(side, limit, p) => g[p] <= a[p]
  BY DEF UpToLimit
<1> DEFINE A == SumFunctionOnSet(wa, Prices)
           G == SumFunctionOnSet(wg, Prices)
           K == (-limit) * SumFunctionOnSet(a, Prices)
<1>10. /\ K \in Int /\ A \in Int /\ G \in Int
       /\ SumFunctionOnSet(da, Prices) = A + K /\ SumFunctionOnSet(dg, Prices) = G + K
  <2>1. K \in Int
    BY <1>8
  <2> QED BY <1>6, <1>7, <1>8, <2>1
<1> HIDE DEF A, G, K
<1>11. CASE side = "Sell"
  <2>1. ASSUME NEW p \in Prices PROVE dg[p] <= da[p]
    <3>1. CASE p <= limit
      <4> DEFINE d == limit - p
      <4>1. (d \in Nat /\ a[p] <= g[p]) \/ p = limit
        BY <1>1, <1>9, <1>11, <3>1 DEF before
      <4>2. CASE p = limit
        BY <1>1, <1>4, <4>2
      <4>3. CASE d \in Nat /\ a[p] <= g[p]
        <5>1. p - limit = -d /\ d \in Nat
          BY <1>1, <4>3
        <5>2. d * a[p] <= d * g[p]
          BY <1>1, <4>3, ProductOrder
        <5>3. da[p] = -(d * a[p]) /\ dg[p] = -(d * g[p])
          BY <1>1, <1>4, <5>1
        <5> HIDE DEF d
        <5>4. d * a[p] \in Int /\ d * g[p] \in Int
          BY <1>1, <5>1
        <5> QED BY <5>2, <5>3, <5>4
      <4> QED BY <4>1, <4>2, <4>3
    <3>2. CASE ~(p <= limit)
      <4> DEFINE d == p - limit
      <4>1. d \in Nat /\ g[p] <= a[p]
        BY <1>1, <1>9, <1>11, <3>2 DEF before
      <4>2. d * g[p] <= d * a[p]
        BY <1>1, <4>1, ProductOrder
      <4> QED BY <1>4, <4>2
    <3> QED BY <3>1, <3>2
  <2>2. \A p \in Prices : dg[p] \in Int /\ da[p] \in Int /\ dg[p] <= da[p]
    BY <1>4, <2>1
  <2>3. SumFunctionOnSet(dg, Prices) <= SumFunctionOnSet(da, Prices)
    BY <2>2, PricesFinite, SumMonotone
  <2>4. G <= A
    BY <1>10, <2>3
  <2> QED BY <1>11, <2>4 DEF A, G
<1>12. CASE side = "Buy"
  <2>1. ASSUME NEW p \in Prices PROVE da[p] <= dg[p]
    <3>1. CASE p >= limit
      <4> DEFINE d == p - limit
      <4>1. (d \in Nat /\ a[p] <= g[p]) \/ p = limit
        BY <1>1, <1>9, <1>12, <3>1 DEF before
      <4>2. CASE p = limit
        BY <1>1, <1>4, <4>2
      <4>3. CASE d \in Nat /\ a[p] <= g[p]
        <5>1. d * a[p] <= d * g[p]
          BY <1>1, <4>3, ProductOrder
        <5> QED BY <1>4, <5>1
      <4> QED BY <4>1, <4>2, <4>3
    <3>2. CASE ~(p >= limit)
      <4> DEFINE d == limit - p
      <4>1. d \in Nat /\ g[p] <= a[p]
        BY <1>1, <1>9, <1>12, <3>2 DEF before
      <4>2. p - limit = -d
        BY <1>1
      <4>3. d * g[p] <= d * a[p]
        BY <1>1, <4>1, ProductOrder
      <4>4. da[p] = -(d * a[p]) /\ dg[p] = -(d * g[p])
        BY <1>1, <1>4, <4>1, <4>2
      <4> HIDE DEF d
      <4>5. d * a[p] \in Int /\ d * g[p] \in Int
        BY <1>1, <4>1
      <4> QED BY <4>3, <4>4, <4>5
    <3> QED BY <3>1, <3>2
  <2>2. \A p \in Prices : da[p] \in Int /\ dg[p] \in Int /\ da[p] <= dg[p]
    BY <1>4, <2>1
  <2>3. SumFunctionOnSet(da, Prices) <= SumFunctionOnSet(dg, Prices)
    BY <2>2, PricesFinite, SumMonotone
  <2>4. A <= G
    BY <1>10, <2>3
  <2> QED BY <1>12, <2>4 DEF A, G
<1> QED BY <1>11, <1>12 DEF Sides

(* The average lies between the prices it is taken from.                   *)
LEMMA AverageWithin ==
    ASSUME NEW g \in [Prices -> Nat], NEW lo \in Int, NEW hi \in Int,
           \A p \in Prices : g[p] # 0 => lo <= p /\ p <= hi,
           NEW w, \A p \in Prices : w[p] = p * g[p]
    PROVE  /\ lo * SumFunctionOnSet(g, Prices) <= SumFunctionOnSet(w, Prices)
           /\ SumFunctionOnSet(w, Prices) <= hi * SumFunctionOnSet(g, Prices)
<1> DEFINE old == g
           L == [p \in Prices |-> lo * old[p]]
           H == [p \in Prices |-> hi * old[p]]
<1>1. \A p \in Prices : p \in Int /\ old[p] \in Nat /\ w[p] = p * old[p]
  BY PricesFinite
<1>2. \A p \in Prices : old[p] # 0 => lo <= p /\ p <= hi
  OBVIOUS
<1> HIDE DEF old
<1>3. \A p \in Prices : old[p] \in Int /\ L[p] = lo * old[p] /\ H[p] = hi * old[p]
  BY <1>1
<1> HIDE DEF L, H
<1>4. ASSUME NEW p \in Prices
      PROVE  /\ L[p] \in Int /\ w[p] \in Int /\ H[p] \in Int
             /\ L[p] <= w[p] /\ w[p] <= H[p]
  <2>1. L[p] \in Int /\ w[p] \in Int /\ H[p] \in Int
    BY <1>1, <1>3
  <2>2. CASE old[p] = 0
    BY <1>1, <1>3, <2>2
  <2>3. CASE old[p] # 0
    <3>1. lo <= p /\ p <= hi /\ p \in Int /\ old[p] \in Nat
      BY <1>1, <1>2, <2>3
    <3>2. old[p] * lo <= old[p] * p /\ old[p] * p <= old[p] * hi
      BY <3>1, ProductOrder
    <3>3. L[p] = old[p] * lo /\ w[p] = old[p] * p /\ H[p] = old[p] * hi
      BY <1>1, <1>3
    <3> QED BY <2>1, <3>2, <3>3
  <2> QED BY <2>1, <2>2, <2>3
<1>5. /\ SumFunctionOnSet(L, Prices) = lo * SumFunctionOnSet(old, Prices)
      /\ SumFunctionOnSet(H, Prices) = hi * SumFunctionOnSet(old, Prices)
  <2>1. \A p \in Prices : old[p] \in Int /\ L[p] = lo * old[p]
    BY <1>3
  <2>2. \A p \in Prices : old[p] \in Int /\ H[p] = hi * old[p]
    BY <1>3
  <2> QED BY <2>1, <2>2, PricesFinite, SumScale
<1>6. /\ SumFunctionOnSet(L, Prices) <= SumFunctionOnSet(w, Prices)
      /\ SumFunctionOnSet(w, Prices) <= SumFunctionOnSet(H, Prices)
  <2>1. \A p \in Prices : L[p] \in Int /\ w[p] \in Int /\ L[p] <= w[p]
    BY <1>4
  <2>2. \A p \in Prices : w[p] \in Int /\ H[p] \in Int /\ w[p] <= H[p]
    BY <1>4
  <2> QED BY <2>1, <2>2, PricesFinite, SumMonotone
<1> QED BY <1>5, <1>6 DEF old

(* Rounding does not leave an interval of ticks.                           *)
LEMMA RoundedWithin ==
    ASSUME NEW num \in Int, NEW den \in Nat \ {0}, NEW lo \in Int, NEW hi \in Int,
           lo * den <= num, num <= hi * den, NEW px \in from_double(num, den)
    PROVE  px \in Int /\ lo <= px /\ px <= hi
<1>1. /\ px \in Int
      /\ 2 * (num - px * den) <= den /\ 2 * (px * den - num) <= den
  BY DEF from_double
<1>2. ASSUME px < lo PROVE FALSE
  <2>1. den * (px + 1) <= den * lo
    BY <1>1, <1>2, ProductOrder
  <2>2. den * (px + 1) = px * den + den /\ den * lo = lo * den /\ px * den \in Int
        /\ lo * den \in Int
    BY <1>1
  <2> DEFINE a == px * den
             b == lo * den
  <2>3. a \in Int /\ b \in Int /\ a + den <= b /\ b <= num /\ 2 * (num - a) <= den
    BY <1>1, <2>1, <2>2
  <2> HIDE DEF a, b
  <2> QED BY <2>3
<1>3. ASSUME hi < px PROVE FALSE
  <2>1. den * (hi + 1) <= den * px
    BY <1>1, <1>3, ProductOrder
  <2>2. den * (hi + 1) = hi * den + den /\ den * px = px * den /\ px * den \in Int
        /\ hi * den \in Int
    BY <1>1
  <2> DEFINE a == px * den
             b == hi * den
  <2>3. a \in Int /\ b \in Int /\ b + den <= a /\ num <= b /\ 2 * (a - num) <= den
    BY <1>1, <2>1, <2>2
  <2> HIDE DEF a, b
  <2> QED BY <2>3
<1> QED BY <1>1, <1>2, <1>3

(* The best execution, in every sorted book.                               *)
LEMMA MarketOrders == ASSUME BookInv PROVE BestExecution
<1> SUFFICES ASSUME NEW side \in Sides, NEW qty \in MarketQuantities
             PROVE  LET away   == Opposite(side)
                        seen_  == depth(away, LevelsNeeded)
                        s      == sweep(side, qty)
                        report == submit_market(side, qty)
                    IN
                    /\ report.fill_quantity =
                          Min({qty, SumFunction([i \in DOMAIN seen_ |-> seen_[i].quantity])})
                    /\ report.status = "Rejected" <=> levels[away] = <<>>
                    /\ \A a \in Takings(away) : Taken(a) = report.fill_quantity =>
                          IF side = "Buy" THEN s.notional <= Cost(a) ELSE s.notional >= Cost(a)
                    /\ \A px \in report.fill_prices :
                          /\ ~before(away, px, Head(seen_).price)
                          /\ ~before(away, Last(seen_).price, px)
  BY Zenon DEF BestExecution
<1> DEFINE away == Opposite(side)
           v == levels[away]
           q == depth(away, LevelsNeeded)
           st == sweep(side, qty)
           f == [i \in DOMAIN q |-> q[i].quantity]
           report == submit_market(side, qty)
<1>1. /\ away \in Sides /\ qty \in Nat \ {0} /\ LevelsNeeded \in Nat \ {0}
      /\ side = "Buy" => away = "Sell"
      /\ side # "Buy" => away = "Buy"
  BY MarketOrderAssumption DEF Opposite, Sides
<1> HIDE DEF away
<1>2. SortedVector(away, v)
  BY <1>1 DEF BookInv
<1>3. PICK m : m = IF LevelsNeeded <= Len(v) THEN LevelsNeeded ELSE Len(v)
  OBVIOUS
<1>4. /\ m \in Nat /\ m <= Len(v) /\ q \in Seq(BookLevel)
      /\ Len(q) = m /\ DOMAIN q = 1 .. m
      /\ \A i \in 1 .. m : q[i] = v[i]
      /\ v # <<>> => m >= 1
  BY <1>1, <1>3, DepthFacts
<1>5. DOMAIN f = 1 .. m /\ \A i \in 1 .. m : f[i] = v[i].quantity
  BY <1>4
<1>6. st = FoldLeft(take, [remaining |-> qty, filled |-> 0, notional |-> 0], q)
  BY DEF sweep, away
<1>7. /\ report.status = IF st.filled = qty THEN "Filled"
                         ELSE IF st.filled > 0 THEN "PartiallyFilled" ELSE "Rejected"
      /\ report.fill_quantity = st.filled
      /\ report.fill_prices = IF st.filled > 0 THEN from_double(st.notional, st.filled) ELSE {}
  BY DEF submit_market
<1>8. SumFunction(f) = SumFunctionOnSet(f, 1 .. m)
  BY <1>5 DEF SumFunction
<1> HIDE DEF st, f, q, report, v
<1>9. /\ st \in Order
      /\ \E g : Greedy(away, v, qty, m, st, g)
      /\ Served(st, qty, SumFunctionOnSet(f, 1 .. m))
  <2>1. SweepOf(st, qty, q, f, m, v)
    BY <1>4, <1>5, <1>6 DEF SweepOf
  <2>2. qty \in Nat \ {0} /\ away \in Sides
    BY <1>1
  <2>3. GreedySweep(st, qty, f, m, away, v)
    BY <1>2, <2>1, <2>2, SweepIsGreedy
  <2> QED BY <2>3 DEF GreedySweep
<1>10. PICK g : Greedy(away, v, qty, m, st, g)
  BY <1>9
<1> DEFINE w == [p \in Prices |-> p * g[p]]
<1>11. /\ g \in [Prices -> Nat]
       /\ st.filled = SumFunctionOnSet(g, Prices)
       /\ st.notional = SumFunctionOnSet(w, Prices)
       /\ st.remaining + st.filled = qty
       /\ \A p \in Prices : g[p] # 0 => \E j \in 1 .. m : v[j].price = p
  BY <1>10 DEF Greedy
<1>12. \A p \in Prices : w[p] = p * g[p]
  OBVIOUS
<1> HIDE DEF w
<1>13. st.remaining \in Nat /\ st.filled \in Nat /\ st.notional \in Int
  BY <1>9 DEF Order
<1>14. /\ Len(v) \in Nat /\ \A j \in 1 .. Len(v) : v[j].price \in Prices
       /\ \A j \in 1 .. Len(v) : v[j].quantity \in Nat /\ v[j].quantity # 0
       /\ \A j, k \in 1 .. Len(v) : j < k => before(away, v[j].price, v[k].price)
  BY <1>2, SortedFacts
<1>15. \A j \in 1 .. m : j \in 1 .. Len(v)
  BY <1>4, <1>14
<1> DEFINE D == 1 .. m
           total == SumFunctionOnSet(f, D)
<1>16. total \in Nat /\ (m >= 1 => total # 0) /\ (m = 0 => total = 0)
  <2>1. IsFiniteSet(D) /\ (m = 0 => D = {}) /\ (m >= 1 => 1 \in D)
    BY <1>4, IndicesFinite
  <2>2. \A i \in D : f[i] \in Nat /\ f[i] \in Int
    BY <1>5, <1>14, <1>15
  <2>3. m >= 1 => f[1] # 0 /\ f[1] \in Nat
    BY <1>5, <1>14, <1>15, <2>1
  <2> HIDE DEF D
  <2>4. total \in Nat
    BY <2>1, <2>2, SumNat
  <2>5. m = 0 => total = 0
    BY <2>1, SumEmpty
  <2>6. ASSUME m >= 1 PROVE total # 0
    <3>1. total = f[1] + SumFunctionOnSet(f, D \ {1})
      BY <2>1, <2>2, <2>6, SumRemove
    <3>2. SumFunctionOnSet(f, D \ {1}) \in Nat
      <4>1. IsFiniteSet(D \ {1})
        BY <2>1, <2>6, FS_RemoveElement
      <4> QED BY <2>2, <4>1, SumNat
    <3> QED BY <2>3, <2>6, <3>1, <3>2
  <2> QED BY <2>4, <2>5, <2>6
<1>17. /\ st.remaining # 0 => st.filled = total
       /\ st.remaining = 0 => qty <= total
       /\ SumFunction(f) = total
  BY <1>8, <1>9 DEF Served
<1> HIDE DEF total
<1>18. st.filled = Min({qty, total})
  <2>1. Min({qty, total}) = IF qty <= total THEN qty ELSE total
    BY <1>1, <1>16, MinOfTwo
  <2> QED BY <1>1, <1>11, <1>13, <1>16, <1>17, <2>1
<1>19. report.status = "Rejected" <=> v = <<>>
  <2>1. v = <<>> <=> m = 0
    BY <1>4, <1>14, EmptySeq
  <2>2. st.filled = 0 <=> total = 0
    BY <1>1, <1>11, <1>13, <1>16, <1>17
  <2>3. st.filled = 0 <=> v = <<>>
    BY <1>4, <1>16, <2>1, <2>2
  <2>4. report.status = "Rejected" <=> st.filled = 0
    BY <1>1, <1>7, <1>13
  <2> QED BY <2>3, <2>4
<1>20. ASSUME NEW a \in Takings(away), Taken(a) = report.fill_quantity
       PROVE  IF side = "Buy" THEN st.notional <= Cost(a) ELSE st.notional >= Cost(a)
  <2> DEFINE wa == [p \in Prices |-> p * a[p]]
  <2>1. PICK limit \in Int : UpToLimit(away, v, g, limit)
    <3>1. m = 0 => v = <<>>
      BY <1>4
    <3> QED BY <1>1, <1>2, <1>4, <1>10, <3>1, GreedyLimit
  <2>2. DOMAIN a = Prices /\ \A p \in Prices : a[p] \in Nat /\ a[p] <= Quantity(v, p)
    <3>1. /\ DOMAIN a = Prices /\ \A p \in Prices : a[p] \in Nat
          /\ \A p \in Prices : a[p] <= AsBook.level[away][p]
      <4> DEFINE R == 0 .. Max({0} \cup {AsBook.level[away][p] : p \in Prices})
      <4>1. \A n \in R : n \in Nat
        OBVIOUS
      <4>2. a \in [Prices -> R] /\ \A p \in Prices : a[p] <= AsBook.level[away][p]
        BY Zenon DEF Takings
      <4> HIDE DEF R
      <4> QED BY <4>1, <4>2
    <3>2. \A p \in Prices : AsBook.level[away][p] = Quantity(v, p)
      BY <1>1, AsBookFields DEF v
    <3> QED BY <3>1, <3>2
  <2>3. Taken(a) = SumFunctionOnSet(a, Prices)
    BY <2>2 DEF Taken, SumFunction
  <2>4. Cost(a) = SumFunctionOnSet(wa, Prices)
    BY DEF Cost, SumFunction
  <2>5. \A p \in Prices : wa[p] = p * a[p]
    OBVIOUS
  <2> HIDE DEF wa
  <2>6. SumFunctionOnSet(a, Prices) = SumFunctionOnSet(g, Prices)
    BY <1>7, <1>11, <1>20, <2>3
  <2>7. /\ away = "Sell" => SumFunctionOnSet(w, Prices) <= SumFunctionOnSet(wa, Prices)
        /\ away = "Buy"  => SumFunctionOnSet(w, Prices) >= SumFunctionOnSet(wa, Prices)
    BY <1>1, <1>2, <1>11, <1>12, <2>1, <2>2, <2>5, <2>6, NoBetterTaking
  <2> QED BY <1>1, <1>11, <2>4, <2>7
<1>21. ASSUME NEW px \in report.fill_prices
       PROVE  /\ ~before(away, px, Head(q).price)
              /\ ~before(away, Last(q).price, px)
  <2>1. st.filled > 0 /\ px \in from_double(st.notional, st.filled)
    BY <1>7, <1>13, <1>21
  <2>2. m >= 1
    BY <1>4, <1>13, <1>16, <1>17, <1>1, <1>11, <2>1
  <2> DEFINE x == v[1].price
             y == v[m].price
  <2>3. 1 \in 1 .. Len(v) /\ m \in 1 .. Len(v) /\ x \in Prices /\ y \in Prices
    BY <1>4, <1>14, <2>2
  <2>4. Head(q).price = x /\ Last(q).price = y
    BY <1>4, <2>2 DEF Last
  <2>5. x \in Int /\ y \in Int
    BY <2>3, PricesFinite
  <2>6. \A j \in 1 .. m : /\ j = 1 \/ before(away, x, v[j].price)
                          /\ j = m \/ before(away, v[j].price, y)
    BY <1>14, <1>15, <2>3
  <2> HIDE DEF x, y
  <2>7. CASE away = "Sell"
    <3>1. ASSUME NEW p \in Prices, g[p] # 0 PROVE x <= p /\ p <= y
      <4>1. PICK j \in 1 .. m : v[j].price = p
        BY <1>11, <3>1
      <4>2. (j = 1 => p = x) /\ (j = m => p = y)
        BY <4>1 DEF x, y
      <4>3. p \in Int
        BY PricesFinite
      <4> QED BY <2>5, <2>6, <2>7, <4>1, <4>2, <4>3 DEF before
    <3>2. x * st.filled <= st.notional /\ st.notional <= y * st.filled
      BY <1>11, <1>12, <2>5, <3>1, AverageWithin
    <3>3. px \in Int /\ x <= px /\ px <= y
      BY <1>13, <2>1, <2>5, <3>2, RoundedWithin
    <3> QED BY <2>4, <2>5, <2>7, <3>3 DEF before
  <2>8. CASE away = "Buy"
    <3>1. ASSUME NEW p \in Prices, g[p] # 0 PROVE y <= p /\ p <= x
      <4>1. PICK j \in 1 .. m : v[j].price = p
        BY <1>11, <3>1
      <4>2. (j = 1 => p = x) /\ (j = m => p = y)
        BY <4>1 DEF x, y
      <4>3. p \in Int
        BY PricesFinite
      <4> QED BY <2>5, <2>6, <2>8, <4>1, <4>2, <4>3 DEF before
    <3>2. y * st.filled <= st.notional /\ st.notional <= x * st.filled
      BY <1>11, <1>12, <2>5, <3>1, AverageWithin
    <3>3. px \in Int /\ y <= px /\ px <= x
      BY <1>13, <2>1, <2>5, <3>2, RoundedWithin
    <3> QED BY <2>4, <2>5, <2>8, <3>3 DEF before
  <2> QED BY <1>1, <2>7, <2>8 DEF Sides
<1>22. report.fill_quantity = Min({qty, SumFunction(f)})
  BY <1>7, <1>17, <1>18
<1> QED BY <1>19, <1>20, <1>21, <1>22, Zenon DEF away, v, q, st, f, report

(* A market order gets the best execution the book allows, whatever the    *)
(* prices, the quantities and the number of levels it looks at.            *)
THEOREM MarketOrdersBestExecution == MetricsSpec => []BestExecution
BY MetricsBook, BookInvariance, MarketOrders, PTL
=============================================================================
