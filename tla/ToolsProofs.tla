----------------------------- MODULE ToolsProofs -----------------------------
(***************************************************************************)
(* Proofs about the parts that only tools and benchmarks drive: the        *)
(* generator of SyntheticBook, for every number of levels per side and     *)
(* every range of prices, and the free list of ObjectPool, for every       *)
(* capacity, every type of object and any sequence of calls.               *)
(***************************************************************************)
EXTENDS SyntheticBook, ObjectPool, DataTheorems, SequenceTheorems

-----------------------------------------------------------------------------
(* The order of a set of prices *)

(* A set of prices has a greatest element.                                 *)
LEMMA GreatestPrice ==
    ASSUME NEW S \in SUBSET Prices, S # {}
    PROVE  \E x \in S : \A y \in S : y <= x
<1> DEFINE D == {MaxPrice - x : x \in S}
<1>1. MaxPrice \in Nat /\ \A x \in S : x \in Nat /\ x <= MaxPrice
  BY FeedAssumption
<1>2. D \in SUBSET Nat /\ D # {}
  BY <1>1
<1>3. PICK d \in D : \A e \in D : d <= e
  BY <1>2, LeastNatural
<1>4. PICK x \in S : d = MaxPrice - x
  BY <1>3
<1>5. \A y \in S : d <= MaxPrice - y
  BY <1>3
<1> HIDE DEF D
<1> QED BY <1>1, <1>4, <1>5

(* A set of prices is finite.                                              *)
LEMMA PricesFinite ==
    ASSUME NEW S \in SUBSET Prices
    PROVE  IsFiniteSet(S) /\ Cardinality(S) \in Nat
<1>1. IsFiniteSet(1 .. MaxPrice)
  BY FeedAssumption, FS_Interval
<1>2. S \in SUBSET (1 .. MaxPrice)
  BY FeedAssumption
<1> QED BY <1>1, <1>2, FS_Subset, FS_CardinalityType

(* q lists the elements of S in ascending order.                           *)
Lists(q, S) ==
    /\ q \in [1 .. Cardinality(S) -> S]
    /\ \A i, j \in 1 .. Cardinality(S) : i < j => q[i] < q[j]

(* Such a list exists: the least number of elements without one could be   *)
(* made one less by taking the greatest element away.                      *)
LEMMA AscendingExists ==
    ASSUME NEW S \in SUBSET Prices
    PROVE  \E q : Lists(q, S)
<1> DEFINE Bad == {n \in Nat : \E T \in SUBSET Prices : Cardinality(T) = n /\ ~\E q : Lists(q, T)}
<1>1. ASSUME Bad # {} PROVE FALSE
  <2>1. PICK n \in Bad : \A m \in Bad : n <= m
    BY <1>1, LeastNatural
  <2>2. PICK T \in SUBSET Prices : Cardinality(T) = n /\ ~\E q : Lists(q, T)
    BY <2>1
  <2>3. n \in Nat /\ IsFiniteSet(T)
    BY <2>1, PricesFinite
  <2>4. CASE T = {}
    <3>1. Cardinality(T) = 0
      BY <2>4, FS_EmptySet
    <3>2. Lists([i \in 1 .. 0 |-> 0], T)
      BY <3>1 DEF Lists
    <3> QED BY <2>2, <3>2
  <2>5. CASE T # {}
    <3>1. PICK x \in T : \A y \in T : y <= x
      BY <2>5, GreatestPrice
    <3> DEFINE U == T \ {x}
    <3>2. Cardinality(U) = n - 1 /\ n - 1 \in Nat /\ U \in SUBSET Prices
      <4>1. Cardinality(T \ {x}) = Cardinality(T) - 1
        BY <2>3, <3>1, FS_RemoveElement
      <4>2. Cardinality(U) \in Nat
        BY PricesFinite
      <4> QED BY <2>2, <2>3, <4>1, <4>2
    <3>3. \E q : Lists(q, U)
      <4>1. n - 1 \notin Bad
        BY <2>1, <2>3, <3>2
      <4> HIDE DEF U
      <4> QED BY <3>2, <4>1
    <3>4. PICK q : Lists(q, U)
      BY <3>3
    <3>5. /\ q \in [1 .. (n - 1) -> U]
          /\ \A i, j \in 1 .. (n - 1) : i < j => q[i] < q[j]
      BY <3>2, <3>4 DEF Lists
    <3>6. \A i \in 1 .. (n - 1) : q[i] \in T /\ q[i] < x /\ q[i] \in Int
      <4>1. \A y \in U : y \in T /\ y # x /\ y <= x /\ y \in Int /\ x \in Int
        BY <3>1, FeedAssumption
      <4> HIDE DEF U
      <4> QED BY <3>5, <4>1
    <3> HIDE DEF U
    <3> DEFINE r == [i \in 1 .. n |-> IF i = n THEN x ELSE q[i]]
    <3>7. r \in [1 .. n -> T]
      BY <2>3, <3>1, <3>6
    <3>8. \A i, j \in 1 .. n : i < j => r[i] < r[j]
      BY <2>3, <3>5, <3>6
    <3> HIDE DEF r
    <3>9. Lists(r, T)
      BY <2>2, <3>7, <3>8 DEF Lists
    <3> QED BY <2>2, <3>9
  <2> QED BY <2>4, <2>5
<1>2. Cardinality(S) \in Nat
  BY PricesFinite
<1> QED BY <1>1, <1>2

(* So Ascending lists each element once.                                   *)
LEMMA AscendingLists ==
    ASSUME NEW S \in SUBSET Prices
    PROVE  /\ Ascending(S) \in Seq(S) /\ Len(Ascending(S)) = Cardinality(S)
           /\ \A i, j \in 1 .. Cardinality(S) : Ascending(S)[i] = Ascending(S)[j] => i = j
           /\ \A x \in S : \E i \in 1 .. Cardinality(S) : Ascending(S)[i] = x
<1> DEFINE n == Cardinality(S)
           q == Ascending(S)
<1>1. IsFiniteSet(S) /\ n \in Nat
  BY PricesFinite
<1>2. /\ q \in [1 .. n -> S]
      /\ \A i, j \in 1 .. n : i < j => q[i] < q[j]
  <2>1. PICK f : Lists(f, S)
    BY AscendingExists
  <2>2. f \in [1 .. n -> S] /\ \A i, j \in DOMAIN f : i < j => f[i] < f[j]
    BY <2>1 DEF Lists
  <2>3. q \in [1 .. n -> S] /\ \A i, j \in DOMAIN q : i < j => q[i] < q[j]
    BY <2>2 DEF Ascending
  <2> HIDE DEF q, n
  <2> QED BY <2>3
<1>3. \A x \in S : x \in Int
  BY FeedAssumption
<1> HIDE DEF q, n
<1>4. \A i, j \in 1 .. n : q[i] = q[j] => i = j
  BY <1>1, <1>2, <1>3
<1>5. q \in Seq(S) /\ Len(q) = n
  BY <1>1, <1>2, SeqDef, LenProperties
<1>6. \A x \in S : \E i \in 1 .. n : q[i] = x
  <2>1. IsFiniteSet(1 .. n) /\ Cardinality(1 .. n) = n
    BY <1>1, FS_Interval
  <2>2. q \in Injection(1 .. n, S)
    BY <1>2, <1>4 DEF Injection, IsInjective
  <2>3. q \in Surjection(1 .. n, S)
    BY <1>1, <2>1, <2>2, FS_Injection DEF n
  <2> QED BY <2>3 DEF Surjection
<1> QED BY <1>4, <1>5, <1>6 DEF q, n

-----------------------------------------------------------------------------
(* The queue of deletions *)

(* A sequence of prices, each once.                                        *)
Once(q) == q \in Seq(Prices) /\ \A i, j \in 1 .. Len(q) : q[i] = q[j] => i = j

(* A queue of deletions, each once, and what is in it.                     *)
Distinct(q) ==
    /\ q \in Seq(Sides \X Prices)
    /\ \A i, j \in 1 .. Len(q) : q[i] = q[j] => i = j

Queued(q, s, p) == \E i \in 1 .. Len(q) : q[i] = <<s, p>>

(* Both orders of a set of prices list each price once.                    *)
LEMMA OrderedOnce ==
    ASSUME NEW S \in SUBSET Prices
    PROVE  /\ Once(Ascending(S)) /\ \A x : x \in ToSet(Ascending(S)) <=> x \in S
           /\ Once(Descending(S)) /\ \A x : x \in ToSet(Descending(S)) <=> x \in S
<1> DEFINE n == Cardinality(S)
           q == Ascending(S)
           d == Descending(S)
<1>1. /\ q \in Seq(S) /\ Len(q) = n
      /\ \A i, j \in 1 .. n : q[i] = q[j] => i = j
      /\ \A x \in S : \E i \in 1 .. n : q[i] = x
  BY AscendingLists
<1>2. n \in Nat
  BY PricesFinite
<1>3. d = [i \in 1 .. Len(q) |-> q[(Len(q) - i) + 1]]
  BY DEF Descending, Reverse
<1> HIDE DEF n, q, d
<1>4. q \in [1 .. n -> S]
  BY <1>1, LenProperties
<1>5. /\ d \in [1 .. n -> S]
      /\ \A i \in 1 .. n : d[i] = q[n - i + 1] /\ n - i + 1 \in 1 .. n
      /\ \A i \in 1 .. n : q[i] = d[n - i + 1]
  BY <1>1, <1>2, <1>3, <1>4
<1>6. /\ \A i, j \in 1 .. n : d[i] = d[j] => i = j
      /\ \A x \in S : \E i \in 1 .. n : d[i] = x
  <2>1. ASSUME NEW i \in 1 .. n, NEW j \in 1 .. n, d[i] = d[j] PROVE i = j
    <3>1. n - i + 1 = n - j + 1
      BY <1>1, <1>5, <2>1
    <3> QED BY <1>2, <3>1
  <2>2. ASSUME NEW x \in S PROVE \E i \in 1 .. n : d[i] = x
    <3>1. PICK i \in 1 .. n : q[i] = x
      BY <1>1
    <3> QED BY <1>5, <3>1
  <2> QED BY <2>1, <2>2
<1>7. q \in Seq(Prices) /\ d \in Seq(Prices) /\ Len(d) = n
  <2>1. q \in [1 .. n -> Prices] /\ d \in [1 .. n -> Prices]
    BY <1>4, <1>5
  <2> QED BY <1>2, <2>1, SeqDef, LenProperties
<1>8. ToSet(q) = {q[i] : i \in 1 .. n} /\ ToSet(d) = {d[i] : i \in 1 .. n}
  BY <1>4, <1>5 DEF ToSet
<1>9. \A x : (x \in ToSet(q) <=> x \in S) /\ (x \in ToSet(d) <=> x \in S)
  <2>1. \A x : /\ x \in ToSet(q) <=> \E i \in 1 .. n : q[i] = x
               /\ x \in ToSet(d) <=> \E i \in 1 .. n : d[i] = x
    BY <1>8, Zenon
  <2>2. \A i \in 1 .. n : q[i] \in S /\ d[i] \in S
    BY <1>4, <1>5
  <2>3. \A x \in S : (\E i \in 1 .. n : q[i] = x) /\ (\E i \in 1 .. n : d[i] = x)
    BY <1>1, <1>6
  <2> QED BY <2>1, <2>2, <2>3
<1>10. Once(q) /\ Once(d)
  BY <1>1, <1>6, <1>7 DEF Once
<1> QED BY <1>9, <1>10 DEF q, d

(* The first prices of such a sequence.                                    *)
LEMMA FirstOnce ==
    ASSUME NEW q, Once(q), NEW n \in 1 .. Len(q)
    PROVE  /\ Once(SubSeq(q, 1, n - 1))
           /\ \A x \in ToSet(SubSeq(q, 1, n - 1)) : x \in ToSet(q)
<1> DEFINE c == SubSeq(q, 1, n - 1)
<1>1. /\ q \in Seq(Prices) /\ Len(q) \in Nat /\ DOMAIN q = 1 .. Len(q)
      /\ \A i \in 1 .. Len(q) : q[i] \in Prices
      /\ \A i, j \in 1 .. Len(q) : q[i] = q[j] => i = j
  BY LenProperties DEF Once
<1>2. /\ c \in Seq(Prices) /\ Len(c) = n - 1 /\ \A i \in 1 .. (n - 1) : c[i] = q[i]
  <2>1. \A i \in 1 .. (n - 1) : q[i] \in Prices
    BY <1>1
  <2>2. /\ c \in Seq(Prices) /\ Len(c) = IF 1 <= n - 1 THEN n - 1 - 1 + 1 ELSE 0
        /\ \A i \in 1 .. (n - 1) - 1 + 1 : c[i] = q[1 + i - 1]
    BY <1>1, <2>1, SubSeqProperties
  <2> HIDE DEF c
  <2> QED BY <1>1, <2>2
<1>3. DOMAIN c = 1 .. (n - 1)
  BY <1>2, LenProperties
<1> HIDE DEF c
<1>4. Once(c)
  BY <1>1, <1>2 DEF Once
<1>5. \A x \in ToSet(c) : x \in ToSet(q)
  BY <1>1, <1>2, <1>3 DEF ToSet
<1> QED BY <1>4, <1>5 DEF c

(* The deletions of such a sequence.                                       *)
LEMMA DeletionsQueue ==
    ASSUME NEW side \in Sides, NEW q, Once(q)
    PROVE  /\ Distinct(Deletions(side, q))
           /\ \A s, p : Queued(Deletions(side, q), s, p) <=> s = side /\ p \in ToSet(q)
<1> DEFINE d == Deletions(side, q)
<1>1. /\ Len(q) \in Nat /\ DOMAIN q = 1 .. Len(q)
      /\ \A i \in 1 .. Len(q) : q[i] \in Prices
      /\ \A i, j \in 1 .. Len(q) : q[i] = q[j] => i = j
  BY LenProperties DEF Once
<1>2. d \in [1 .. Len(q) -> Sides \X Prices] /\ \A i \in 1 .. Len(q) : d[i] = <<side, q[i]>>
  BY <1>1 DEF Deletions
<1>3. d \in Seq(Sides \X Prices) /\ Len(d) = Len(q)
  BY <1>1, <1>2, SeqDef, LenProperties
<1>4. \A p : p \in ToSet(q) <=> \E i \in 1 .. Len(q) : q[i] = p
  BY <1>1 DEF ToSet
<1> HIDE DEF d
<1>5. Distinct(d)
  BY <1>1, <1>2, <1>3 DEF Distinct
<1>6. \A s, p : Queued(d, s, p) <=> s = side /\ p \in ToSet(q)
  BY <1>2, <1>3, <1>4 DEF Queued
<1> QED BY <1>5, <1>6 DEF d

(* Two queues of different sides, one after the other.                     *)
LEMMA QueueOfBoth ==
    ASSUME NEW a, NEW b, Distinct(a), Distinct(b),
           \A s, p : ~(Queued(a, s, p) /\ Queued(b, s, p))
    PROVE  /\ Distinct(a \o b)
           /\ \A s, p : Queued(a \o b, s, p) <=> Queued(a, s, p) \/ Queued(b, s, p)
<1> DEFINE c == a \o b
           m == Len(a)
           n == Len(b)
           E == Sides \X Prices
<1>1. /\ a \in Seq(E) /\ b \in Seq(E) /\ m \in Nat /\ n \in Nat
      /\ \A i \in 1 .. m : a[i] \in E
      /\ \A i \in 1 .. n : b[i] \in E
      /\ \A i, j \in 1 .. m : a[i] = a[j] => i = j
      /\ \A i, j \in 1 .. n : b[i] = b[j] => i = j
  BY LenProperties DEF Distinct
<1>2. /\ c \in Seq(E) /\ Len(c) = m + n
      /\ \A i \in 1 .. (m + n) : c[i] = IF i <= m THEN a[i] ELSE b[i - m]
  BY <1>1, ConcatProperties
<1>3. \A i \in 1 .. m, j \in 1 .. n : a[i] # b[j]
  <2> SUFFICES ASSUME NEW i \in 1 .. m, NEW j \in 1 .. n, a[i] = b[j] PROVE FALSE
    OBVIOUS
  <2>1. PICK s \in Sides, p \in Prices : a[i] = <<s, p>>
    BY <1>1
  <2> QED BY <2>1 DEF Queued
<1> HIDE DEF m, n, c, E
<1>4. \A i, j \in 1 .. (m + n) : c[i] = c[j] => i = j
  <2> SUFFICES ASSUME NEW i \in 1 .. (m + n), NEW j \in 1 .. (m + n), c[i] = c[j]
               PROVE  i = j
    OBVIOUS
  <2>1. CASE i <= m /\ j <= m
    BY <1>1, <1>2, <2>1
  <2>2. CASE ~(i <= m) /\ ~(j <= m)
    <3>1. i - m \in 1 .. n /\ j - m \in 1 .. n /\ c[i] = b[i - m] /\ c[j] = b[j - m]
      BY <1>1, <1>2, <2>2
    <3>2. i - m = j - m
      BY <1>1, <3>1
    <3> QED BY <1>1, <3>2
  <2>3. CASE i <= m /\ ~(j <= m)
    <3>1. i \in 1 .. m /\ j - m \in 1 .. n /\ c[i] = a[i] /\ c[j] = b[j - m]
      BY <1>1, <1>2, <2>3
    <3> QED BY <1>3, <3>1
  <2>4. CASE ~(i <= m) /\ j <= m
    <3>1. j \in 1 .. m /\ i - m \in 1 .. n /\ c[j] = a[j] /\ c[i] = b[i - m]
      BY <1>1, <1>2, <2>4
    <3> QED BY <1>3, <3>1
  <2> QED BY <2>1, <2>2, <2>3, <2>4
<1>5. Distinct(c)
  BY <1>2, <1>4 DEF Distinct, E
<1>6. ASSUME NEW e
      PROVE  (\E i \in 1 .. (m + n) : c[i] = e)
                <=> (\E i \in 1 .. m : a[i] = e) \/ (\E i \in 1 .. n : b[i] = e)
  <2>1. ASSUME NEW i \in 1 .. (m + n), c[i] = e
        PROVE  (\E k \in 1 .. m : a[k] = e) \/ (\E k \in 1 .. n : b[k] = e)
    <3>1. CASE i <= m
      BY <1>1, <1>2, <2>1, <3>1
    <3>2. CASE ~(i <= m)
      <4>1. i - m \in 1 .. n /\ b[i - m] = e
        BY <1>1, <1>2, <2>1, <3>2
      <4> QED BY <4>1
    <3> QED BY <3>1, <3>2
  <2>2. ASSUME NEW i \in 1 .. m, a[i] = e PROVE \E k \in 1 .. (m + n) : c[k] = e
    BY <1>1, <1>2, <2>2
  <2>3. ASSUME NEW i \in 1 .. n, b[i] = e PROVE \E k \in 1 .. (m + n) : c[k] = e
    <3>1. m + i \in 1 .. (m + n) /\ c[m + i] = b[(m + i) - m] /\ (m + i) - m = i
      BY <1>1, <1>2
    <3> QED BY <2>3, <3>1
  <2> QED BY <2>1, <2>2, <2>3
<1>7. \A s, p : Queued(c, s, p) <=> Queued(a, s, p) \/ Queued(b, s, p)
  BY <1>2, <1>6 DEF Queued, m, n
<1> QED BY <1>5, <1>7 DEF c

(* A queue without its head.                                               *)
LEMMA QueueTail ==
    ASSUME NEW q, Distinct(q), q # <<>>
    PROVE  /\ Distinct(Tail(q))
           /\ Head(q) \in Sides \X Prices
           /\ \A s, p : Queued(Tail(q), s, p) <=> Queued(q, s, p) /\ <<s, p>> # Head(q)
           /\ Queued(q, Head(q)[1], Head(q)[2])
<1> DEFINE n == Len(q)
           r == Tail(q)
           h == Head(q)
           E == Sides \X Prices
<1>1. /\ q \in Seq(E) /\ n \in Nat /\ n # 0
      /\ \A i \in 1 .. n : q[i] \in E
      /\ \A i, j \in 1 .. n : q[i] = q[j] => i = j
  BY LenProperties, EmptySeq DEF Distinct
<1>2. /\ r \in Seq(E) /\ Len(r) = n - 1 /\ \A i \in 1 .. (n - 1) : r[i] = q[i + 1]
      /\ h = q[1] /\ h \in E
  BY <1>1, HeadTailProperties
<1>3. h = <<h[1], h[2]>>
  BY <1>2
<1> HIDE DEF n, r, h, E
<1>4. \A i \in 1 .. (n - 1) : i + 1 \in 1 .. n /\ i + 1 # 1
  BY <1>1
<1>5. Distinct(r)
  <2>1. ASSUME NEW i \in 1 .. (n - 1), NEW j \in 1 .. (n - 1), r[i] = r[j] PROVE i = j
    <3>1. i + 1 = j + 1
      BY <1>1, <1>2, <1>4, <2>1
    <3> QED BY <1>1, <3>1
  <2> QED BY <1>2, <2>1 DEF Distinct, E
<1>6. ASSUME NEW e
      PROVE  (\E i \in 1 .. (n - 1) : r[i] = e) <=> (\E i \in 1 .. n : q[i] = e) /\ e # h
  <2>1. ASSUME NEW i \in 1 .. (n - 1), r[i] = e
        PROVE  (\E k \in 1 .. n : q[k] = e) /\ e # h
    <3>1. q[i + 1] = e /\ i + 1 \in 1 .. n /\ i + 1 # 1 /\ 1 \in 1 .. n
      BY <1>1, <1>2, <1>4, <2>1
    <3> QED BY <1>1, <1>2, <3>1
  <2>2. ASSUME NEW i \in 1 .. n, q[i] = e, e # h PROVE \E k \in 1 .. (n - 1) : r[k] = e
    <3>1. i # 1
      BY <1>2, <2>2
    <3>2. i - 1 \in 1 .. (n - 1) /\ (i - 1) + 1 = i
      BY <1>1, <3>1
    <3> QED BY <1>2, <2>2, <3>2
  <2> QED BY <2>1, <2>2
<1>7. \A s, p : Queued(r, s, p) <=> Queued(q, s, p) /\ <<s, p>> # h
  BY <1>2, <1>6 DEF Queued, n
<1>8. Queued(q, h[1], h[2])
  BY <1>1, <1>2, <1>3 DEF Queued, n
<1> QED BY <1>2, <1>5, <1>7, <1>8 DEF r, h, E

-----------------------------------------------------------------------------
(* The generator and the book *)

(* The event emitted sets the quantity at a price, or leaves the levels.   *)
Sets(side, price, qty) ==
    \A s \in Sides, p \in Prices :
        book'.level[s][p] = IF s = side /\ p = price THEN qty ELSE book.level[s][p]

LEMMA EmitSets ==
    ASSUME book \in Book, NEW side \in Sides, NEW price \in Prices, NEW qty \in Nat,
           Emit("Quote", side, price, qty) \/ (Emit("BookDelete", side, price, 0) /\ qty = 0)
    PROVE  book' \in Book /\ Sets(side, price, qty)
<1> DEFINE stamped == [book EXCEPT !.last_update = 0]
<1>1. book' = [stamped EXCEPT !.level[side][price] = qty]
  BY DEF Emit, apply, upsert, erase
<1>2. stamped \in Book /\ stamped.level = book.level
  BY DEF Book
<1> HIDE DEF stamped
<1> QED BY <1>1, <1>2 DEF Sets, Book

LEMMA EmitKeeps ==
    ASSUME book \in Book, NEW type \in {"Trade", "Heartbeat"}, NEW side, NEW price, NEW qty,
           Emit(type, side, price, qty)
    PROVE  book' \in Book /\ book'.level = book.level
<1>1. book' = [book EXCEPT !.last_update = 0]
  BY DEF Emit, apply
<1> QED BY <1>1 DEF Book

(* The levels of the book lie on their sides of some reference price: the  *)
(* present one, or while deletions are pending the one before the move.    *)
Around(b) == \E r \in Int : \A s \in Sides : \A p \in Prices :
                 b.level[s][p] > 0 => p \in Window(r, s)

(* The inductive invariant.                                                *)
GeneratorInv ==
    /\ ref \in Int
    /\ book \in Book
    /\ tracked \in [Sides -> SUBSET Prices]
    /\ Distinct(pending)
    /\ \A s \in Sides, p \in Prices :
          /\ Queued(pending, s, p) => p \notin tracked[s]
          /\ book.level[s][p] > 0 <=> p \in tracked[s] \/ Queued(pending, s, p)
          /\ p \in tracked[s] => p \in Window(ref, s)
    /\ Around(book)

LEMMA InitGenerator == Init => GeneratorInv
<1> SUFFICES ASSUME Init PROVE GeneratorInv
  OBVIOUS
<1>1. book \in Book /\ \A s \in Sides, p \in Prices : book.level[s][p] = 0
  BY DEF Init, EmptyBook, NoLevels, Book
<1>2. Distinct(pending) /\ \A s, p : ~Queued(pending, s, p)
  BY DEF Init, Distinct, Queued
<1>3. ref \in Int /\ tracked = [s \in Sides |-> {}]
  BY GeneratorAssumption DEF Init
<1> QED BY <1>1, <1>2, <1>3 DEF GeneratorInv, Around

(* The queue of the levels that a move makes invalid.                      *)
LEMMA MoveQueue ==
    ASSUME NEW A \in SUBSET Prices, NEW B \in SUBSET Prices
    PROVE  LET queue == Deletions("Buy", Ascending(A)) \o Deletions("Sell", Ascending(B))
           IN  /\ Distinct(queue)
               /\ \A s, p : Queued(queue, s, p)
                            <=> (s = "Buy" /\ p \in A) \/ (s = "Sell" /\ p \in B)
<1> DEFINE a == Deletions("Buy", Ascending(A))
           b == Deletions("Sell", Ascending(B))
<1>1. Distinct(a) /\ \A s, p : Queued(a, s, p) <=> s = "Buy" /\ p \in A
  BY OrderedOnce, DeletionsQueue DEF Sides
<1>2. Distinct(b) /\ \A s, p : Queued(b, s, p) <=> s = "Sell" /\ p \in B
  BY OrderedOnce, DeletionsQueue DEF Sides
<1> HIDE DEF a, b
<1>3. \A s, p : ~(Queued(a, s, p) /\ Queued(b, s, p))
  BY <1>1, <1>2
<1>4. Distinct(a \o b) /\ \A s, p : Queued(a \o b, s, p) <=> Queued(a, s, p) \/ Queued(b, s, p)
  BY <1>1, <1>2, <1>3, QueueOfBoth
<1> QED BY <1>1, <1>2, <1>4 DEF a, b

LEMMA NextGenerator == GeneratorInv /\ [Next]_vars => GeneratorInv'
<1> SUFFICES ASSUME GeneratorInv, [Next]_vars PROVE GeneratorInv'
  OBVIOUS
<1>1. /\ ref \in Int /\ book \in Book /\ tracked \in [Sides -> SUBSET Prices] /\ Distinct(pending)
      /\ \A s \in Sides, p \in Prices :
            /\ Queued(pending, s, p) => p \notin tracked[s]
            /\ book.level[s][p] > 0 <=> p \in tracked[s] \/ Queued(pending, s, p)
            /\ p \in tracked[s] => p \in Window(ref, s)
      /\ Around(book)
  BY DEF GeneratorInv
<1>2. \A s, p : ~Queued(<<>>, s, p)
  BY DEF Queued
<1>3. \A s \in Sides, p \in Prices : book.level[s][p] \in Nat
  BY <1>1 DEF Book
(* Steps that delete the head of a queue of levels no longer tracked.      *)
<1>4. ASSUME NEW queue, Distinct(queue), queue # <<>>, pending' = Tail(queue),
             Emit("BookDelete", Head(queue)[1], Head(queue)[2], 0),
             ref' \in Int, tracked' \in [Sides -> SUBSET Prices],
             \A s \in Sides, p \in Prices :
                /\ Queued(queue, s, p) => p \notin tracked'[s]
                /\ book.level[s][p] > 0 <=> p \in tracked'[s] \/ Queued(queue, s, p)
                /\ p \in tracked'[s] => p \in Window(ref', s)
      PROVE  GeneratorInv'
  <2> DEFINE h == Head(queue)
  <2>1. /\ Distinct(pending') /\ h \in Sides \X Prices
        /\ \A s, p : Queued(pending', s, p) <=> Queued(queue, s, p) /\ <<s, p>> # h
        /\ Queued(queue, h[1], h[2])
    BY <1>4, QueueTail
  <2>2. h[1] \in Sides /\ h[2] \in Prices /\ \A s, p : <<s, p>> = h <=> s = h[1] /\ p = h[2]
    BY <2>1
  <2>3. book' \in Book /\ Sets(h[1], h[2], 0)
    BY <1>1, <1>4, <2>2, EmitSets
  <2> HIDE DEF h
  <2>4. \A s \in Sides, p \in Prices :
           book'.level[s][p] > 0 <=> book.level[s][p] > 0 /\ ~(s = h[1] /\ p = h[2])
    BY <1>3, <2>3 DEF Sets
  <2>5. \A s \in Sides, p \in Prices :
           /\ Queued(pending', s, p) => p \notin tracked'[s]
           /\ book'.level[s][p] > 0 <=> p \in tracked'[s] \/ Queued(pending', s, p)
    BY <1>4, <2>1, <2>2, <2>4
  <2>6. Around(book')
    BY <1>1, <2>4 DEF Around
  <2> QED BY <1>4, <2>1, <2>3, <2>5, <2>6 DEF GeneratorInv
<1>5. ASSUME NEW step \in {-1, 1}, MoveAndDelete(step)
      PROVE  GeneratorInv'
  <2> DEFINE r == ref + step
             queue == Deletions("Buy", Ascending(Invalid(r, "Buy"))) \o
                      Deletions("Sell", Ascending(Invalid(r, "Sell")))
  <2>1. /\ pending = <<>> /\ queue # <<>> /\ ref' = r /\ pending' = Tail(queue)
        /\ tracked' = [s \in Sides |-> tracked[s] \ Invalid(r, s)]
        /\ Emit("BookDelete", Head(queue)[1], Head(queue)[2], 0)
    BY <1>5 DEF MoveAndDelete
  <2>2. \A s \in Sides : Invalid(r, s) \in SUBSET Prices
    BY <1>1 DEF Invalid
  <2>3. /\ Distinct(queue)
        /\ \A s, p : Queued(queue, s, p) <=> \/ s = "Buy" /\ p \in Invalid(r, "Buy")
                                             \/ s = "Sell" /\ p \in Invalid(r, "Sell")
    BY <2>2, MoveQueue DEF Sides
  <2> HIDE DEF queue
  <2>4. \A s \in Sides : \A p : Queued(queue, s, p) <=> p \in Invalid(r, s)
    BY <2>3 DEF Sides
  <2>5. r \in Int
    BY <1>1
  <2>6. \A s \in Sides : \A p : p \in Invalid(r, s) <=> p \in tracked[s] /\ p \notin Window(r, s)
    BY DEF Invalid
  <2> HIDE DEF r
  <2>7. /\ tracked' \in [Sides -> SUBSET Prices]
        /\ \A s \in Sides : \A p : p \in tracked'[s] <=> p \in tracked[s] /\ p \notin Invalid(r, s)
    BY <1>1, <2>1
  <2>8. \A s \in Sides, p \in Prices :
           /\ Queued(queue, s, p) => p \notin tracked'[s]
           /\ book.level[s][p] > 0 <=> p \in tracked'[s] \/ Queued(queue, s, p)
           /\ p \in tracked'[s] => p \in Window(ref', s)
    BY <1>1, <1>2, <2>1, <2>4, <2>6, <2>7
  <2> QED BY <1>4, <2>1, <2>3, <2>5, <2>7, <2>8
<1>6. CASE DeletePending
  <2>1. /\ pending # <<>> /\ pending' = Tail(pending) /\ ref' = ref /\ tracked' = tracked
        /\ Emit("BookDelete", Head(pending)[1], Head(pending)[2], 0)
    BY <1>6 DEF DeletePending
  <2> QED BY <1>1, <1>4, <2>1
(* The other steps begin with an empty queue and settle the reference.     *)
<1>7. ASSUME NEW r, Settles(r)
      PROVE  /\ r \in Int /\ ref' = r
             /\ \A s, p : ~Queued(pending, s, p)
             /\ \A s \in Sides, p \in Prices : p \in tracked[s] => p \in Window(r, s)
  <2>1. /\ pending = <<>> /\ r \in {ref - 1, ref, ref + 1} /\ ref' = r
        /\ \A s \in Sides : Invalid(r, s) = {}
    BY <1>7 DEF Settles
  <2>2. r \in Int
    BY <1>1, <2>1
  <2>3. \A s \in Sides : \A p : p \in tracked[s] => p \in Window(r, s)
    BY <2>1 DEF Invalid
  <2> QED BY <1>2, <2>1, <2>2, <2>3
<1>8. ASSUME NEW r, Heartbeat(r) PROVE GeneratorInv'
  <2>1. Settles(r) /\ tracked' = tracked /\ pending' = pending
    BY <1>8 DEF Heartbeat
  <2>2. book' \in Book /\ book'.level = book.level
    BY <1>1, <1>8, EmitKeeps DEF Heartbeat
  <2>3. Around(book')
    BY <1>1, <2>2 DEF Around
  <2> QED BY <1>1, <1>7, <2>1, <2>2, <2>3 DEF GeneratorInv
<1>9. ASSUME NEW r, NEW side \in Sides, NEW price \in Prices, Quote(r, side, price)
      PROVE  GeneratorInv'
  <2>1. /\ Settles(r) /\ pending' = pending /\ price \in Window(r, side)
        /\ tracked' = [tracked EXCEPT ![side] = @ \cup {price}]
    BY <1>9 DEF Quote
  <2>2. book' \in Book /\ Sets(side, price, 1)
    BY <1>1, <1>9, EmitSets DEF Quote
  <2>3. /\ tracked' \in [Sides -> SUBSET Prices]
        /\ \A s \in Sides, p \in Prices :
              p \in tracked'[s] <=> p \in tracked[s] \/ (s = side /\ p = price)
    BY <1>1, <2>1
  <2>4. \A s \in Sides, p \in Prices :
           book'.level[s][p] > 0 <=> book.level[s][p] > 0 \/ (s = side /\ p = price)
    BY <1>3, <2>2 DEF Sets
  <2>5. \A s \in Sides, p \in Prices :
           /\ book'.level[s][p] > 0 <=> p \in tracked'[s]
           /\ p \in tracked'[s] => p \in Window(r, s)
    BY <1>1, <1>7, <2>1, <2>3, <2>4
  <2>6. Around(book')
    BY <1>7, <2>1, <2>5 DEF Around
  <2> QED BY <1>1, <1>7, <2>1, <2>2, <2>3, <2>5, <2>6 DEF GeneratorInv
<1>10. ASSUME NEW r, NEW side \in Sides, NEW price \in Prices, Cancel(r, side, price)
       PROVE  GeneratorInv'
  <2>1. /\ Settles(r) /\ pending' = pending
        /\ tracked' = [tracked EXCEPT ![side] = @ \ {price}]
    BY <1>10 DEF Cancel
  <2>2. book' \in Book /\ Sets(side, price, 0)
    BY <1>1, <1>10, EmitSets DEF Cancel
  <2>3. /\ tracked' \in [Sides -> SUBSET Prices]
        /\ \A s \in Sides, p \in Prices :
              p \in tracked'[s] <=> p \in tracked[s] /\ ~(s = side /\ p = price)
    BY <1>1, <2>1
  <2>4. \A s \in Sides, p \in Prices :
           book'.level[s][p] > 0 <=> book.level[s][p] > 0 /\ ~(s = side /\ p = price)
    BY <1>3, <2>2 DEF Sets
  <2>5. \A s \in Sides, p \in Prices :
           /\ book'.level[s][p] > 0 <=> p \in tracked'[s]
           /\ p \in tracked'[s] => p \in Window(r, s)
    BY <1>1, <1>7, <2>1, <2>3, <2>4
  <2>6. Around(book')
    BY <1>7, <2>1, <2>5 DEF Around
  <2> QED BY <1>1, <1>7, <2>1, <2>2, <2>3, <2>5, <2>6 DEF GeneratorInv
<1>11. ASSUME NEW r, NEW aggressor \in Sides, NEW n, Trade(r, aggressor, n)
       PROVE  GeneratorInv'
  <2> DEFINE side == Opposite(aggressor)
             levels == IF aggressor = "Buy" THEN Ascending(tracked[side])
                                            ELSE Descending(tracked[side])
             consumed == SubSeq(levels, 1, n - 1)
  <2>1. /\ Settles(r) /\ n \in DOMAIN levels
        /\ tracked' = [tracked EXCEPT ![side] = @ \ ToSet(consumed)]
        /\ pending' = Deletions(side, consumed)
    BY <1>11 DEF Trade
  <2>2. book' \in Book /\ book'.level = book.level
    BY <1>1, <1>11, EmitKeeps DEF Trade
  <2>3. side \in Sides
    BY DEF Opposite, Sides
  <2>4. Once(levels) /\ \A x : x \in ToSet(levels) <=> x \in tracked[side]
    BY <1>1, <2>3, OrderedOnce
  <2> HIDE DEF levels, side
  <2>5. n \in 1 .. Len(levels)
    BY <2>1, <2>4, LenProperties DEF Once
  <2>6. Once(consumed) /\ \A x \in ToSet(consumed) : x \in tracked[side]
    BY <2>4, <2>5, FirstOnce
  <2> HIDE DEF consumed
  <2>7. /\ Distinct(pending')
        /\ \A s, p : Queued(pending', s, p) <=> s = side /\ p \in ToSet(consumed)
    BY <2>1, <2>3, <2>6, DeletionsQueue
  <2>8. /\ tracked' \in [Sides -> SUBSET Prices]
        /\ \A s \in Sides, p \in Prices :
              p \in tracked'[s] <=> p \in tracked[s] /\ ~(s = side /\ p \in ToSet(consumed))
    BY <1>1, <2>1, <2>3
  <2>9. \A s \in Sides, p \in Prices :
           /\ Queued(pending', s, p) => p \notin tracked'[s]
           /\ book'.level[s][p] > 0 <=> p \in tracked'[s] \/ Queued(pending', s, p)
           /\ p \in tracked'[s] => p \in Window(r, s)
    BY <1>1, <1>7, <2>1, <2>2, <2>6, <2>7, <2>8
  <2>10. Around(book')
    BY <1>1, <2>2 DEF Around
  <2> QED BY <1>7, <2>1, <2>2, <2>7, <2>8, <2>9, <2>10 DEF GeneratorInv
<1>12. CASE UNCHANGED vars
  BY <1>12 DEF vars, GeneratorInv, Around, Distinct, Queued
<1> QED BY <1>5, <1>6, <1>8, <1>9, <1>10, <1>11, <1>12 DEF Next

LEMMA GeneratorInvariance == Spec => []GeneratorInv
BY InitGenerator, NextGenerator, PTL DEF Spec

(* The book the generator's events describe is never crossed: while the    *)
(* deletions a move causes are pending, the levels still lie around the    *)
(* reference price before the move.                                        *)
THEOREM GeneratedBookNeverCrossed == Spec => []NeverCrossed
<1>1. ASSUME GeneratorInv PROVE NeverCrossed
  <2>1. PICK r \in Int : \A s \in Sides : \A p \in Prices : book.level[s][p] > 0 => p \in Window(r, s)
    BY <1>1 DEF GeneratorInv, Around
  <2>2. LevelsPerSide \in Nat /\ \A p \in Prices : p \in Int
    BY FeedAssumption, GeneratorAssumption
  <2>3. \A p \in Levels(book, "Buy") : p \in Int /\ p < r
    BY <2>1, <2>2 DEF Levels, Window, Sides
  <2>4. \A p \in Levels(book, "Sell") : p \in Int /\ p > r
    BY <2>1, <2>2 DEF Levels, Window, Sides
  <2> QED BY <2>3, <2>4 DEF NeverCrossed, crossed
<1> QED BY <1>1, GeneratorInvariance, PTL

(* What the generator tracks, together with what it has still to delete,   *)
(* is what the book holds, and each side stays within its number of        *)
(* levels.                                                                 *)
THEOREM GeneratorTracksTheBook == Spec => []TracksTheBook
<1>1. ASSUME GeneratorInv PROVE TracksTheBook
  <2> SUFFICES ASSUME NEW s \in Sides
               PROVE  /\ Levels(book, s) = tracked[s] \cup
                                           {d[2] : d \in {e \in ToSet(pending) : e[1] = s}}
                      /\ Cardinality(Levels(book, s)) <= LevelsPerSide
    BY DEF TracksTheBook
  <2> DEFINE Q == {d[2] : d \in {e \in ToSet(pending) : e[1] = s}}
             L == Levels(book, s)
  <2>1. /\ tracked[s] \subseteq Prices
        /\ \A p \in Prices : book.level[s][p] > 0 <=> p \in tracked[s] \/ Queued(pending, s, p)
        /\ Distinct(pending)
    BY <1>1 DEF GeneratorInv
  <2>2. \A p : p \in Q <=> p \in Prices /\ Queued(pending, s, p)
    <3>1. /\ DOMAIN pending = 1 .. Len(pending)
          /\ \A i \in 1 .. Len(pending) : pending[i] \in Sides \X Prices
      BY <2>1, LenProperties DEF Distinct
    <3>2. \A e : e \in ToSet(pending) <=> \E i \in 1 .. Len(pending) : pending[i] = e
      BY <3>1 DEF ToSet
    <3>3. \A e \in ToSet(pending) : e \in Sides \X Prices /\ e = <<e[1], e[2]>>
      BY <3>1, <3>2
    <3> TAKE p
    <3>4. ASSUME p \in Q PROVE p \in Prices /\ Queued(pending, s, p)
      <4>1. PICK d \in ToSet(pending) : d[1] = s /\ d[2] = p
        BY <3>4
      <4>2. d = <<s, p>> /\ p \in Prices
        BY <3>3, <4>1
      <4> QED BY <3>2, <4>1, <4>2 DEF Queued
    <3>5. ASSUME Queued(pending, s, p) PROVE p \in Q
      <4>1. <<s, p>> \in ToSet(pending)
        BY <3>2, <3>5 DEF Queued
      <4>2. <<s, p>>[1] = s /\ <<s, p>>[2] = p
        OBVIOUS
      <4> QED BY <4>1, <4>2
    <3> QED BY <3>4, <3>5
  <2> HIDE DEF Q
  <2>3. L = tracked[s] \cup Q
    BY <2>1, <2>2 DEF Levels
  <2>4. PICK r \in Int : \A p \in Prices : book.level[s][p] > 0 => p \in Window(r, s)
    BY <1>1 DEF GeneratorInv, Around
  <2>5. L \subseteq Window(r, s)
    BY <2>4 DEF Levels
  <2>6. IsFiniteSet(Window(r, s)) /\ Cardinality(Window(r, s)) = LevelsPerSide
    <3>1. CASE s = "Buy"
      <4>1. IsFiniteSet((r - LevelsPerSide) .. (r - 1))
            /\ Cardinality((r - LevelsPerSide) .. (r - 1)) = LevelsPerSide
        BY GeneratorAssumption, FS_Interval
      <4> QED BY <3>1, <4>1 DEF Window
    <3>2. CASE s # "Buy"
      <4>1. IsFiniteSet((r + 1) .. (r + LevelsPerSide))
            /\ Cardinality((r + 1) .. (r + LevelsPerSide)) = LevelsPerSide
        BY GeneratorAssumption, FS_Interval
      <4> QED BY <3>2, <4>1 DEF Window
    <3> QED BY <3>1, <3>2
  <2> HIDE DEF L
  <2>7. Cardinality(L) <= LevelsPerSide
    BY <2>5, <2>6, FS_Subset
  <2> QED BY <2>3, <2>7 DEF L, Q
<1> QED BY <1>1, GeneratorInvariance, PTL

-----------------------------------------------------------------------------
(* The object pool *)

PoolTypeOK ==
    /\ slot \in [Slots -> Objects \cup {Torn} \cup (0..Capacity)]
    /\ free_head \in 0..Capacity
    /\ live_count \in Int
    /\ exhausted_count \in Nat
    /\ held \in [Slots -> Objects \cup {Torn, Vacant}]
    /\ free \in Seq(Slots)

(* The two invariants are inductive together, with the types.              *)
PoolInv == PoolTypeOK /\ FreeListIsExact /\ ObjectsIntact

USE PoolAssumption DEF Slots, Null

(* The constructor threads all the slots into the list.                    *)
LEMMA InitPool == PoolInit => PoolInv
<1> SUFFICES ASSUME PoolInit PROVE PoolInv
  OBVIOUS
<1>1. free \in Seq(Slots) /\ Len(free) = Capacity
      /\ \A k \in 1..Capacity : free[k] = Capacity + 1 - k
  BY DEF PoolInit
<1>2. PoolTypeOK
  BY <1>1 DEF PoolInit, PoolTypeOK
<1>3. FreeListIsExact
  <2>1. ASSUME NEW i \in Slots PROVE \E k \in 1..Len(free) : free[k] = i
    <3>1. Capacity + 1 - i \in 1..Len(free) /\ free[Capacity + 1 - i] = i
      BY <1>1
    <3> QED
      BY <3>1
  <2>2. ASSUME NEW k \in 1..Len(free)
        PROVE slot[free[k]] = IF k = 1 THEN Null ELSE free[k - 1]
    BY <1>1 DEF PoolInit
  <2>3. free_head = IF Len(free) = 0 THEN Null ELSE free[Len(free)]
    BY <1>1 DEF PoolInit
  <2>4. \A j, k \in 1..Len(free) : free[j] = free[k] => j = k
    BY <1>1
  <2>5. live_count = Capacity - Len(free) /\ \A i \in Slots : held[i] = Vacant
    BY <1>1 DEF PoolInit
  <2> QED
    BY <2>1, <2>2, <2>3, <2>4, <2>5 DEF FreeListIsExact
<1>4. ObjectsIntact
  BY DEF PoolInit, ObjectsIntact
<1> QED
  BY <1>2, <1>3, <1>4 DEF PoolInv

(* A stack without its last element.                                       *)
LEMMA WithoutLast ==
    ASSUME NEW S, NEW s \in Seq(S), Len(s) \in Nat \ {0}
    PROVE  /\ SubSeq(s, 1, Len(s) - 1) \in Seq(S)
           /\ Len(SubSeq(s, 1, Len(s) - 1)) = Len(s) - 1
           /\ \A k \in 1..(Len(s) - 1) : SubSeq(s, 1, Len(s) - 1)[k] = s[k]
<1>1. ASSUME NEW m \in Nat, NEW l, l = IF 1 <= m THEN m - 1 + 1 ELSE 0
      PROVE  l = m
  BY <1>1
<1>2. PICK m \in Nat : m = Len(s) - 1
  OBVIOUS
<1>3. \A k \in 1..m : s[k] \in S
  BY <1>2
<1>4. /\ SubSeq(s, 1, m) \in Seq(S)
      /\ Len(SubSeq(s, 1, m)) = IF 1 <= m THEN m - 1 + 1 ELSE 0
      /\ \A k \in 1..(m - 1 + 1) : SubSeq(s, 1, m)[k] = s[1 + k - 1]
  BY <1>3, SubSeqProperties
<1>5. Len(SubSeq(s, 1, m)) = m
  BY ONLY <1>1, <1>4, m \in Nat
<1>6. ASSUME NEW k \in 1..m PROVE SubSeq(s, 1, m)[k] = s[k]
  <2>1. k \in 1..(m - 1 + 1) /\ 1 + k - 1 = k
    OBVIOUS
  <2> QED
    BY <1>4, <2>1
<1> QED
  BY <1>2, <1>4, <1>5, <1>6

(* acquire takes the slot on top of the stack, for an object or for what a *)
(* throwing constructor leaves.                                            *)
LEMMA AcquireKeepsPool ==
    ASSUME PoolInv, NEW x \in Objects \cup {Torn}, acquire(x)
    PROVE  PoolInv'
<1> DEFINE n == Len(free)
<1>1. PoolTypeOK /\ FreeListIsExact /\ ObjectsIntact
  BY DEF PoolInv
<1>2. n \in Nat \ {0} /\ free_head = free[n] /\ free_head \in Slots
  BY <1>1 DEF acquire, PoolTypeOK, FreeListIsExact
<1>3. /\ free' \in Seq(Slots)
      /\ Len(free') = n - 1
      /\ \A k \in 1..(n - 1) : free'[k] = free[k]
  <2>1. free' = SubSeq(free, 1, n - 1) /\ free \in Seq(Slots)
    BY <1>1 DEF acquire, PoolTypeOK
  <2> HIDE DEF Slots
  <2> QED
    BY ONLY <1>2, <2>1, WithoutLast
<1>links. \A k \in 1..n : slot[free[k]] = IF k = 1 THEN Null ELSE free[k - 1]
  BY <1>1 DEF FreeListIsExact
<1>4. slot[free_head] = IF n = 1 THEN Null ELSE free[n - 1]
  <2>1. n \in 1..n
    BY <1>2
  <2>2. slot[free[n]] = IF n = 1 THEN Null ELSE free[n - 1]
    BY ONLY <1>links, <2>1
  <2> QED
    BY <1>2, <2>2
<1>5. free_head' = (IF n = 1 THEN Null ELSE free[n - 1])
  BY <1>4 DEF acquire
<1>6. PoolTypeOK'
  <2>1. slot' \in [Slots -> Objects \cup {Torn} \cup (0..Capacity)]
    BY <1>1 DEF acquire, PoolTypeOK
  <2>2. held' \in [Slots -> Objects \cup {Torn, Vacant}]
    BY <1>1 DEF acquire, PoolTypeOK
  <2>3. n # 1 => free[n - 1] \in Slots
    <3>1. free \in Seq(Slots) /\ n \in Nat \ {0}
      BY <1>1, <1>2 DEF PoolTypeOK
    <3> HIDE DEF Slots, n
    <3>2. n # 1 => n - 1 \in 1..n
      BY ONLY <3>1
    <3> USE DEF n
    <3> QED
      BY ONLY <3>1, <3>2, ElementOfSeq
  <2>4. free_head' \in 0..Capacity
    BY <1>5, <2>3
  <2>5. live_count' \in Int /\ exhausted_count' \in Nat
    BY <1>1 DEF acquire, PoolTypeOK
  <2> QED
    BY <1>3, <2>1, <2>2, <2>4, <2>5 DEF PoolTypeOK
<1>7. FreeListIsExact'
  <2>1. ASSUME NEW k \in 1..(n - 1) PROVE free[k] # free_head
    BY <1>1, <1>2 DEF FreeListIsExact
  <2>2. ASSUME NEW i \in Slots
        PROVE  (held[i] = Vacant)' <=> \E k \in 1..Len(free') : free'[k] = i
    <3>1. CASE i = free_head
      BY <1>1, <1>2, <1>3, <2>1, <3>1 DEF acquire, PoolTypeOK
    <3>2. CASE i # free_head
      <4>1. held'[i] = held[i]
        BY <1>1, <3>2 DEF acquire, PoolTypeOK
      <4>2. held[i] = Vacant <=> \E k \in 1..n : free[k] = i
        BY <1>1 DEF FreeListIsExact
      <4>3. (\E k \in 1..n : free[k] = i) <=> \E k \in 1..(n - 1) : free[k] = i
        BY <1>2, <3>2
      <4> QED
        BY <1>3, <4>1, <4>2, <4>3
    <3> QED
      BY <3>1, <3>2
  <2>3. \A j, k \in 1..Len(free') : free'[j] = free'[k] => j = k
    <3>1. \A j, k \in 1..n : free[j] = free[k] => j = k
      BY <1>1 DEF FreeListIsExact
    <3> QED
      BY ONLY <1>2, <1>3, <3>1
  <2>4. free_head' = IF Len(free') = 0 THEN Null ELSE free'[Len(free')]
    BY <1>2, <1>3, <1>5
  <2>5. ASSUME NEW k \in 1..Len(free')
        PROVE  slot'[free'[k]] = IF k = 1 THEN Null ELSE free'[k - 1]
    <3>1. slot'[free[k]] = slot[free[k]]
      BY <1>1, <1>2, <1>3, <2>1 DEF acquire, PoolTypeOK
    <3>2. k \in 1..n /\ k \in 1..(n - 1) /\ (k # 1 => k - 1 \in 1..(n - 1))
      BY <1>2, <1>3
    <3>3. slot[free[k]] = IF k = 1 THEN Null ELSE free[k - 1]
      BY ONLY <1>links, <3>2
    <3>4. free'[k] = free[k] /\ (k # 1 => free'[k - 1] = free[k - 1])
      BY ONLY <1>3, <3>2
    <3> QED
      BY <3>1, <3>3, <3>4
  <2>6. live_count' = Capacity - Len(free')
    <3>1. live_count = Capacity - n /\ live_count' = live_count + 1
      BY <1>1 DEF acquire, FreeListIsExact
    <3> QED
      BY <1>2, <1>3, <3>1
  <2> QED
    BY <2>2, <2>3, <2>4, <2>5, <2>6 DEF FreeListIsExact
<1>8. ObjectsIntact'
  BY <1>1, <1>2 DEF acquire, ObjectsIntact, PoolTypeOK
<1> QED
  BY <1>6, <1>7, <1>8 DEF PoolInv

(* release puts the slot of the object on top of the stack.                *)
LEMMA ReleaseKeepsPool ==
    ASSUME PoolInv, NEW i \in Slots, release(i)
    PROVE  PoolInv'
<1> DEFINE n == Len(free)
<1>1. PoolTypeOK /\ FreeListIsExact /\ ObjectsIntact
  BY DEF PoolInv
<1>2. n \in Nat /\ \A k \in 1..n : free[k] # i /\ free[k] \in Slots
  <2>1. held[i] # Vacant
    BY DEF release
  <2>2. n \in Nat /\ \A k \in 1..n : free[k] \in Slots
    BY <1>1 DEF PoolTypeOK
  <2>3. held[i] = Vacant <=> \E k \in 1..n : free[k] = i
    BY <1>1 DEF FreeListIsExact
  <2> QED
    BY <2>1, <2>2, <2>3
<1>3. /\ free' \in Seq(Slots)
      /\ Len(free') = n + 1
      /\ free'[n + 1] = i
      /\ \A k \in 1..n : free'[k] = free[k]
  BY <1>1, <1>2 DEF release, PoolTypeOK
<1>4. PoolTypeOK'
  BY <1>1, <1>3 DEF release, PoolTypeOK
<1>5. FreeListIsExact'
  <2>1. ASSUME NEW j \in Slots
        PROVE  (held[j] = Vacant)' <=> \E k \in 1..Len(free') : free'[k] = j
    <3>1. CASE j = i
      <4>1. held'[j] = Vacant
        BY <1>1, <3>1 DEF release, PoolTypeOK
      <4> QED
        BY <1>2, <1>3, <3>1, <4>1
    <3>2. CASE j # i
      <4>1. held'[j] = held[j]
        BY <1>1, <3>2 DEF release, PoolTypeOK
      <4>2. held[j] = Vacant <=> \E k \in 1..n : free[k] = j
        BY <1>1 DEF FreeListIsExact
      <4>3. (\E k \in 1..n : free[k] = j) <=> \E k \in 1..(n + 1) : free'[k] = j
        <5>1. ASSUME NEW k \in 1..n, free[k] = j
              PROVE  \E m \in 1..(n + 1) : free'[m] = j
          BY <1>2, <1>3, <5>1
        <5>2. ASSUME NEW k \in 1..(n + 1), free'[k] = j
              PROVE  \E m \in 1..n : free[m] = j
          <6>1. k # n + 1
            BY <1>3, <3>2, <5>2
          <6> QED
            BY <1>2, <1>3, <5>2, <6>1
        <5> QED
          BY <5>1, <5>2
      <4> QED
        BY <1>3, <4>1, <4>2, <4>3
    <3> QED
      BY <3>1, <3>2
  <2>2. ASSUME NEW j \in 1..Len(free'), NEW k \in 1..Len(free'), free'[j] = free'[k]
        PROVE  j = k
    <3>1. \A a, b \in 1..n : free[a] = free[b] => a = b
      BY <1>1 DEF FreeListIsExact
    <3>2. /\ j \in 1..n \/ j = n + 1
          /\ k \in 1..n \/ k = n + 1
      BY <1>2, <1>3
    <3>3. \A a \in 1..n : free'[a] = free[a] /\ free'[a] # free'[n + 1]
      BY <1>2, <1>3
    <3>4. CASE j \in 1..n /\ k \in 1..n
      BY <2>2, <3>1, <3>3, <3>4
    <3> QED
      BY <2>2, <3>2, <3>3, <3>4
  <2>3. free_head' = IF Len(free') = 0 THEN Null ELSE free'[Len(free')]
    BY <1>2, <1>3 DEF release
  <2>4. ASSUME NEW k \in 1..Len(free')
        PROVE  slot'[free'[k]] = IF k = 1 THEN Null ELSE free'[k - 1]
    <3>1. CASE k \in 1..n
      <4>1. slot'[free[k]] = slot[free[k]]
        BY <1>1, <1>2, <3>1 DEF release, PoolTypeOK
      <4>2. slot[free[k]] = IF k = 1 THEN Null ELSE free[k - 1]
        BY <1>1, <3>1 DEF FreeListIsExact
      <4>3. k # 1 => k - 1 \in 1..n
        BY <1>2, <3>1
      <4>4. free'[k] = free[k] /\ (k # 1 => free'[k - 1] = free[k - 1])
        BY ONLY <1>3, <3>1, <4>3
      <4> QED
        BY <4>1, <4>2, <4>4
    <3>2. CASE k = n + 1
      <4>1. slot'[i] = free_head
        BY <1>1 DEF release, PoolTypeOK
      <4>2. free_head = IF n = 0 THEN Null ELSE free[n]
        BY <1>1, <1>2 DEF FreeListIsExact, PoolTypeOK
      <4> QED
        BY <1>2, <1>3, <3>2, <4>1, <4>2
    <3> QED
      BY <1>2, <1>3, <3>1, <3>2
  <2>5. live_count' = Capacity - Len(free')
    BY <1>1, <1>2, <1>3 DEF release, FreeListIsExact, PoolTypeOK
  <2> QED
    BY <2>1, <2>2, <2>3, <2>4, <2>5 DEF FreeListIsExact
<1>6. ObjectsIntact'
  BY <1>1 DEF release, ObjectsIntact, PoolTypeOK
<1> QED
  BY <1>4, <1>5, <1>6 DEF PoolInv

(* An owner that writes into its object touches no link.                   *)
LEMMA UseKeepsPool ==
    ASSUME PoolInv, NEW i \in Slots, NEW x \in Objects, use(i, x)
    PROVE  PoolInv'
<1>1. PoolTypeOK /\ FreeListIsExact /\ ObjectsIntact
  BY DEF PoolInv
<1>2. PoolTypeOK'
  BY <1>1 DEF use, PoolTypeOK
<1>3. \A j \in Slots : held'[j] = Vacant <=> held[j] = Vacant
  BY <1>1 DEF use, PoolTypeOK
<1>4. ASSUME NEW k \in 1..Len(free) PROVE slot'[free[k]] = slot[free[k]]
  <2>1. free[k] \in Slots /\ held[free[k]] = Vacant
    BY <1>1 DEF FreeListIsExact, PoolTypeOK
  <2> QED
    BY <1>1, <2>1 DEF use, PoolTypeOK
<1>5. FreeListIsExact'
  BY <1>1, <1>3, <1>4 DEF use, FreeListIsExact
<1>6. ObjectsIntact'
  BY <1>1 DEF use, ObjectsIntact, PoolTypeOK
<1> QED
  BY <1>2, <1>5, <1>6 DEF PoolInv

LEMMA PoolInvInductive == PoolInv /\ [PoolNext]_poolVars => PoolInv'
<1> SUFFICES ASSUME PoolInv, [PoolNext]_poolVars PROVE PoolInv'
  OBVIOUS
<1>1. CASE acquire_exhausted
  BY <1>1 DEF PoolInv, PoolTypeOK, FreeListIsExact, ObjectsIntact, acquire_exhausted
<1>2. CASE \E x \in Objects : acquire(x)
  BY <1>2, AcquireKeepsPool
<1>6. CASE acquire_throwing
  BY <1>6, AcquireKeepsPool DEF acquire_throwing
<1>3. CASE \E i \in Slots : release(i)
  BY <1>3, ReleaseKeepsPool
<1>4. CASE \E i \in Slots : \E x \in Objects : use(i, x)
  BY <1>4, UseKeepsPool
<1>5. CASE UNCHANGED poolVars
  BY <1>5 DEF PoolInv, PoolTypeOK, FreeListIsExact, ObjectsIntact, poolVars
<1> QED
  BY <1>1, <1>2, <1>3, <1>4, <1>5, <1>6 DEF PoolNext

(* Whatever is acquired, used and released, and in whatever order, the     *)
(* links in the storage lead through exactly the slots that are not taken. *)
THEOREM FreeListExact == PoolSpec => []FreeListIsExact
<1>1. PoolInv => FreeListIsExact
  BY DEF PoolInv
<1> QED
  BY InitPool, PoolInvInductive, <1>1, PTL DEF PoolSpec

(* ... and no link is ever written over an object that has an owner.       *)
THEOREM ObjectsStayIntact == PoolSpec => []ObjectsIntact
<1>1. PoolInv => ObjectsIntact
  BY DEF PoolInv
<1> QED
  BY InitPool, PoolInvInductive, <1>1, PTL DEF PoolSpec
=============================================================================
