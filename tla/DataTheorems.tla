---------------------------- MODULE DataTheorems ----------------------------
(***************************************************************************)
(* Facts about numbers, sums over finite sets and folds over sequences     *)
(* that the proofs of several components rest on.                          *)
(*                                                                         *)
(* The sum of the community modules takes the elements of a set in an      *)
(* order that CHOOSE decides.  The central fact here is that the order     *)
(* does not matter: any element may be taken first (SumRemove).            *)
(***************************************************************************)
EXTENDS Integers, Functions, FiniteSetsExt, FiniteSetTheorems, WellFoundedInduction, TLAPS

-----------------------------------------------------------------------------
(* Numbers *)

(* A set of naturals has a least element, and Min is it.                   *)
LEMMA MinOfNaturals ==
    ASSUME NEW S \in SUBSET Nat, S # {}
    PROVE  Min(S) \in S /\ \A y \in S : Min(S) <= y
<1>1. \E x \in S : \A y \in S : ~ (<<y, x>> \in OpToRel(<, Nat))
  BY NatLessThanWellFounded, WFMin
<1>2. \A x, y \in Nat : y < x => <<y, x>> \in OpToRel(<, Nat)
  BY Zenon DEF OpToRel
<1>3. PICK x \in S : \A y \in S : ~ (<<y, x>> \in OpToRel(<, Nat))
  BY <1>1
<1>4. \A y \in S : ~ (y < x)
  BY <1>2, <1>3
<1>5. \A y \in S : x <= y
  BY <1>4
<1> QED BY <1>5 DEF Min

(* A set of naturals has a least element.                                  *)
LEMMA LeastNatural ==
    ASSUME NEW S \in SUBSET Nat, S # {}
    PROVE  \E x \in S : \A y \in S : x <= y
BY MinOfNaturals

(* Min of two integers.                                                    *)
LEMMA MinOfTwo == \A a, b \in Int : Min({a, b}) = IF a <= b THEN a ELSE b
<1> TAKE a, b \in Int
<1> DEFINE m == IF a <= b THEN a ELSE b
<1>1. m \in {a, b} /\ \A y \in {a, b} : m <= y
  OBVIOUS
<1>2. \A x \in {a, b} : (\A y \in {a, b} : x <= y) => x = m
  BY <1>1
<1> QED BY <1>1, <1>2 DEF Min

(* Max of two integers.                                                    *)
LEMMA MaxOfTwo == \A a, b \in Int : Max({a, b}) = IF a >= b THEN a ELSE b
<1> TAKE a, b \in Int
<1> DEFINE m == IF a >= b THEN a ELSE b
<1>1. m \in {a, b} /\ \A y \in {a, b} : m >= y
  OBVIOUS
<1>2. \A x \in {a, b} : (\A y \in {a, b} : x >= y) => x = m
  BY <1>1
<1> QED BY <1>1, <1>2 DEF Max

(* A bounded set of naturals has a greatest element, and Max is it.        *)
LEMMA MaxOfNaturals ==
    ASSUME NEW n \in Nat, NEW S \in SUBSET (1 .. n), S # {}
    PROVE  Max(S) \in S /\ \A y \in S : Max(S) >= y
<1> DEFINE T == {n - x : x \in S}
<1>0. \A x \in S : x \in Nat /\ n - x \in Nat
  OBVIOUS
<1>1. T \in SUBSET Nat /\ T # {}
  BY <1>0
<1>2. PICK z \in T : \A y \in T : z <= y
  BY <1>1, MinOfNaturals
<1>3. \E x \in S : \A y \in S : x >= y
  <2>1. PICK x \in S : z = n - x
    OBVIOUS
  <2>2. \A y \in S : n - y \in T
    OBVIOUS
  <2>3. \A y \in S : z <= n - y
    BY <1>2, <2>2
  <2>4. \A y \in S : x >= y
    BY <1>0, <2>1, <2>3
  <2> QED BY <2>4
<1> QED BY <1>3 DEF Max

(* Induction, for a property given as the set of numbers that have it.     *)
LEMMA Induction ==
    ASSUME NEW S \in SUBSET Nat, 0 \in S, \A n \in S : n + 1 \in S
    PROVE  S = Nat
<1> SUFFICES ASSUME Nat \ S # {} PROVE FALSE
  OBVIOUS
<1>1. PICK m \in Nat \ S : \A k \in Nat \ S : m <= k
  BY MinOfNaturals
<1>2. m # 0 /\ m - 1 \in Nat /\ m - 1 \notin Nat \ S
  BY <1>1
<1> QED BY <1>1, <1>2

(* A product grows with its factors.                                       *)
LEMMA ProductOrder ==
    ASSUME NEW d \in Nat, NEW y \in Int, NEW z \in Int, y <= z
    PROVE  d * y <= d * z
<1> DEFINE e == z - y
<1>1. e \in Nat /\ z = y + e
  OBVIOUS
<1> HIDE DEF e
<1>2. d * (y + e) = d * y + d * e /\ d * e \in Nat /\ d * y \in Int
  BY <1>1
<1> QED BY <1>1, <1>2

-----------------------------------------------------------------------------
(* Sums *)

(* A smaller set after taking an element away.                             *)
LEMMA OneLess ==
    ASSUME NEW S, IsFiniteSet(S), NEW x \in S
    PROVE  /\ IsFiniteSet(S \ {x})
           /\ Cardinality(S) \in Nat /\ Cardinality(S \ {x}) \in Nat
           /\ Cardinality(S) = Cardinality(S \ {x}) + 1
<1>1. IsFiniteSet(S \ {x}) /\ Cardinality(S \ {x}) = Cardinality(S) - 1
  BY FS_RemoveElement
<1> QED BY <1>1, FS_CardinalityType

LEMMA NoneLeft ==
    ASSUME NEW S, IsFiniteSet(S)
    PROVE  Cardinality(S) = 0 <=> S = {}
BY FS_EmptySet

LEMMA IndicesFinite == ASSUME NEW m \in Nat PROVE IsFiniteSet(1 .. m)
BY FS_Interval

(* g is the recursion by which the sum of f over S is defined.             *)
Sums(g, f, S) ==
    g = [s \in SUBSET S |->
           IF s = {} THEN 0 ELSE f[CHOOSE y \in s : TRUE] + g[s \ {CHOOSE y \in s : TRUE}]]

(* The equation at one set.                                                *)
SumsAt(g, f, s) ==
    g[s] = IF s = {} THEN 0
           ELSE f[CHOOSE y \in s : TRUE] + g[s \ {CHOOSE y \in s : TRUE}]

LEMMA SumsAtAll ==
    ASSUME NEW g, NEW f, NEW S, g = [s \in SUBSET S |-> g[s]],
           \A s \in SUBSET S : SumsAt(g, f, s)
    PROVE  Sums(g, f, S)
<1> DEFINE h == [s \in SUBSET S |->
                   IF s = {} THEN 0
                   ELSE f[CHOOSE y \in s : TRUE] + g[s \ {CHOOSE y \in s : TRUE}]]
<1>1. \A s \in SUBSET S : g[s] = h[s]
  BY DEF SumsAt
<1>2. g = h
  BY <1>1, Zenon
<1> QED BY <1>2, Zenon DEF Sums

LEMMA SumsAtEach ==
    ASSUME NEW g, NEW f, NEW S, Sums(g, f, S), NEW s \in SUBSET S
    PROVE  SumsAt(g, f, s)
BY Zenon DEF Sums, SumsAt

(* The recursion has a solution.                                           *)
LEMMA SumsExist ==
    ASSUME NEW f, NEW S, IsFiniteSet(S)
    PROVE  \E g : Sums(g, f, S)
<1> DEFINE Upto(n, g) == /\ g = [s \in SUBSET S |-> g[s]]
                         /\ \A s \in SUBSET S : Cardinality(s) <= n => SumsAt(g, f, s)
           Good == {n \in Nat : \E g : Upto(n, g)}
<1>0. \A s \in SUBSET S : IsFiniteSet(s) /\ Cardinality(s) \in Nat
  BY FS_Subset, FS_CardinalityType
<1>1. 0 \in Good
  <2> DEFINE g == [s \in SUBSET S |-> 0]
  <2>1. \A s \in SUBSET S : Cardinality(s) <= 0 => s = {}
    BY <1>0, NoneLeft
  <2>2. Upto(0, g)
    BY <2>1 DEF SumsAt
  <2> HIDE DEF Upto, g
  <2> QED BY <2>2
<1>2. ASSUME NEW n \in Good PROVE n + 1 \in Good
  <2>1. PICK g : Upto(n, g)
    OBVIOUS
  <2> DEFINE c(s) == CHOOSE y \in s : TRUE
             h == [s \in SUBSET S |->
                     IF s = {} THEN 0 ELSE f[c(s)] + g[s \ {c(s)}]]
  <2>2. \A s \in SUBSET S : Cardinality(s) <= n => h[s] = g[s]
    BY <2>1 DEF SumsAt
  <2>3. ASSUME NEW s \in SUBSET S, Cardinality(s) <= n + 1
        PROVE  SumsAt(h, f, s)
    <3>1. CASE s = {}
      BY <3>1 DEF SumsAt
    <3>2. CASE s # {}
      <4>1. c(s) \in s
        BY <3>2
      <4>2. s \ {c(s)} \in SUBSET S /\ Cardinality(s \ {c(s)}) <= n
        <5>1. Cardinality(s) = Cardinality(s \ {c(s)}) + 1
          BY <1>0, <4>1, OneLess
        <5>2. n \in Nat /\ Cardinality(s) \in Nat /\ Cardinality(s \ {c(s)}) \in Nat
          BY <1>0
        <5> QED BY <2>3, <5>1, <5>2
      <4>3. h[s \ {c(s)}] = g[s \ {c(s)}]
        BY <2>2, <4>2
      <4>4. h[s] = f[c(s)] + g[s \ {c(s)}]
        BY <3>2
      <4> QED BY <3>2, <4>3, <4>4 DEF SumsAt
    <3> QED BY <3>1, <3>2
  <2>4. h = [s \in SUBSET S |-> h[s]]
    OBVIOUS
  <2> HIDE DEF h
  <2>5. Upto(n + 1, h)
    BY <2>3, <2>4
  <2> HIDE DEF Upto
  <2> QED BY <2>5
<1> DEFINE m == Cardinality(S)
<1>3. m \in Nat /\ \A s \in SUBSET S : Cardinality(s) <= m
  BY FS_Subset, FS_CardinalityType
<1>4. m \in Good
  <2> HIDE DEF Good
  <2>1. Good \in SUBSET Nat
    BY DEF Good
  <2>2. Good = Nat
    BY <1>1, <1>2, <2>1, Induction
  <2> QED BY <1>3, <2>2
<1>5. PICK g : Upto(m, g)
  BY <1>4
<1>6. Sums(g, f, S)
  BY <1>3, <1>5, SumsAtAll
<1> QED BY <1>6

(* A sum is the value of any solution over any larger set.                 *)
LEMMA SumIs ==
    ASSUME NEW f, NEW S, IsFiniteSet(S), NEW g, Sums(g, f, S), NEW T \in SUBSET S
    PROVE  SumFunctionOnSet(f, T) = g[T]
<1> DEFINE h == CHOOSE h : Sums(h, f, T)
<1>1. IsFiniteSet(T)
  BY FS_Subset
<1>2. Sums(h, f, T)
  BY <1>1, SumsExist
<1>3. SumFunctionOnSet(f, T) = h[T]
  BY Zenon DEF Sums, SumFunctionOnSet, FoldFunctionOnSet, MapThenFoldSet
<1> HIDE DEF h
<1> DEFINE Same == {n \in Nat : \A s \in SUBSET T : Cardinality(s) = n => g[s] = h[s]}
<1>4. \A s \in SUBSET T : /\ IsFiniteSet(s) /\ Cardinality(s) \in Nat
                          /\ SumsAt(g, f, s) /\ SumsAt(h, f, s)
  <2>1. SUBSET T \subseteq SUBSET S
    OBVIOUS
  <2> QED BY <1>1, <1>2, <2>1, FS_Subset, FS_CardinalityType, SumsAtEach
<1>5. 0 \in Same
  <2>1. \A s \in SUBSET T : Cardinality(s) = 0 => s = {}
    BY <1>4, NoneLeft
  <2> QED BY <1>4, <2>1 DEF SumsAt
<1>6. ASSUME NEW n \in Same PROVE n + 1 \in Same
  <2> SUFFICES ASSUME NEW s \in SUBSET T, Cardinality(s) = n + 1
               PROVE  g[s] = h[s]
    OBVIOUS
  <2> DEFINE c == CHOOSE y \in s : TRUE
  <2>1. s # {}
    <3>1. n \in Nat /\ n + 1 # 0
      OBVIOUS
    <3> QED BY <1>4, <3>1, NoneLeft
  <2>2. c \in s
    BY <2>1
  <2>3. s \ {c} \in SUBSET T /\ Cardinality(s \ {c}) = n
    <3>1. /\ Cardinality(s) = Cardinality(s \ {c}) + 1
          /\ Cardinality(s \ {c}) \in Nat
      BY <1>4, <2>2, OneLess
    <3> QED BY <3>1
  <2>4. g[s \ {c}] = h[s \ {c}]
    BY <2>3
  <2>5. g[s] = f[c] + g[s \ {c}] /\ h[s] = f[c] + h[s \ {c}]
    BY <1>4, <2>1 DEF SumsAt
  <2> QED BY <2>4, <2>5
<1>7. Cardinality(T) \in Same
  <2> HIDE DEF Same
  <2>1. Same \in SUBSET Nat
    BY DEF Same
  <2>2. Same = Nat
    BY <1>5, <1>6, <2>1, Induction
  <2> QED BY <1>4, <2>2
<1>8. g[T] = h[T]
  BY <1>7
<1> QED BY <1>3, <1>8

(* The sum over no element is 0.                                           *)
LEMMA SumEmpty == ASSUME NEW f PROVE SumFunctionOnSet(f, {}) = 0
<1>1. IsFiniteSet({})
  BY FS_EmptySet
<1>2. PICK g : Sums(g, f, {})
  BY <1>1, SumsExist
<1>3. SumsAt(g, f, {})
  BY <1>2, SumsAtEach
<1> QED BY <1>1, <1>2, <1>3, SumIs DEF SumsAt

(* Some element can be taken out of a sum.                                 *)
LEMMA SumTake ==
    ASSUME NEW f, NEW S, IsFiniteSet(S), S # {}
    PROVE  \E x \in S :
              SumFunctionOnSet(f, S) = f[x] + SumFunctionOnSet(f, S \ {x})
<1> DEFINE c == CHOOSE y \in S : TRUE
<1>1. c \in S
  OBVIOUS
<1>2. PICK g : Sums(g, f, S)
  BY SumsExist
<1>3. SumsAt(g, f, S)
  BY <1>2, SumsAtEach
<1>4. g[S] = f[c] + g[S \ {c}]
  BY <1>3 DEF SumsAt
<1> HIDE DEF c
<1>5. SumFunctionOnSet(f, S) = g[S] /\ SumFunctionOnSet(f, S \ {c}) = g[S \ {c}]
  <2>1. S \in SUBSET S /\ S \ {c} \in SUBSET S
    OBVIOUS
  <2> QED BY <1>2, <2>1, SumIs
<1> QED BY <1>1, <1>4, <1>5

(* A sum of integers, or of naturals, is one.                              *)
LEMMA SumType ==
    ASSUME NEW V, V \in {Nat, Int}, NEW f, NEW S, IsFiniteSet(S), \A x \in S : f[x] \in V
    PROVE  SumFunctionOnSet(f, S) \in V
<1> DEFINE Good == {n \in Nat : \A s \in SUBSET S :
                       Cardinality(s) = n => SumFunctionOnSet(f, s) \in V}
<1>1. \A s \in SUBSET S : IsFiniteSet(s) /\ Cardinality(s) \in Nat
  BY FS_Subset, FS_CardinalityType
<1>2. 0 \in Good
  <2>1. \A s \in SUBSET S : Cardinality(s) = 0 => s = {}
    BY <1>1, NoneLeft
  <2> QED BY <2>1, SumEmpty
<1>3. ASSUME NEW n \in Good PROVE n + 1 \in Good
  <2> SUFFICES ASSUME NEW s \in SUBSET S, Cardinality(s) = n + 1
               PROVE  SumFunctionOnSet(f, s) \in V
    OBVIOUS
  <2>1. s # {}
    <3>1. n \in Nat /\ n + 1 # 0
      OBVIOUS
    <3> QED BY <1>1, <3>1, NoneLeft
  <2>2. PICK x \in s : SumFunctionOnSet(f, s) = f[x] + SumFunctionOnSet(f, s \ {x})
    BY <1>1, <2>1, SumTake
  <2>3. s \ {x} \in SUBSET S /\ Cardinality(s \ {x}) = n
    <3>1. Cardinality(s) = Cardinality(s \ {x}) + 1 /\ Cardinality(s \ {x}) \in Nat
      BY <1>1, OneLess
    <3> QED BY <3>1
  <2>4. SumFunctionOnSet(f, s \ {x}) \in V /\ f[x] \in V
    BY <2>3
  <2> QED BY <2>2, <2>4
<1>4. Cardinality(S) \in Good
  <2> HIDE DEF Good
  <2>1. Good \in SUBSET Nat
    BY DEF Good
  <2> QED BY <1>1, <1>2, <1>3, <2>1, Induction
<1> QED BY <1>4

LEMMA SumInt ==
    ASSUME NEW f, NEW S, IsFiniteSet(S), \A x \in S : f[x] \in Int
    PROVE  SumFunctionOnSet(f, S) \in Int
<1>1. Int \in {Nat, Int}
  OBVIOUS
<1> QED BY <1>1, SumType, Zenon

LEMMA SumNat ==
    ASSUME NEW f, NEW S, IsFiniteSet(S), \A x \in S : f[x] \in Nat
    PROVE  SumFunctionOnSet(f, S) \in Nat
<1>1. Nat \in {Nat, Int}
  OBVIOUS
<1> QED BY <1>1, SumType, Zenon

(* Any element can be taken out of a sum: the order does not matter.       *)
LEMMA SumRemove ==
    ASSUME NEW f, NEW S, IsFiniteSet(S), \A x \in S : f[x] \in Int, NEW a \in S
    PROVE  SumFunctionOnSet(f, S) = f[a] + SumFunctionOnSet(f, S \ {a})
<1> DEFINE Any(s) == \A x \in s : SumFunctionOnSet(f, s)
                                     = f[x] + SumFunctionOnSet(f, s \ {x})
           Good == {n \in Nat : \A s \in SUBSET S : Cardinality(s) = n => Any(s)}
<1>1. \A s \in SUBSET S : /\ IsFiniteSet(s) /\ Cardinality(s) \in Nat
                          /\ SumFunctionOnSet(f, s) \in Int
  <2> TAKE s \in SUBSET S
  <2>1. IsFiniteSet(s) /\ \A x \in s : f[x] \in Int
    BY FS_Subset
  <2> QED BY <2>1, FS_CardinalityType, SumInt
<1>2. 0 \in Good
  <2>1. \A s \in SUBSET S : Cardinality(s) = 0 => s = {}
    BY <1>1, NoneLeft
  <2> QED BY <2>1
<1>3. ASSUME NEW n \in Good PROVE n + 1 \in Good
  <2> SUFFICES ASSUME NEW s \in SUBSET S, Cardinality(s) = n + 1, NEW x \in s
               PROVE  SumFunctionOnSet(f, s) = f[x] + SumFunctionOnSet(f, s \ {x})
    OBVIOUS
  <2>1. PICK y \in s : SumFunctionOnSet(f, s) = f[y] + SumFunctionOnSet(f, s \ {y})
    BY <1>1, SumTake
  <2>2. CASE y = x
    BY <2>1, <2>2
  <2>3. CASE y # x
    <3>1. \A z \in s : s \ {z} \in SUBSET S /\ Cardinality(s \ {z}) = n
      <4> TAKE z \in s
      <4>1. Cardinality(s) = Cardinality(s \ {z}) + 1 /\ Cardinality(s \ {z}) \in Nat
        BY <1>1, OneLess
      <4>2. n \in Nat
        BY <1>3
      <4>3. Cardinality(s \ {z}) = n
        BY <4>1, <4>2
      <4> QED BY <4>3
    <3>2. \A z \in s : Any(s \ {z})
      <4> HIDE DEF Any
      <4> QED BY <3>1
    <3>3. SumFunctionOnSet(f, s \ {y})
             = f[x] + SumFunctionOnSet(f, (s \ {y}) \ {x})
      BY <2>3, <3>2
    <3>4. SumFunctionOnSet(f, s \ {x})
             = f[y] + SumFunctionOnSet(f, (s \ {x}) \ {y})
      BY <2>3, <3>2
    <3>5. (s \ {y}) \ {x} = (s \ {x}) \ {y} /\ (s \ {x}) \ {y} \in SUBSET S
      OBVIOUS
    <3> DEFINE r == SumFunctionOnSet(f, (s \ {x}) \ {y})
    <3>6. r \in Int /\ f[x] \in Int /\ f[y] \in Int
      BY <1>1, <3>5
    <3>7. SumFunctionOnSet(f, s \ {y}) = f[x] + r /\ SumFunctionOnSet(f, s \ {x}) = f[y] + r
      BY <3>3, <3>4, <3>5
    <3> HIDE DEF r
    <3> QED BY <2>1, <3>6, <3>7
  <2> QED BY <2>2, <2>3
<1>4. Cardinality(S) \in Good
  <2> HIDE DEF Good
  <2>1. Good \in SUBSET Nat
    BY DEF Good
  <2> QED BY <1>1, <1>2, <1>3, <2>1, Induction
<1> QED BY <1>4

LEMMA SumAdd ==
    ASSUME NEW f, NEW S, IsFiniteSet(S), NEW a, a \notin S,
           \A x \in S \cup {a} : f[x] \in Int
    PROVE  SumFunctionOnSet(f, S \cup {a}) = f[a] + SumFunctionOnSet(f, S)
<1>1. IsFiniteSet(S \cup {a}) /\ a \in S \cup {a} /\ (S \cup {a}) \ {a} = S
  BY FS_AddElement
<1>2. SumFunctionOnSet(f, S \cup {a}) = f[a] + SumFunctionOnSet(f, (S \cup {a}) \ {a})
  BY <1>1, SumRemove
<1> QED BY <1>1, <1>2

(* The sum over one element is its value.                                  *)
LEMMA SumSingleton ==
    ASSUME NEW f, NEW a, f[a] \in Int
    PROVE  SumFunctionOnSet(f, {a}) = f[a]
<1>1. IsFiniteSet({}) /\ {} \cup {a} = {a}
  BY FS_EmptySet
<1>2. SumFunctionOnSet(f, {} \cup {a}) = f[a] + SumFunctionOnSet(f, {})
  BY <1>1, SumAdd
<1> QED BY <1>1, <1>2, SumEmpty

(* Sums are linear.                                                        *)
LEMMA SumLinear ==
    ASSUME NEW S, IsFiniteSet(S), NEW f, NEW g, NEW h, NEW c \in Int,
           \A x \in S : f[x] \in Int /\ g[x] \in Int /\ h[x] = f[x] + c * g[x]
    PROVE  SumFunctionOnSet(h, S) = SumFunctionOnSet(f, S) + c * SumFunctionOnSet(g, S)
<1> DEFINE F(s) == SumFunctionOnSet(f, s)
           G(s) == SumFunctionOnSet(g, s)
           H(s) == SumFunctionOnSet(h, s)
           Good == {n \in Nat : \A s \in SUBSET S :
                       Cardinality(s) = n => H(s) = F(s) + c * G(s)}
<1>0. \A x \in S : h[x] \in Int
  OBVIOUS
<1>1. ASSUME NEW s \in SUBSET S
      PROVE  /\ IsFiniteSet(s) /\ Cardinality(s) \in Nat
             /\ F(s) \in Int /\ G(s) \in Int /\ H(s) \in Int
             /\ \A x \in s : /\ F(s) = f[x] + F(s \ {x})
                             /\ G(s) = g[x] + G(s \ {x})
                             /\ H(s) = h[x] + H(s \ {x})
  <2>1. /\ IsFiniteSet(s) /\ \A x \in s : f[x] \in Int /\ g[x] \in Int /\ h[x] \in Int
    BY <1>0, FS_Subset
  <2>2. Cardinality(s) \in Nat
    BY <2>1, FS_CardinalityType
  <2>3. F(s) \in Int /\ G(s) \in Int /\ H(s) \in Int
    BY <2>1, SumInt
  <2>4. ASSUME NEW x \in s
        PROVE  /\ F(s) = f[x] + F(s \ {x})
               /\ G(s) = g[x] + G(s \ {x})
               /\ H(s) = h[x] + H(s \ {x})
    BY <2>1, SumRemove
  <2> QED BY <2>1, <2>2, <2>3, <2>4
<1>2. 0 \in Good
  <2>1. \A s \in SUBSET S : Cardinality(s) = 0 => s = {}
    BY <1>1, NoneLeft
  <2>2. H({}) = 0 /\ F({}) = 0 /\ G({}) = 0
    BY SumEmpty
  <2> HIDE DEF F, G, H
  <2>3. H({}) = F({}) + c * G({})
    BY <2>2
  <2> QED BY <2>1, <2>3
<1> HIDE DEF F, G, H
<1>3. ASSUME NEW n \in Good PROVE n + 1 \in Good
  <2> SUFFICES ASSUME NEW s \in SUBSET S, Cardinality(s) = n + 1
               PROVE  H(s) = F(s) + c * G(s)
    OBVIOUS
  <2>0. n \in Nat
    OBVIOUS
  <2>1. s # {}
    <3>1. n + 1 # 0
      BY <2>0
    <3> QED BY <1>1, <3>1, NoneLeft
  <2>2. PICK x \in s : TRUE
    BY <2>1
  <2> DEFINE t == s \ {x}
  <2>3. t \in SUBSET S /\ Cardinality(t) = n
    <3>1. Cardinality(s) = Cardinality(s \ {x}) + 1 /\ Cardinality(s \ {x}) \in Nat
      BY <1>1, OneLess
    <3> QED BY <2>0, <3>1
  <2>4. H(t) = F(t) + c * G(t)
    BY <2>3
  <2>5. F(s) = f[x] + F(t) /\ G(s) = g[x] + G(t) /\ H(s) = h[x] + H(t)
    BY <1>1
  <2>6. F(t) \in Int /\ G(t) \in Int /\ f[x] \in Int /\ g[x] \in Int
    BY <1>1, <2>3
  <2>7. h[x] = f[x] + c * g[x]
    OBVIOUS
  <2> HIDE DEF t
  <2>8. c * (g[x] + G(t)) = c * g[x] + c * G(t)
    BY <2>6
  <2>9. c * g[x] \in Int /\ c * G(t) \in Int
    BY <2>6
  <2> QED BY <2>4, <2>5, <2>6, <2>7, <2>8, <2>9
<1>4. Cardinality(S) \in Good
  <2>0. Cardinality(S) \in Nat
    BY FS_CardinalityType
  <2> HIDE DEF Good
  <2>1. Good \in SUBSET Nat
    BY DEF Good
  <2>2. Good = Nat
    BY <1>2, <1>3, <2>1, Induction
  <2> QED BY <2>0, <2>2
<1>5. H(S) = F(S) + c * G(S)
  BY <1>4
<1> QED BY <1>5 DEF F, G, H

(* A common factor.                                                        *)
LEMMA SumScale ==
    ASSUME NEW S, IsFiniteSet(S), NEW g, NEW h, NEW c \in Int,
           \A x \in S : g[x] \in Int /\ h[x] = c * g[x]
    PROVE  SumFunctionOnSet(h, S) = c * SumFunctionOnSet(g, S)
<1>1. \A x \in S : g[x] \in Int
  OBVIOUS
<1>2. SumFunctionOnSet(g, S) \in Int
  BY <1>1, SumInt
<1>3. \A y \in Int : y + (c - 1) * y = c * y
  OBVIOUS
<1>4. c - 1 \in Int
  OBVIOUS
<1>5. ASSUME NEW x \in S PROVE g[x] \in Int /\ h[x] = g[x] + (c - 1) * g[x]
  <2>1. g[x] \in Int /\ h[x] = c * g[x]
    OBVIOUS
  <2>2. g[x] + (c - 1) * g[x] = c * g[x]
    BY <1>3, <2>1
  <2> QED BY <2>1, <2>2
<1>6. SumFunctionOnSet(h, S) = SumFunctionOnSet(g, S) + (c - 1) * SumFunctionOnSet(g, S)
  BY <1>4, <1>5, SumLinear
<1> QED BY <1>2, <1>3, <1>6

(* Only the values in the set matter.                                      *)
LEMMA SumSame ==
    ASSUME NEW S, IsFiniteSet(S), NEW f, NEW g,
           \A x \in S : f[x] \in Int /\ g[x] = f[x]
    PROVE  SumFunctionOnSet(g, S) = SumFunctionOnSet(f, S)
<1>1. \A x \in S : f[x] \in Int /\ g[x] = f[x] + 0 * f[x]
  OBVIOUS
<1>2. SumFunctionOnSet(g, S) = SumFunctionOnSet(f, S) + 0 * SumFunctionOnSet(f, S)
  BY <1>1, SumLinear
<1>3. SumFunctionOnSet(f, S) \in Int
  BY SumInt
<1> QED BY <1>2, <1>3

(* Larger values have a larger sum.                                        *)
LEMMA SumMonotone ==
    ASSUME NEW S, IsFiniteSet(S), NEW f, NEW g,
           \A x \in S : f[x] \in Int /\ g[x] \in Int /\ f[x] <= g[x]
    PROVE  SumFunctionOnSet(f, S) <= SumFunctionOnSet(g, S)
<1> DEFINE h == [x \in S |-> g[x] - f[x]]
<1>1. \A x \in S : /\ g[x] \in Int /\ f[x] \in Int /\ h[x] \in Nat
                   /\ h[x] = g[x] + (-1) * f[x]
  OBVIOUS
<1> HIDE DEF h
<1>2. SumFunctionOnSet(h, S) = SumFunctionOnSet(g, S) + (-1) * SumFunctionOnSet(f, S)
  BY <1>1, SumLinear
<1>3. SumFunctionOnSet(h, S) \in Nat
  BY <1>1, SumNat
<1>4. SumFunctionOnSet(f, S) \in Int /\ SumFunctionOnSet(g, S) \in Int
  BY SumInt
<1> QED BY <1>2, <1>3, <1>4

(* One value changed.                                                      *)
LEMMA SumChange ==
    ASSUME NEW S, IsFiniteSet(S), NEW f, NEW g, NEW a \in S,
           \A x \in S : f[x] \in Int /\ g[x] \in Int,
           \A x \in S : x # a => g[x] = f[x]
    PROVE  SumFunctionOnSet(g, S) = SumFunctionOnSet(f, S) - f[a] + g[a]
<1> DEFINE T == S \ {a}
<1>1. IsFiniteSet(T)
  BY FS_RemoveElement
<1>2. /\ SumFunctionOnSet(g, S) = g[a] + SumFunctionOnSet(g, T)
      /\ SumFunctionOnSet(f, S) = f[a] + SumFunctionOnSet(f, T)
  BY SumRemove
<1>3. \A x \in T : f[x] \in Int /\ g[x] = f[x]
  OBVIOUS
<1> HIDE DEF T
<1>4. SumFunctionOnSet(g, T) = SumFunctionOnSet(f, T) /\ SumFunctionOnSet(f, T) \in Int
  <2>1. \A x \in T : f[x] \in Int
    BY <1>3
  <2> QED BY <1>1, <1>3, <2>1, SumSame, SumInt
<1>5. f[a] \in Int /\ g[a] \in Int
  OBVIOUS
<1> QED BY <1>2, <1>4, <1>5

(* A bijection carries a sum over.                                         *)
LEMMA SumImage ==
    ASSUME NEW S, IsFiniteSet(S), NEW b, NEW f, NEW h,
           \A x, y \in S : b[x] = b[y] => x = y,
           \A x \in S : f[b[x]] \in Int /\ h[x] = f[b[x]]
    PROVE  SumFunctionOnSet(h, S) = SumFunctionOnSet(f, {b[x] : x \in S})
<1> DEFINE Im(s) == {b[x] : x \in s}
           Even(s) == /\ IsFiniteSet(Im(s))
                      /\ SumFunctionOnSet(h, s) = SumFunctionOnSet(f, Im(s))
           Good == {n \in Nat : \A s \in SUBSET S : Cardinality(s) = n => Even(s)}
<1>1. \A s \in SUBSET S : IsFiniteSet(s) /\ Cardinality(s) \in Nat
  BY FS_Subset, FS_CardinalityType
<1>2. 0 \in Good
  <2>1. \A s \in SUBSET S : Cardinality(s) = 0 => s = {}
    BY <1>1, NoneLeft
  <2>2. Im({}) = {}
    OBVIOUS
  <2>3. Even({})
    BY <2>2, SumEmpty, FS_EmptySet
  <2> HIDE DEF Even
  <2> QED BY <2>1, <2>3
<1>3. ASSUME NEW n \in Good PROVE n + 1 \in Good
  <2> SUFFICES ASSUME NEW s \in SUBSET S, Cardinality(s) = n + 1 PROVE Even(s)
    <3> HIDE DEF Even
    <3> QED OBVIOUS
  <2>0. n \in Nat
    OBVIOUS
  <2>1. s # {}
    <3>1. n + 1 # 0
      BY <2>0
    <3> QED BY <1>1, <3>1, NoneLeft
  <2>2. PICK x \in s : TRUE
    BY <2>1
  <2> DEFINE t == s \ {x}
  <2>3. t \in SUBSET S /\ Cardinality(t) = n /\ IsFiniteSet(s)
    <3>1. Cardinality(s) = Cardinality(s \ {x}) + 1 /\ Cardinality(s \ {x}) \in Nat
      BY <1>1, OneLess
    <3> QED BY <1>1, <2>0, <3>1
  <2>4. Even(t)
    <3> HIDE DEF Even, t
    <3> QED BY <2>3
  <2>5. b[x] \notin Im(t) /\ Im(s) = Im(t) \cup {b[x]}
    OBVIOUS
  <2>6. \A y \in Im(t) \cup {b[x]} : f[y] \in Int
    OBVIOUS
  <2>7. \A y \in s : h[y] \in Int
    OBVIOUS
  <2>8. SumFunctionOnSet(h, s) = h[x] + SumFunctionOnSet(h, t)
    BY <2>3, <2>7, SumRemove
  <2>9. IsFiniteSet(Im(t)) /\ SumFunctionOnSet(h, t) = SumFunctionOnSet(f, Im(t))
    BY <2>4
  <2>10. h[x] = f[b[x]]
    OBVIOUS
  <2> HIDE DEF Im
  <2>11. SumFunctionOnSet(f, Im(t) \cup {b[x]}) = f[b[x]] + SumFunctionOnSet(f, Im(t))
    BY <2>5, <2>6, <2>9, SumAdd
  <2>12. IsFiniteSet(Im(t) \cup {b[x]})
    BY <2>9, FS_AddElement
  <2> QED BY <2>5, <2>8, <2>9, <2>10, <2>11, <2>12
<1>4. Cardinality(S) \in Good
  <2> HIDE DEF Good
  <2>1. Good \in SUBSET Nat
    BY DEF Good
  <2> QED BY <1>1, <1>2, <1>3, <2>1, Induction
<1>5. Even(S)
  BY <1>4
<1> QED BY <1>5

-----------------------------------------------------------------------------
(* Powers of two, which are the numbers of subsets *)

LEMMA SubsetsOfIndices ==
    ASSUME NEW m \in Nat
    PROVE  /\ IsFiniteSet(SUBSET (1 .. m)) /\ Cardinality(SUBSET (1 .. m)) = 2^m
           /\ 2^m \in Nat
<1>1. IsFiniteSet(1 .. m) /\ Cardinality(1 .. m) = m
  BY FS_Interval
<1>2. IsFiniteSet(SUBSET (1 .. m)) /\ Cardinality(SUBSET (1 .. m)) = 2^m
  BY <1>1, FS_SUBSET
<1> QED BY <1>2, FS_CardinalityType

LEMMA PowerZero == 2^0 = 1
<1>1. 1 .. 0 = {} /\ SUBSET (1 .. 0) = {{}}
  OBVIOUS
<1>2. Cardinality({{}}) = 1
  BY FS_Singleton
<1> QED BY <1>1, <1>2, SubsetsOfIndices

LEMMA PowerNext == ASSUME NEW m \in Nat PROVE 2^(m + 1) = 2 * 2^m
<1> DEFINE k == m + 1
           A == SUBSET (1 .. m)
           b == [s \in A |-> s \cup {k}]
           B == {s \cup {k} : s \in A}
<1>0. k \in Nat /\ k \notin 1 .. m /\ 1 .. k = (1 .. m) \cup {k}
  OBVIOUS
<1>1. /\ IsFiniteSet(A) /\ Cardinality(A) = 2^m /\ 2^m \in Nat
      /\ Cardinality(SUBSET (1 .. k)) = 2^k
  BY <1>0, SubsetsOfIndices
<1>2. b \in Bijection(A, B)
  <2>1. b \in [A -> B]
    OBVIOUS
  <2>2. \A s, t \in A : b[s] = b[t] => s = t
    <3> SUFFICES ASSUME NEW s \in A, NEW t \in A, s \cup {k} = t \cup {k} PROVE s = t
      OBVIOUS
    <3>1. k \notin s /\ k \notin t
      BY <1>0
    <3> QED BY <3>1
  <2>3. \A y \in B : \E s \in A : b[s] = y
    OBVIOUS
  <2> QED BY <2>1, <2>2, <2>3 DEF Bijection, Injection, Surjection, IsInjective
<1>3. IsFiniteSet(B) /\ Cardinality(B) = Cardinality(A)
  <2>1. ExistsBijection(A, B)
    BY <1>2 DEF ExistsBijection
  <2> QED BY <1>1, <2>1, FS_Bijection
<1>4. A \cap B = {} /\ A \cup B = SUBSET (1 .. k)
  <2>1. A \cap B = {}
    BY <1>0
  <2>2. ASSUME NEW s \in SUBSET (1 .. k), s \notin A PROVE s \in B
    <3>1. k \in s /\ s \ {k} \in A
      <4>1. \A x \in s : x \in 1 .. m \/ x = k
        BY <1>0
      <4>2. \E x \in s : x \notin 1 .. m
        BY <2>2
      <4>3. k \in s
        BY <4>1, <4>2
      <4>4. \A x \in s \ {k} : x \in 1 .. m
        BY <4>1
      <4>5. s \ {k} \in A
        BY <4>4
      <4> QED BY <4>3, <4>5
    <3>2. s = (s \ {k}) \cup {k}
      BY <3>1
    <3> QED BY <3>1, <3>2
  <2>3. \A s \in B : s \in SUBSET (1 .. k)
    BY <1>0
  <2>4. \A s \in A : s \in SUBSET (1 .. k)
    BY <1>0
  <2> HIDE DEF A, B
  <2> QED BY <2>1, <2>2, <2>3, <2>4
<1> HIDE DEF A, B, b
<1>5. Cardinality(A \cup B) = Cardinality(A) + Cardinality(B) - Cardinality(A \cap B)
  BY <1>1, <1>3, FS_Union
<1>6. Cardinality({}) = 0
  BY FS_EmptySet
<1> DEFINE a == Cardinality(A)
           c == Cardinality(SUBSET (1 .. k))
<1>7. a = 2^m /\ a \in Nat /\ c = 2^(m + 1)
  BY <1>1
<1>8. c = a + a - 0
  BY <1>3, <1>4, <1>5, <1>6
<1> HIDE DEF a, c
<1>9. c = 2 * a
  BY <1>7, <1>8
<1> QED BY <1>7, <1>9

(* Powers of two are positive, ...                                         *)
LEMMA PowerPositive == \A m \in Nat : 2^m \in Nat \ {0}
<1> DEFINE Good == {m \in Nat : 2^m \in Nat \ {0}}
<1>1. 0 \in Good
  BY PowerZero
<1>2. ASSUME NEW m \in Good PROVE m + 1 \in Good
  <2>1. m \in Nat /\ m + 1 \in Nat /\ 2^m \in Nat \ {0}
    OBVIOUS
  <2>2. 2^(m + 1) = 2 * 2^m
    BY <2>1, PowerNext
  <2>3. 2^(m + 1) \in Nat \ {0}
    BY <2>1, <2>2
  <2> QED BY <2>1, <2>3
<1>3. Good \in SUBSET Nat /\ \A m \in Good : m + 1 \in Good
  BY <1>2
<1> HIDE DEF Good
<1>4. Good = Nat
  BY <1>1, <1>3, Induction
<1> QED BY <1>4 DEF Good

(* ... and grow with the exponent.                                         *)
LEMMA PowerGrows == ASSUME NEW a \in Nat, NEW b \in Nat, a <= b PROVE 2^a <= 2^b
<1> DEFINE Good == {d \in Nat : 2^a <= 2^(a + d)}
<1>1. 0 \in Good
  <2>1. a + 0 = a
    OBVIOUS
  <2>2. 2^a \in Nat
    BY PowerPositive
  <2> QED BY <2>1, <2>2
<1>2. ASSUME NEW d \in Good PROVE d + 1 \in Good
  <2>1. PICK m \in Nat : m = a + d
    OBVIOUS
  <2>2. 2^a \in Nat /\ 2^m \in Nat /\ 2^a <= 2^m /\ 2^(m + 1) = 2 * 2^m
    BY <2>1, PowerPositive, PowerNext
  <2>3. 2^a <= 2^(m + 1)
    BY <2>2
  <2>4. a + (d + 1) = m + 1
    BY <2>1
  <2> QED BY <2>3, <2>4
<1>3. Good \in SUBSET Nat /\ \A d \in Good : d + 1 \in Good
  BY <1>2
<1> HIDE DEF Good
<1>4. Good = Nat
  BY <1>1, <1>3, Induction
<1>5. b - a \in Good /\ a + (b - a) = b
  BY <1>4
<1> QED BY <1>5 DEF Good

(* What a quotient is.                                                     *)
LEMMA QuotientBounds ==
    ASSUME NEW v \in Nat, NEW w \in Nat \ {0}
    PROVE  v \div w \in Nat /\ w * (v \div w) <= v /\ v < w * (v \div w) + w
OBVIOUS

(* A quotient lies between the factors of which v is between the products. *)
LEMMA QuotientBetween ==
    ASSUME NEW v \in Nat, NEW w \in Nat \ {0}, NEW a \in Nat, NEW b \in Nat,
           w * a <= v, v < w * b
    PROVE  a <= v \div w /\ v \div w < b
<1>1. PICK q \in Nat : q = v \div w
  BY QuotientBounds
<1>2. w * q <= v /\ v < w * q + w
  BY <1>1, QuotientBounds
<1>3. w * (q + 1) = w * q + w /\ w * q \in Nat /\ w * a \in Nat /\ w * b \in Nat
  OBVIOUS
<1>4. q + 1 <= a => w * (q + 1) <= w * a
  BY ProductOrder
<1>5. b <= q => w * b <= w * q
  BY ProductOrder
<1>6. ~(q + 1 <= a)
  BY <1>2, <1>3, <1>4
<1>7. ~(b <= q)
  BY <1>2, <1>3, <1>5
<1> QED BY <1>1, <1>6, <1>7

-----------------------------------------------------------------------------
(* Folds from left to right *)

(* The last index of a set.                                                *)
LEMMA LastIndex ==
    ASSUME NEW m \in Nat, NEW s \in SUBSET (1 .. m)
    PROVE  /\ m \in s => Max(s) = m
           /\ s # {} => Max(s) \in s
<1>1. s # {} => Max(s) \in s /\ \A y \in s : Max(s) >= y
  BY MaxOfNaturals
<1>2. \A y \in s : y \in Int /\ y <= m
  OBVIOUS
<1>3. ASSUME m \in s PROVE Max(s) = m
  <2> DEFINE x == Max(s)
  <2>1. x \in s /\ x >= m
    BY <1>1, <1>3
  <2> HIDE DEF x
  <2>2. x \in Int /\ x <= m
    BY <1>2, <2>1
  <2>3. x = m
    BY <2>1, <2>2
  <2> QED BY <2>3 DEF x
<1> QED BY <1>1, <1>3

(* f folds the function step over the first n elements of q.               *)
FoldsTo(f, step, base, q, n) ==
    \A s \in SUBSET (1 .. n) :
        f[s] = IF s = {} THEN base ELSE step[<<f[s \ {Max(s)}], q[Max(s)]>>]

(* A step function can be folded over a sequence.                          *)
LEMMA FoldExists ==
    ASSUME NEW V, NEW W, NEW step \in [V \X W -> V], NEW base \in V,
           NEW n \in Nat, NEW q \in [1 .. n -> W]
    PROVE  \E f \in [SUBSET (1 .. n) -> V] : FoldsTo(f, step, base, q, n)
<1> DEFINE Folds(f, m) ==
              \A s \in SUBSET (1 .. m) :
                 f[s] = IF s = {} THEN base ELSE step[<<f[s \ {Max(s)}], q[Max(s)]>>]
           Good(m) == \E f \in [SUBSET (1 .. m) -> V] : Folds(f, m)
           Bad == {m \in 0 .. n : ~Good(m)}
<1>1. ASSUME Bad # {} PROVE FALSE
  <2>1. PICK m \in Bad : \A k \in Bad : m <= k
    <3>1. Bad \in SUBSET Nat
      OBVIOUS
    <3> QED BY <1>1, <3>1, MinOfNaturals
  <2>2. m \in 0 .. n /\ ~Good(m)
    <3> HIDE DEF Good
    <3> QED BY <2>1
  <2>3. CASE m = 0
    <3> DEFINE f == [s \in SUBSET (1 .. m) |-> base]
    <3>1. f \in [SUBSET (1 .. m) -> V]
      OBVIOUS
    <3>2. \A s \in SUBSET (1 .. m) : s = {}
      BY <2>3
    <3>3. Folds(f, m)
      BY <3>2
    <3> QED BY <2>2, <3>1, <3>3
  <2>4. CASE m # 0
    <3> DEFINE l == m - 1
    <3>1. l \in 0 .. n /\ m \in 1 .. n /\ l < m
      BY <2>2, <2>4
    <3>2. Good(l)
      <4> HIDE DEF Good
      <4> QED BY <2>1, <3>1
    <3>3. PICK f \in [SUBSET (1 .. l) -> V] : Folds(f, l)
      BY <3>2
    <3> DEFINE g == [s \in SUBSET (1 .. m) |->
                       IF m \in s THEN step[<<f[s \ {m}], q[m]>>] ELSE f[s]]
    <3>4. \A s \in SUBSET (1 .. m) :
             /\ m \in s => s \ {m} \in SUBSET (1 .. l) /\ m \notin s \ {m}
             /\ m \notin s => s \in SUBSET (1 .. l)
      <4>1. \A i \in 1 .. m : i # m => i \in 1 .. l
        BY <3>1
      <4> QED BY <4>1
    <3>5. g \in [SUBSET (1 .. m) -> V]
      <4>1. q[m] \in W
        BY <3>1
      <4>2. ASSUME NEW s \in SUBSET (1 .. m)
            PROVE  (IF m \in s THEN step[<<f[s \ {m}], q[m]>>] ELSE f[s]) \in V
        <5>1. CASE m \in s
          <6>1. f[s \ {m}] \in V
            BY <3>4, <5>1
          <6> QED BY <4>1, <5>1, <6>1
        <5>2. CASE m \notin s
          BY <3>4, <5>2
        <5> QED BY <5>1, <5>2
      <4> QED BY <4>2
    <3>6. \A s \in SUBSET (1 .. m) :
             g[s] = IF m \in s THEN step[<<f[s \ {m}], q[m]>>] ELSE f[s]
      OBVIOUS
    <3> HIDE DEF g, l
    <3>7. ASSUME NEW s \in SUBSET (1 .. m)
          PROVE  g[s] = IF s = {} THEN base ELSE step[<<g[s \ {Max(s)}], q[Max(s)]>>]
      <4>1. CASE m \in s
        <5>1. Max(s) = m
          <6>1. m \in Nat
            BY <2>2
          <6> QED BY <4>1, <6>1, LastIndex
        <5>2. g[s \ {m}] = f[s \ {m}]
          <6>1. s \ {m} \in SUBSET (1 .. m) /\ m \notin s \ {m}
            OBVIOUS
          <6> QED BY <3>6, <6>1
        <5> QED BY <3>6, <4>1, <5>1, <5>2
      <4>2. CASE m \notin s /\ s # {}
        <5>1. Max(s) \in s
          <6>1. m \in Nat
            BY <2>2
          <6> QED BY <4>2, <6>1, LastIndex
        <5>2. s \ {Max(s)} \in SUBSET (1 .. m) /\ m \notin s \ {Max(s)}
          BY <4>2
        <5>3. g[s] = f[s] /\ g[s \ {Max(s)}] = f[s \ {Max(s)}]
          BY <3>6, <4>2, <5>2
        <5>4. s \in SUBSET (1 .. l)
          BY <3>4, <4>2
        <5>5. f[s] = step[<<f[s \ {Max(s)}], q[Max(s)]>>]
          BY <3>3, <4>2, <5>4
        <5> QED BY <4>2, <5>3, <5>5
      <4>3. CASE s = {}
        <5>1. s \in SUBSET (1 .. l) /\ g[s] = f[s]
          BY <3>6, <4>3
        <5>2. f[s] = base
          BY <3>3, <4>3, <5>1
        <5> QED BY <4>3, <5>1, <5>2
      <4> QED BY <4>1, <4>2, <4>3
    <3>8. Folds(g, m)
      BY <3>7
    <3> QED BY <2>2, <3>5, <3>8
  <2> QED BY <2>3, <2>4
<1>2. Good(n)
  <2> HIDE DEF Good
  <2> QED BY <1>1
<1> QED BY <1>2, Zenon DEF FoldsTo

(* What each step of a fold keeps, the fold keeps.                         *)
LEMMA FoldStays ==
    ASSUME NEW V, NEW n \in Nat, NEW F, F[{}] \in V,
           \A s \in SUBSET (1 .. n) : s # {} /\ F[s \ {Max(s)}] \in V => F[s] \in V
    PROVE  F[1 .. n] \in V
<1> DEFINE Bad == {m \in 0 .. n : F[1 .. m] \notin V}
<1>1. ASSUME Bad # {} PROVE FALSE
  <2>1. PICK m \in Bad : \A k \in Bad : m <= k
    <3>1. Bad \in SUBSET Nat
      OBVIOUS
    <3> QED BY <1>1, <3>1, MinOfNaturals
  <2>2. m \in 0 .. n /\ F[1 .. m] \notin V
    BY <2>1
  <2>3. m # 0
    <3>1. m = 0 => 1 .. m = {}
      BY <2>2
    <3> QED BY <2>2, <3>1
  <2>4. m - 1 \in 0 .. n /\ m - 1 < m
    BY <2>2, <2>3
  <2>5. F[1 .. (m - 1)] \in V
    BY <2>1, <2>4
  <2> DEFINE s == 1 .. m
  <2>6. s \in SUBSET (1 .. n) /\ m \in s
    BY <2>2, <2>3
  <2>7. Max(s) = m
    <3>1. m \in Nat /\ s \in SUBSET (1 .. m)
      BY <2>2
    <3> QED BY <2>6, <3>1, LastIndex
  <2>8. s \ {m} = 1 .. (m - 1)
    BY <2>2, <2>3
  <2> QED BY <2>2, <2>5, <2>6, <2>7, <2>8
<1>2. n \notin Bad /\ n \in 0 .. n
  BY <1>1
<1> QED BY <1>2
=============================================================================
