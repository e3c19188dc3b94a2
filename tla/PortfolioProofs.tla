--------------------------- MODULE PortfolioProofs ---------------------------
(***************************************************************************)
(* Proofs about Portfolio, for fills of any price, quantity and number:    *)
(* average-cost accounting is the cash flow, a mark gives the P&L the      *)
(* pipeline keeps, and the average lies within the prices it was made of.  *)
(*                                                                         *)
(* The rationals of the model are in lowest terms.  A proof brings the     *)
(* average price and the realized P&L to one denominator instead, where    *)
(* the accounting is arithmetic on numerators.                             *)
(***************************************************************************)
EXTENDS Portfolio, DataTheorems

Positive == Nat \ {0}

Rational == [num : Int, den : Positive]

(* The rational x is n/d.                                                  *)
Equals(x, n, d) == x.num * d = n * x.den

-----------------------------------------------------------------------------
(* Integers *)

(* A common factor does not change an equation or an inequality.           *)
LEMMA CancelFactor ==
    \A k \in Positive : \A x, y \in Int : /\ k * x = k * y => x = y
                                          /\ k * x <= k * y => x <= y
BY DEF Positive

(* A factor that is not negative keeps an inequality.                      *)
LEMMA ScaleInequality ==
    \A k \in Nat : \A x, y \in Int : x <= y => k * x <= k * y
OBVIOUS

LEMMA Distribute ==
    \A a, b, c, e, k \in Int : (a * b + c * e) * k = (a * k) * b + (c * k) * e
OBVIOUS

(* A divisor without rest.                                                 *)
LEMMA ExactDivision ==
    \A n \in Int : \A g \in Positive :
        /\ n \div g \in Int
        /\ n % g = 0 => n = g * (n \div g)
BY DEF Positive

LEMMA MultipleDivides ==
    \A k \in Int : \A d \in Positive : (k * d) % d = 0 /\ (k * d) \div d = k
BY DEF Positive

-----------------------------------------------------------------------------
(* The operations on rationals *)

(* The divisor that brings n/d to lowest terms.                            *)
LEMMA GreatestDivisor ==
    ASSUME NEW n \in Int, NEW d \in Positive
    PROVE  LET G == {k \in 1 .. d : n % k = 0 /\ d % k = 0}
           IN  Max(G) \in G /\ \A k \in G : k <= Max(G)
<1> DEFINE G == {k \in 1 .. d : n % k = 0 /\ d % k = 0}
           D == {d - k : k \in G}
<1>1. 1 \in G
  BY DEF Positive
<1>2. D \in SUBSET Nat /\ D # {}
  BY <1>1 DEF Positive
<1>3. PICK e \in D : \A x \in D : e <= x
  BY <1>2, LeastNatural
<1>4. PICK m \in G : e = d - m
  BY <1>3
<1> HIDE DEF D
<1>5. \A k \in G : m >= k
  <2>1. \A k \in G : d - k \in D /\ k \in Int
    BY DEF D
  <2> HIDE DEF G
  <2>2. \A k \in G : e <= d - k
    BY <1>3, <2>1
  <2> QED BY <1>4, <2>1, <2>2, SMT DEF Positive
<1>6. Max(G) \in G /\ \A k \in G : Max(G) >= k
  BY <1>4, <1>5, Zenon DEF Max
<1>7. \A k \in G : k \in Int
  OBVIOUS
<1> QED BY <1>6, <1>7

(* A quotient is a rational, with the value it should have.                *)
LEMMA QuotientValue ==
    ASSUME NEW n \in Int, NEW d \in Positive
    PROVE  Quotient(n, d) \in Rational /\ Equals(Quotient(n, d), n, d)
<1> DEFINE G == {k \in 1 .. d : n % k = 0 /\ d % k = 0}
           g == Max(G)
<1>1. g \in G
  BY GreatestDivisor
<1>2. Quotient(n, d) = [num |-> n \div g, den |-> d \div g]
  BY DEF Quotient
<1>3. g \in Positive /\ n % g = 0 /\ d % g = 0
  BY <1>1 DEF Positive
<1> HIDE DEF g
<1>4. PICK a \in Int, b \in Int : a = n \div g /\ b = d \div g /\ n = g * a /\ d = g * b
  BY <1>3, ExactDivision DEF Positive
<1>5. b \in Positive
  BY <1>3, <1>4 DEF Positive
<1>6. a * (g * b) = (g * a) * b
  BY <1>3, <1>4 DEF Positive
<1> QED BY <1>2, <1>4, <1>5, <1>6 DEF Rational, Equals

(* The quotient with the value of an integer is that integer.              *)
LEMMA QuotientWhole ==
    ASSUME NEW k \in Int, NEW d \in Positive
    PROVE  Quotient(k * d, d) = Whole(k)
<1> DEFINE G == {j \in 1 .. d : (k * d) % j = 0 /\ d % j = 0}
<1>1. Max(G) \in G /\ \A j \in G : j <= Max(G)
  <2>1. k * d \in Int
    BY DEF Positive
  <2> QED BY <2>1, GreatestDivisor
<1>2. (k * d) % d = 0 /\ (k * d) \div d = k
  BY MultipleDivides
<1>3. (1 * d) % d = 0 /\ (1 * d) \div d = 1 /\ 1 * d = d
  BY MultipleDivides DEF Positive
<1>4. d \in G
  BY <1>2, <1>3 DEF Positive
<1>5. Max(G) = d
  BY <1>1, <1>4 DEF Positive
<1>6. Quotient(k * d, d) = [num |-> (k * d) \div Max(G), den |-> d \div Max(G)]
  BY DEF Quotient
<1> QED BY <1>2, <1>3, <1>5, <1>6 DEF Whole

(* An integer over any denominator.                                        *)
LEMMA WholeValue ==
    ASSUME NEW k \in Int, NEW d \in Positive
    PROVE  Whole(k) \in Rational /\ Equals(Whole(k), k * d, d)
BY DEF Whole, Rational, Equals, Positive

(* A sum over one denominator.                                             *)
LEMMA AddValue ==
    ASSUME NEW x \in Rational, NEW y \in Rational, NEW n \in Int, NEW m \in Int,
           NEW d \in Positive, Equals(x, n, d), Equals(y, m, d)
    PROVE  /\ Add(x, y) \in Rational /\ Equals(Add(x, y), n + m, d)
           /\ \A k \in Int : n + m = k * d => Add(x, y) = Whole(k)
<1> DEFINE N == x.num * y.den + y.num * x.den
           D == x.den * y.den
<1>1. /\ x.num \in Int /\ x.den \in Positive /\ y.num \in Int /\ y.den \in Positive
      /\ x.num * d = n * x.den /\ y.num * d = m * y.den
  BY DEF Rational, Equals
<1>2. N \in Int /\ D \in Positive
  BY <1>1 DEF Positive
<1>3. N * d = (n + m) * D
  <2>1. N * d = (x.num * d) * y.den + (y.num * d) * x.den
    <3>1. x.den \in Int /\ y.den \in Int /\ d \in Int
      BY <1>1 DEF Positive
    <3> QED BY <1>1, <3>1, Distribute
  <2>2. N * d = (n * x.den) * y.den + (m * y.den) * x.den
    BY <1>1, <2>1
  <2> QED BY <1>1, <2>2 DEF Positive
<1>4. Add(x, y) = Quotient(N, D)
  BY DEF Add
<1> HIDE DEF N, D
<1>5. PICK q \in Rational : q = Quotient(N, D) /\ q.num * D = N * q.den
  BY <1>2, QuotientValue DEF Equals
<1>6. q.num * d = (n + m) * q.den
  <2>1. q.num \in Int /\ q.den \in Int /\ q.num * d \in Int /\ (n + m) * q.den \in Int
    BY DEF Rational, Positive
  <2>2. D * (q.num * d) = (q.num * D) * d
    BY <1>2, <2>1 DEF Positive
  <2>3. D * (q.num * d) = (N * d) * q.den
    BY <1>2, <1>5, <2>1, <2>2 DEF Positive
  <2>4. D * (q.num * d) = D * ((n + m) * q.den)
    BY <1>2, <1>3, <2>1, <2>3 DEF Positive
  <2> QED BY <1>2, <2>1, <2>4, CancelFactor
<1>7. ASSUME NEW k \in Int, n + m = k * d PROVE Quotient(N, D) = Whole(k)
  <2>1. d * N = d * (k * D)
    BY <1>2, <1>3, <1>7 DEF Positive
  <2>2. k * D \in Int
    BY <1>2 DEF Positive
  <2>3. N = k * D
    BY <1>2, <2>1, <2>2, CancelFactor
  <2> QED BY <1>2, <2>3, QuotientWhole
<1> QED BY <1>4, <1>5, <1>6, <1>7 DEF Equals

(* A multiple over the same denominator.                                   *)
LEMMA TimesValue ==
    ASSUME NEW x \in Rational, NEW k \in Int, NEW n \in Int, NEW d \in Positive,
           Equals(x, n, d)
    PROVE  Times(k, x) \in Rational /\ Equals(Times(k, x), k * n, d)
<1>1. x.num \in Int /\ x.den \in Positive /\ x.num * d = n * x.den
  BY DEF Rational, Equals
<1>2. PICK q \in Rational : q = Times(k, x) /\ q.num * x.den = (k * x.num) * q.den
  BY <1>1, QuotientValue DEF Equals, Times
<1>3. q.num \in Int /\ q.den \in Int /\ q.num * d \in Int /\ (k * n) * q.den \in Int
  BY DEF Rational, Positive
<1>4. x.den * (q.num * d) = (q.num * x.den) * d
  BY <1>1, <1>3 DEF Positive
<1>5. x.den * (q.num * d) = (k * q.den) * (x.num * d)
  BY <1>1, <1>2, <1>3, <1>4 DEF Positive
<1>6. x.den * (q.num * d) = x.den * ((k * n) * q.den)
  BY <1>1, <1>3, <1>5 DEF Positive
<1> QED BY <1>1, <1>2, <1>3, <1>6, CancelFactor DEF Equals

(* A difference over one denominator.                                      *)
LEMMA SubValue ==
    ASSUME NEW x \in Rational, NEW y \in Rational, NEW n \in Int, NEW m \in Int,
           NEW d \in Positive, Equals(x, n, d), Equals(y, m, d)
    PROVE  /\ Sub(x, y) \in Rational /\ Equals(Sub(x, y), n - m, d)
           /\ \A k \in Int : n - m = k * d => Sub(x, y) = Whole(k)
<1>1. Times(-1, y) \in Rational /\ Equals(Times(-1, y), (-1) * m, d)
  <2>1. -1 \in Int
    OBVIOUS
  <2> QED BY <2>1, TimesValue
<1>2. (-1) * m \in Int /\ n + (-1) * m = n - m
  OBVIOUS
<1> QED BY <1>1, <1>2, AddValue DEF Sub

(* A quotient by a positive or negative number of units.                   *)
LEMMA OverValue ==
    ASSUME NEW x \in Rational, NEW k \in Int, k # 0, NEW n \in Int, NEW d \in Positive,
           Equals(x, n, d)
    PROVE  /\ Over(x, k) \in Rational
           /\ Equals(Over(x, k), IF k > 0 THEN n ELSE -n, d * Magnitude(k))
<1> DEFINE j == Magnitude(k)
           s == IF k > 0 THEN 1 ELSE -1
<1>1. x.num \in Int /\ x.den \in Positive /\ x.num * d = n * x.den
  BY DEF Rational, Equals
<1>2. j \in Positive /\ s \in Int /\ x.den * j \in Positive /\ s * x.num \in Int
  BY <1>1 DEF Magnitude, Positive
<1>3. Over(x, k) = Quotient(s * x.num, x.den * j)
  BY <1>1 DEF Over, Magnitude, Positive
<1>4. s * n = IF k > 0 THEN n ELSE -n
  OBVIOUS
<1> HIDE DEF j, s
<1>5. PICK q \in Rational : q = Over(x, k) /\ q.num * (x.den * j) = (s * x.num) * q.den
  BY <1>2, <1>3, QuotientValue DEF Equals
<1>6. /\ q.num \in Int /\ q.den \in Int
      /\ q.num * (d * j) \in Int /\ (s * n) * q.den \in Int
  BY <1>2 DEF Rational, Positive
<1>7. x.den * (q.num * (d * j)) = (q.num * (x.den * j)) * d
  BY <1>1, <1>2, <1>6 DEF Positive
<1>8. x.den * (q.num * (d * j)) = (s * q.den) * (x.num * d)
  BY <1>1, <1>2, <1>5, <1>6, <1>7 DEF Positive
<1>9. x.den * (q.num * (d * j)) = x.den * ((s * n) * q.den)
  BY <1>1, <1>2, <1>6, <1>8 DEF Positive
<1>10. q.num * (d * j) = (s * n) * q.den
  BY <1>1, <1>6, <1>9, CancelFactor
<1> QED BY <1>4, <1>5, <1>10 DEF Equals, j

(* The same value over a larger denominator.                               *)
LEMMA RescaleValue ==
    ASSUME NEW x \in Rational, NEW n \in Int, NEW d \in Positive, NEW j \in Positive,
           Equals(x, n, d)
    PROVE  Equals(x, n * j, d * j)
<1>1. x.num \in Int /\ x.den \in Int /\ x.num * d = n * x.den
  BY DEF Rational, Equals, Positive
<1>2. x.num * (d * j) = (x.num * d) * j
  BY <1>1 DEF Positive
<1>3. (n * x.den) * j = (n * j) * x.den
  BY <1>1 DEF Positive
<1> QED BY <1>1, <1>2, <1>3 DEF Equals

-----------------------------------------------------------------------------
(* The accounts over one denominator *)

PortfolioState ==
    [position : Int, avg_entry_price : Rational, realized_pnl : Rational,
     unrealized_pnl : Rational, total_pnl : Rational]

(* a/d lies between the least and the greatest price of the set.           *)
Between(prices, a, d) ==
    \E lo, hi \in prices : /\ \A p \in prices : lo <= p /\ p <= hi
                           /\ lo * d <= a /\ a <= hi * d

(* The average is a/d and the realized P&L r/d; the cash is what the two   *)
(* say; the average lies within the prices of the open position.           *)
Accounts(st, paid, prices, a, r, d) ==
    /\ Equals(st.avg_entry_price, a, d)
    /\ Equals(st.realized_pnl, r, d)
    /\ r - st.position * a = paid * d
    /\ st.position = 0 => prices = {}
    /\ st.position # 0 => Between(prices, a, d)

PortfolioInv ==
    /\ state \in PortfolioState
    /\ cash \in Int
    /\ opened \in SUBSET FillPrices
    /\ \E a, r \in Int, d \in Positive : Accounts(state, cash, opened, a, r, d)

(* A mean of u shares at a/d and v shares at p lies between bounds of both.*)
LEMMA MeanWithin ==
    ASSUME NEW u \in Nat, NEW v \in Nat, NEW a \in Int, NEW p \in Int, NEW d \in Positive,
           NEW x \in Int
    PROVE  /\ x * d <= a /\ x <= p => x * (d * (u + v)) <= u * a + (v * p) * d
           /\ a <= x * d /\ p <= x => u * a + (v * p) * d <= x * (d * (u + v))
<1>0. d \in Nat /\ x * d \in Int /\ v * d \in Nat
  BY DEF Positive
<1>1. x * (d * (u + v)) = u * (x * d) + (v * d) * x
  BY <1>0
<1>2. (v * p) * d = (v * d) * p
  BY <1>0
<1>3. /\ x * d <= a => u * (x * d) <= u * a
      /\ a <= x * d => u * a <= u * (x * d)
  BY <1>0, ScaleInequality
<1>4. /\ x <= p => (v * d) * x <= (v * d) * p
      /\ p <= x => (v * d) * p <= (v * d) * x
  BY <1>0, ScaleInequality
<1>5. u * a \in Int /\ u * (x * d) \in Int /\ (v * d) * x \in Int /\ (v * d) * p \in Int
  BY <1>0
<1> QED BY <1>1, <1>2, <1>3, <1>4, <1>5

(* One more price, and an average that lies between both bounds.           *)
LEMMA BetweenMore ==
    ASSUME NEW prices \in SUBSET Int, NEW p \in Int, NEW a \in Int, NEW d \in Positive,
           NEW u \in Nat, NEW v \in Nat, Between(prices, a, d)
    PROVE  Between(prices \cup {p}, u * a + (v * p) * d, d * (u + v))
<1>1. PICK lo \in prices, hi \in prices :
         /\ \A q \in prices : lo <= q /\ q <= hi
         /\ lo * d <= a /\ a <= hi * d
  BY DEF Between
<1> DEFINE l == IF p < lo THEN p ELSE lo
           h == IF p > hi THEN p ELSE hi
<1>2. lo \in Int /\ hi \in Int /\ d \in Nat
  BY DEF Positive
<1>3. /\ l \in prices \cup {p} /\ h \in prices \cup {p} /\ l \in Int /\ h \in Int
      /\ l <= lo /\ hi <= h /\ l <= p /\ p <= h
  BY <1>2
<1> HIDE DEF l, h
<1>4. \A q \in prices \cup {p} : l <= q /\ q <= h
  BY <1>1, <1>2, <1>3
<1>5. l * d <= a /\ a <= h * d
  <2>1. d * l <= d * lo /\ d * hi <= d * h
    BY <1>2, <1>3, ScaleInequality
  <2>2. /\ d * l = l * d /\ d * lo = lo * d /\ d * hi = hi * d /\ d * h = h * d
        /\ l * d \in Int /\ lo * d \in Int /\ hi * d \in Int /\ h * d \in Int
    BY <1>2, <1>3
  <2> QED BY <1>1, <2>1, <2>2
<1>6. /\ l * (d * (u + v)) <= u * a + (v * p) * d
      /\ u * a + (v * p) * d <= h * (d * (u + v))
  BY <1>3, <1>5, MeanWithin
<1> QED BY <1>3, <1>4, <1>6 DEF Between

(* Arithmetic of a fill that extends the position: u is what was open, v   *)
(* what the fill adds, both without their common sign s.                   *)
LEMMA ExtendedCash ==
    ASSUME NEW u \in Int, NEW v \in Int, NEW s \in {1, -1}, NEW a \in Int, NEW r \in Int,
           NEW d \in Int, NEW p \in Int, NEW paid \in Int,
           r - (s * u) * a = paid * d
    PROVE  r * (u + v) - (s * u + s * v) * (u * a + (v * p) * d)
              = (paid - (s * v) * p) * (d * (u + v))
<1> DEFINE N == u * a + (v * p) * d
           j == u + v
<1>1. N \in Int /\ j \in Int
  OBVIOUS
<1>2. (s * u + s * v) * N = (s * N) * j
  BY <1>1
<1>3. s * N = (s * u) * a + ((s * v) * p) * d
  OBVIOUS
<1>4. r - s * N = (paid - (s * v) * p) * d
  <2>1. r - s * N = paid * d - ((s * v) * p) * d
    BY <1>3
  <2> QED BY <2>1
<1> HIDE DEF N, j
<1>5. r * j - (s * N) * j = (r - s * N) * j
  BY <1>1
<1>6. ((paid - (s * v) * p) * d) * j = (paid - (s * v) * p) * (d * j)
  BY <1>1
<1>7. r * j - (s * u + s * v) * N = (paid - (s * v) * p) * (d * j)
  BY <1>2, <1>4, <1>5, <1>6
<1> QED BY <1>7 DEF N, j

(* Opening a position or extending it.                                     *)
LEMMA ExtendKeeps ==
    ASSUME NEW st \in PortfolioState, NEW paid \in Int, NEW prices \in SUBSET Int,
           NEW a \in Int, NEW r \in Int, NEW d \in Positive,
           Accounts(st, paid, prices, a, r, d),
           NEW p \in Int, NEW f \in Int, f # 0,
           st.position = 0 \/ (st.position > 0) = (f > 0)
    PROVE  /\ Extend(st, p, f) \in PortfolioState
           /\ Extend(st, p, f).position # 0
           /\ \E b, q \in Int, e \in Positive :
                 Accounts(Extend(st, p, f), paid - f * p, prices \cup {p}, b, q, e)
<1> DEFINE pos == st.position
           new == pos + f
           s == IF f > 0 THEN 1 ELSE -1
           u == Magnitude(pos)
           v == Magnitude(f)
           N == u * a + (v * p) * d
           notional == Add(Times(pos, st.avg_entry_price), Whole(f * p))
           avg == Over(notional, new)
<1>1. /\ pos \in Int /\ st.avg_entry_price \in Rational /\ st.realized_pnl \in Rational
      /\ st.unrealized_pnl \in Rational /\ st.total_pnl \in Rational
  BY DEF PortfolioState
<1>2. /\ Equals(st.avg_entry_price, a, d) /\ Equals(st.realized_pnl, r, d)
      /\ r - pos * a = paid * d
      /\ pos = 0 => prices = {}
      /\ pos # 0 => Between(prices, a, d)
  BY DEF Accounts
<1>3. /\ u \in Nat /\ v \in Positive /\ s \in {1, -1} /\ u + v \in Positive
      /\ pos = s * u /\ f = s * v /\ new # 0 /\ Magnitude(new) = u + v
      /\ new > 0 <=> s = 1
  BY <1>1 DEF Magnitude, Positive
<1>4. Extend(st, p, f) = [st EXCEPT !.avg_entry_price = avg, !.position = new]
  BY DEF Extend
<1> HIDE DEF u, v, s
<1>5. avg \in Rational /\ Equals(avg, N, d * (u + v))
  <2>1. /\ Times(pos, st.avg_entry_price) \in Rational
        /\ Equals(Times(pos, st.avg_entry_price), pos * a, d)
    BY <1>1, <1>2, TimesValue
  <2>2. Whole(f * p) \in Rational /\ Equals(Whole(f * p), (f * p) * d, d)
    BY WholeValue
  <2>3. pos * a \in Int /\ (f * p) * d \in Int
    BY <1>1 DEF Positive
  <2>4. notional \in Rational /\ Equals(notional, pos * a + (f * p) * d, d)
    BY <2>1, <2>2, <2>3, AddValue
  <2>5. IF new > 0 THEN pos * a + (f * p) * d = N ELSE -(pos * a + (f * p) * d) = N
    <3>0. d \in Int /\ u \in Int /\ v \in Int
      BY <1>3 DEF Positive
    <3>1. CASE s = 1
      <4>1. pos = u /\ f = v
        BY <1>3, <3>0, <3>1
      <4> QED BY <1>3, <3>1, <4>1
    <3>2. CASE s = -1
      <4>1. pos = -u /\ f = -v
        BY <1>3, <3>0, <3>2
      <4>2. (-u) * a = -(u * a) /\ ((-v) * p) * d = -((v * p) * d)
        BY <3>0
      <4>3. u * a \in Int /\ (v * p) * d \in Int /\ ~ (new > 0)
        BY <1>3, <3>0, <3>2
      <4>4. -(pos * a + (f * p) * d) = N
        BY <4>1, <4>2, <4>3
      <4> QED BY <4>3, <4>4
    <3> QED BY <1>3, <3>1, <3>2
  <2> HIDE DEF notional, N
  <2>6. new \in Int /\ pos * a + (f * p) * d \in Int
    BY <1>1, <2>3
  <2>7. /\ avg \in Rational
        /\ Equals(avg, IF new > 0 THEN pos * a + (f * p) * d ELSE -(pos * a + (f * p) * d),
                  d * Magnitude(new))
    BY <1>3, <2>4, <2>6, OverValue
  <2> QED BY <1>3, <2>5, <2>7
<1> DEFINE next == Extend(st, p, f)
<1> HIDE DEF avg
<1>6. /\ next.position = new /\ next.avg_entry_price = avg
      /\ next.realized_pnl = st.realized_pnl /\ next \in PortfolioState
  <2>1. new \in Int
    BY <1>1
  <2> QED BY <1>4, <1>5, <2>1 DEF PortfolioState
<1> HIDE DEF next
<1>7. Equals(st.realized_pnl, r * (u + v), d * (u + v))
  BY <1>1, <1>2, <1>3, RescaleValue
<1>8. r * (u + v) - new * N = (paid - f * p) * (d * (u + v))
  <2>1. u \in Int /\ v \in Int /\ d \in Int
    BY <1>3 DEF Positive
  <2>2. r - (s * u) * a = paid * d
    BY <1>2, <1>3
  <2>3. r * (u + v) - (s * u + s * v) * N = (paid - (s * v) * p) * (d * (u + v))
    BY <1>3, <2>1, <2>2, ExtendedCash
  <2> QED BY <1>3, <2>3
<1>9. Between(prices \cup {p}, N, d * (u + v))
  <2>1. CASE pos = 0
    <3>1. u = 0 /\ prices = {}
      BY <1>2, <2>1 DEF u, Magnitude
    <3>2. N = p * (d * (u + v)) /\ p * (d * (u + v)) \in Int
      BY <1>3, <3>1 DEF Positive
    <3>3. prices \cup {p} = {p}
      BY <3>1
    <3> HIDE DEF N
    <3> QED BY <3>2, <3>3 DEF Between
  <2>2. CASE pos # 0
    <3>1. v \in Nat
      BY <1>3 DEF Positive
    <3> QED BY <1>2, <1>3, <2>2, <3>1, BetweenMore
  <2> QED BY <2>1, <2>2
<1>10. N \in Int /\ r * (u + v) \in Int /\ d * (u + v) \in Positive
  BY <1>3 DEF Positive
<1> HIDE DEF N
<1>11. Accounts(next, paid - f * p, prices \cup {p}, N, r * (u + v), d * (u + v))
  BY <1>3, <1>5, <1>6, <1>7, <1>8, <1>9 DEF Accounts
<1> QED BY <1>3, <1>6, <1>10, <1>11 DEF next

(* Reducing, closing or flipping a position.                               *)
LEMMA ReduceKeeps ==
    ASSUME NEW st \in PortfolioState, NEW paid \in Int, NEW prices \in SUBSET Int,
           NEW a \in Int, NEW r \in Int, NEW d \in Positive,
           Accounts(st, paid, prices, a, r, d),
           NEW p \in Int, NEW f \in Int, f # 0,
           st.position # 0, (st.position > 0) # (f > 0)
    PROVE  LET next == Reduce(st, p, f)
               left == IF next.position = 0 THEN {}
                       ELSE IF next.position * st.position < 0 THEN {p} ELSE prices
           IN  /\ next \in PortfolioState
               /\ \E b, q \in Int, e \in Positive :
                     Accounts(next, paid - f * p, left, b, q, e)
<1> DEFINE pos == st.position
           new == pos + f
           s == IF pos > 0 THEN 1 ELSE -1
           closing == Min({Magnitude(f), Magnitude(pos)})
           c == closing * s
           gain == Times(c, Sub(Whole(p), st.avg_entry_price))
           flips == new * s < 0
           avg == IF flips THEN Whole(p)
                  ELSE IF new = 0 THEN Whole(0) ELSE st.avg_entry_price
           b == IF flips THEN p * d ELSE IF new = 0 THEN 0 ELSE a
           q == r + c * (p * d - a)
           next == Reduce(st, p, f)
           left == IF new = 0 THEN {} ELSE IF new * pos < 0 THEN {p} ELSE prices
<1>1. /\ pos \in Int /\ st.avg_entry_price \in Rational /\ st.realized_pnl \in Rational
      /\ st.unrealized_pnl \in Rational /\ st.total_pnl \in Rational
  BY DEF PortfolioState
<1>2. /\ Equals(st.avg_entry_price, a, d) /\ Equals(st.realized_pnl, r, d)
      /\ r - pos * a = paid * d /\ Between(prices, a, d)
  BY DEF Accounts
<1>3. next = [st EXCEPT !.realized_pnl = Add(@, gain), !.position = new,
                        !.avg_entry_price = avg]
  BY DEF Reduce
<1>4. /\ c \in Int /\ new \in Int
      /\ flips => c = pos /\ new # 0 /\ new * pos < 0
      /\ ~flips => c = -f /\ ~ (new * pos < 0)
  <2>1. CASE pos > 0
    <3>1. s = 1 /\ Magnitude(pos) = pos /\ f < 0 /\ Magnitude(f) = -f
      BY <1>1, <2>1 DEF Magnitude
    <3>2. closing = IF -f <= pos THEN -f ELSE pos
      BY <1>1, <3>1, MinOfTwo
    <3> HIDE DEF closing, s
    <3>3. new * pos < 0 <=> new < 0
      BY <1>1, <2>1
    <3> QED BY <1>1, <2>1, <3>1, <3>2, <3>3
  <2>2. CASE pos < 0
    <3>1. s = -1 /\ Magnitude(pos) = -pos /\ f > 0 /\ Magnitude(f) = f
      BY <1>1, <2>2 DEF Magnitude
    <3>2. closing = IF f <= -pos THEN f ELSE -pos
      BY <1>1, <3>1, MinOfTwo
    <3> HIDE DEF closing, s
    <3>3. new * pos < 0 <=> new > 0
      BY <1>1, <2>2
    <3> QED BY <1>1, <2>2, <3>1, <3>2, <3>3
  <2> QED BY <1>1, <2>1, <2>2
<1> HIDE DEF c, flips
<1>5. p * d \in Int /\ p * d - a \in Int /\ c * (p * d - a) \in Int /\ q \in Int /\ b \in Int
  BY <1>4 DEF Positive
<1>6. Add(st.realized_pnl, gain) \in Rational /\ Equals(Add(st.realized_pnl, gain), q, d)
  <2>1. Whole(p) \in Rational /\ Equals(Whole(p), p * d, d)
    BY WholeValue
  <2>2. /\ Sub(Whole(p), st.avg_entry_price) \in Rational
        /\ Equals(Sub(Whole(p), st.avg_entry_price), p * d - a, d)
    BY <1>1, <1>2, <1>5, <2>1, SubValue
  <2>3. gain \in Rational /\ Equals(gain, c * (p * d - a), d)
    BY <1>4, <1>5, <2>2, TimesValue
  <2> QED BY <1>1, <1>2, <1>5, <2>3, AddValue
<1>7. avg \in Rational /\ Equals(avg, b, d)
  <2>1. Whole(p) \in Rational /\ Equals(Whole(p), p * d, d)
    BY WholeValue
  <2>2. Whole(0) \in Rational /\ Equals(Whole(0), 0, d)
    <3>1. 0 * d = 0 /\ 0 \in Int
      BY DEF Positive
    <3>2. Whole(0) \in Rational /\ Equals(Whole(0), 0 * d, d)
      BY <3>1, WholeValue
    <3> QED BY <3>1, <3>2
  <2> QED BY <1>1, <1>2, <2>1, <2>2
<1> HIDE DEF gain, avg
<1>8. /\ next.position = new /\ next.avg_entry_price = avg
      /\ next.realized_pnl = Add(st.realized_pnl, gain) /\ next \in PortfolioState
  BY <1>3, <1>4, <1>6, <1>7 DEF PortfolioState
<1> HIDE DEF next
<1>9. q - new * b = (paid - f * p) * d
  <2> DEFINE P == p * d
  <2>0. /\ P \in Int /\ d \in Int
        /\ paid * d \in Int /\ f * P \in Int /\ pos * a \in Int
    BY <1>1, <1>5 DEF Positive
  <2>1. (paid - f * p) * d = paid * d - f * P /\ r = paid * d + pos * a
    <3>1. \A x, y, z, k \in Int : (x - y * z) * k = x * k - y * (z * k)
      OBVIOUS
    <3> QED BY <1>2, <2>0, <3>1
  <2> HIDE DEF P
  <2>2. CASE flips
    <3>1. q = r + pos * (P - a) /\ b = P
      BY <1>4, <2>2 DEF P
    <3>2. pos * (P - a) = pos * P - pos * a /\ (pos + f) * P = pos * P + f * P
          /\ pos * P \in Int
      BY <1>1, <2>0
    <3>3. q - new * b = (r + pos * (P - a)) - (pos + f) * P
      BY <3>1
    <3>4. (r + pos * (P - a)) - (pos + f) * P = r - pos * a - f * P
      BY <1>1, <2>0, <3>2
    <3>5. r - pos * a - f * P = paid * d - f * P
      BY <1>2
    <3> HIDE DEF q, b
    <3> QED BY <2>1, <3>3, <3>4, <3>5
  <2>3. CASE ~flips
    <3>1. q = r + (-f) * (P - a)
      BY <1>4, <2>3 DEF P
    <3>2. (-f) * (P - a) = f * a - f * P /\ f * a \in Int
      BY <2>0
    <3>3. new * b = pos * a + f * a
      <4>1. CASE new = 0
        <5>1. pos = -f /\ b = 0
          BY <1>1, <2>3, <4>1
        <5> QED BY <1>1, <4>1, <5>1
      <4>2. CASE new # 0
        <5>1. b = a
          BY <2>3, <4>2
        <5> QED BY <1>1, <5>1
      <4> QED BY <4>1, <4>2
    <3> QED BY <2>0, <2>1, <3>1, <3>2, <3>3
  <2> QED BY <2>2, <2>3
<1>10. new # 0 => Between(left, b, d)
  <2>1. CASE flips
    <3>1. b = p * d /\ left = {p}
      BY <1>4, <2>1
    <3> QED BY <1>5, <3>1 DEF Between
  <2>2. CASE ~flips
    BY <1>2, <1>4, <2>2
  <2> QED BY <2>1, <2>2
<1>11. new = 0 => left = {}
  OBVIOUS
<1> HIDE DEF b, q, left
<1>12. Accounts(next, paid - f * p, left, b, q, d)
  BY <1>6, <1>7, <1>8, <1>9, <1>10, <1>11 DEF Accounts
<1>13. left = IF next.position = 0 THEN {}
              ELSE IF next.position * st.position < 0 THEN {p} ELSE prices
  BY <1>8 DEF left
<1> QED BY <1>5, <1>8, <1>12, <1>13 DEF next

(* Marking changes neither the accounts nor the history, and gives the     *)
(* P&L of the cash form.                                                   *)
LEMMA MarkKeeps ==
    ASSUME PortfolioInv, NEW m \in Int, mark_to_market(m)
    PROVE  PortfolioInv' /\ state'.total_pnl = Whole(cash + state.position * m)
<1>1. PICK a \in Int, r \in Int, d \in Positive : Accounts(state, cash, opened, a, r, d)
  BY DEF PortfolioInv
<1> DEFINE pos == state.position
           unrealized == Times(pos, Sub(Whole(m), state.avg_entry_price))
           total == Add(state.realized_pnl, unrealized)
<1>2. /\ state \in PortfolioState /\ pos \in Int /\ cash \in Int
      /\ state.avg_entry_price \in Rational /\ state.realized_pnl \in Rational
  BY DEF PortfolioInv, PortfolioState
<1>3. /\ state' = [state EXCEPT !.unrealized_pnl = unrealized, !.total_pnl = total]
      /\ cash' = cash /\ opened' = opened
  BY DEF mark_to_market
<1>4. /\ Equals(state.avg_entry_price, a, d) /\ Equals(state.realized_pnl, r, d)
      /\ r - pos * a = cash * d
  BY <1>1 DEF Accounts
<1>5. unrealized \in Rational /\ Equals(unrealized, pos * (m * d - a), d)
  <2>1. m * d \in Int /\ m * d - a \in Int
    BY DEF Positive
  <2>2. Whole(m) \in Rational /\ Equals(Whole(m), m * d, d)
    BY WholeValue
  <2>3. /\ Sub(Whole(m), state.avg_entry_price) \in Rational
        /\ Equals(Sub(Whole(m), state.avg_entry_price), m * d - a, d)
    BY <1>2, <1>4, <2>1, <2>2, SubValue
  <2> QED BY <1>2, <2>1, <2>3, TimesValue
<1> HIDE DEF unrealized
<1>6. total \in Rational /\ total = Whole(cash + pos * m)
  <2>1. d \in Int /\ m * d \in Int
    BY DEF Positive
  <2>2. /\ pos * (m * d - a) = (pos * m) * d - pos * a
        /\ (cash + pos * m) * d = cash * d + (pos * m) * d
        /\ pos * (m * d - a) \in Int /\ cash + pos * m \in Int
        /\ cash * d \in Int /\ (pos * m) * d \in Int /\ pos * a \in Int
    BY <1>2, <2>1
  <2>3. r + pos * (m * d - a) = (cash + pos * m) * d
    BY <1>4, <2>2
  <2> QED BY <1>2, <1>4, <1>5, <2>2, <2>3, AddValue
<1> HIDE DEF total
<1>7. /\ state' \in PortfolioState /\ state'.position = pos
      /\ state'.avg_entry_price = state.avg_entry_price
      /\ state'.realized_pnl = state.realized_pnl /\ state'.total_pnl = total
  BY <1>2, <1>3, <1>5, <1>6 DEF PortfolioState
<1>8. Accounts(state', cash', opened', a, r, d)
  BY <1>1, <1>3, <1>7 DEF Accounts
<1>9. opened' \in SUBSET FillPrices /\ cash' \in Int
  BY <1>3 DEF PortfolioInv
<1> QED BY <1>6, <1>7, <1>8, <1>9 DEF PortfolioInv

-----------------------------------------------------------------------------
(* The inductive invariant *)

(* It holds of a portfolio without a position.                             *)
LEMMA InitPortfolio == Init => PortfolioInv
<1> SUFFICES ASSUME Init PROVE PortfolioInv
  OBVIOUS
<1>1. 1 \in Positive /\ 0 * 1 = 0
  BY DEF Positive
<1>2. Whole(0) \in Rational /\ Equals(Whole(0), 0, 1)
  BY <1>1, WholeValue
<1>3. Accounts(state, cash, opened, 0, 0, 1)
  BY <1>2 DEF Init, Accounts
<1> QED BY <1>1, <1>2, <1>3 DEF Init, PortfolioInv, PortfolioState

(* Every fill keeps it.                                                    *)
LEMMA FillKeeps ==
    ASSUME PortfolioInv, NEW side \in Sides, NEW price \in FillPrices,
           NEW qty \in FillQuantities, on_fill(side, price, qty)
    PROVE  PortfolioInv'
<1>1. PICK a \in Int, r \in Int, d \in Positive : Accounts(state, cash, opened, a, r, d)
  BY DEF PortfolioInv
<1> DEFINE f == SignedFill(side, qty)
           extends == state.position = 0 \/ (state.position > 0) = (f > 0)
           after == IF extends THEN Extend(state, price, f) ELSE Reduce(state, price, f)
<1>2. /\ state \in PortfolioState /\ cash \in Int /\ price \in Int
      /\ opened \in SUBSET Int /\ opened \in SUBSET FillPrices
  BY PortfolioAssumption DEF PortfolioInv
<1>3. f \in Int /\ f # 0
  BY PortfolioAssumption DEF SignedFill
<1>4. /\ state' = after /\ cash' = cash - f * price
      /\ opened' = IF after.position = 0 THEN {}
                   ELSE IF extends THEN opened \cup {price}
                   ELSE IF after.position * state.position < 0 THEN {price}
                   ELSE opened
  BY DEF on_fill
<1>5. cash' \in Int /\ opened' \in SUBSET FillPrices
  BY <1>2, <1>3, <1>4
<1> HIDE DEF f
<1>6. CASE extends
  <2>1. /\ after \in PortfolioState /\ after.position # 0
        /\ \E b, q \in Int, e \in Positive :
              Accounts(after, cash - f * price, opened \cup {price}, b, q, e)
    BY <1>1, <1>2, <1>3, <1>6, ExtendKeeps
  <2> QED BY <1>4, <1>5, <1>6, <2>1 DEF PortfolioInv
<1>7. CASE ~extends
  <2> DEFINE next == Reduce(state, price, f)
             left == IF next.position = 0 THEN {}
                     ELSE IF next.position * state.position < 0 THEN {price} ELSE opened
  <2>1. after = next
    BY <1>7
  <2>2. state.position # 0 /\ (state.position > 0) # (f > 0)
    BY <1>7
  <2>3. opened' = left /\ state' = next
    BY <1>4, <1>7, <2>1
  <2>4. /\ next \in PortfolioState
        /\ \E b, q \in Int, e \in Positive :
              Accounts(next, cash - f * price, left, b, q, e)
    <3> HIDE <1>4, <1>7, <2>1, <2>3
    <3> QED BY <1>1, <1>2, <1>3, <2>2, ReduceKeeps
  <2> HIDE DEF next, left
  <2> QED BY <1>4, <1>5, <2>3, <2>4 DEF PortfolioInv
<1> QED BY <1>6, <1>7

(* It is inductive, and so holds in every reachable state.                 *)
LEMMA NextPortfolio == PortfolioInv /\ [Next]_vars => PortfolioInv'
<1> SUFFICES ASSUME PortfolioInv, [Next]_vars PROVE PortfolioInv'
  OBVIOUS
<1>1. ASSUME NEW side \in Sides, NEW price \in FillPrices, NEW qty \in FillQuantities,
             on_fill(side, price, qty)
      PROVE  PortfolioInv'
  BY <1>1, FillKeeps
<1>2. ASSUME NEW mark \in FillPrices, mark_to_market(mark) PROVE PortfolioInv'
  <2>1. mark \in Int
    BY PortfolioAssumption
  <2> QED BY <1>2, <2>1, MarkKeeps
<1>3. CASE UNCHANGED vars
  BY <1>3 DEF vars, PortfolioInv
<1> QED BY <1>1, <1>2, <1>3 DEF Next

LEMMA PortfolioInvariance == Spec => []PortfolioInv
BY InitPortfolio, NextPortfolio, PTL DEF Spec

-----------------------------------------------------------------------------
(* The results *)

(* on_fill makes and loses no money, for any sequence of fills: realized   *)
(* P&L less the cost of what is open is the cash that changed hands.       *)
THEOREM AccountingIsCashFlow == Spec => []PnlIsCashFlow
<1>1. ASSUME PortfolioInv PROVE PnlIsCashFlow
  <2>1. PICK a \in Int, r \in Int, d \in Positive : Accounts(state, cash, opened, a, r, d)
    BY <1>1 DEF PortfolioInv
  <2> DEFINE pos == state.position
  <2>2. /\ pos \in Int /\ cash \in Int
        /\ state.avg_entry_price \in Rational /\ state.realized_pnl \in Rational
        /\ Equals(state.avg_entry_price, a, d) /\ Equals(state.realized_pnl, r, d)
        /\ r - pos * a = cash * d
    BY <1>1, <2>1 DEF PortfolioInv, PortfolioState, Accounts
  <2>3. /\ Times(pos, state.avg_entry_price) \in Rational
        /\ Equals(Times(pos, state.avg_entry_price), pos * a, d)
    BY <2>2, TimesValue
  <2>4. pos * a \in Int
    BY <2>2
  <2>5. PnlIsCashFlow <=>
           Sub(state.realized_pnl, Times(pos, state.avg_entry_price)) = Whole(cash)
    BY DEF PnlIsCashFlow
  <2> HIDE DEF pos
  <2>6. \A k \in Int : r - pos * a = k * d =>
           Sub(state.realized_pnl, Times(pos, state.avg_entry_price)) = Whole(k)
    BY <2>2, <2>3, <2>4, SubValue
  <2> QED BY <2>2, <2>5, <2>6
<1> QED BY <1>1, PortfolioInvariance, PTL

(* The average entry price of an open position lies within the prices at   *)
(* which it was built up, through extensions, reductions and flips.        *)
THEOREM AverageStaysWithin == Spec => []AverageWithinOpeningPrices
<1>1. ASSUME PortfolioInv PROVE AverageWithinOpeningPrices
  <2> SUFFICES ASSUME state.position # 0
               PROVE  /\ AtMost(Whole(Min(opened)), state.avg_entry_price)
                      /\ AtMost(state.avg_entry_price, Whole(Max(opened)))
    BY DEF AverageWithinOpeningPrices
  <2>1. PICK a \in Int, r \in Int, d \in Positive : Accounts(state, cash, opened, a, r, d)
    BY <1>1 DEF PortfolioInv
  <2>2. PICK lo \in opened, hi \in opened : /\ \A p \in opened : lo <= p /\ p <= hi
                                            /\ lo * d <= a /\ a <= hi * d
    BY <2>1 DEF Accounts, Between
  <2>3. \A p \in opened : p \in Int
    BY <1>1, PortfolioAssumption DEF PortfolioInv
  <2>4. /\ Min(opened) \in opened /\ \A p \in opened : Min(opened) <= p
        /\ Max(opened) \in opened /\ \A p \in opened : Max(opened) >= p
    <3>1. \A p \in opened : lo <= p /\ hi >= p
      BY <2>2, <2>3
    <3>2. Min(opened) \in opened /\ \A p \in opened : Min(opened) <= p
      BY <3>1, Zenon DEF Min
    <3>3. Max(opened) \in opened /\ \A p \in opened : Max(opened) >= p
      BY <3>1, Zenon DEF Max
    <3> QED BY <3>2, <3>3
  <2>5. Min(opened) = lo /\ Max(opened) = hi
    BY <2>2, <2>3, <2>4
  <2> DEFINE x == state.avg_entry_price
  <2>6. x.num \in Int /\ x.den \in Nat /\ x.num * d = a * x.den
    BY <1>1, <2>1 DEF PortfolioInv, PortfolioState, Accounts, Rational, Equals, Positive
  <2>7. x.den * (lo * d) <= x.den * a /\ x.den * a <= x.den * (hi * d)
    <3>1. lo * d \in Int /\ hi * d \in Int
      BY <2>3 DEF Positive
    <3> QED BY <2>2, <2>6, <3>1, ScaleInequality
  <2>8. d * (lo * x.den) <= d * (x.num * 1) /\ d * (x.num * 1) <= d * (hi * x.den)
    <3>1. d \in Int /\ lo \in Int /\ hi \in Int
      BY <2>3 DEF Positive
    <3>2. /\ d * (lo * x.den) = x.den * (lo * d) /\ d * (hi * x.den) = x.den * (hi * d)
          /\ d * (x.num * 1) = x.num * d /\ a * x.den = x.den * a
      BY <2>6, <3>1
    <3> QED BY <2>6, <2>7, <3>2
  <2>9. lo * x.den <= x.num * 1 /\ x.num * 1 <= hi * x.den
    <3>1. lo * x.den \in Int /\ hi * x.den \in Int /\ x.num * 1 \in Int
      BY <2>3, <2>6
    <3> QED BY <2>8, <3>1, CancelFactor
  <2> QED BY <2>5, <2>9 DEF AtMost, Whole
<1> QED BY <1>1, PortfolioInvariance, PTL

(* A mark gives the total P&L that Pipeline keeps: cash and the position   *)
(* at the mark.  So reducing the portfolio to position and cash there      *)
(* loses nothing of what the loss limit reads.                             *)
THEOREM MarkIsCashForm ==
    Spec => [][\A mark \in FillPrices :
                  mark_to_market(mark) =>
                      state'.total_pnl = Whole(cash + state.position * mark)]_vars
<1> DEFINE CashForm == \A mark \in FillPrices :
                          mark_to_market(mark) =>
                              state'.total_pnl = Whole(cash + state.position * mark)
<1>1. PortfolioInv => CashForm
  <2>1. \A mark \in FillPrices : mark \in Int
    BY PortfolioAssumption
  <2> QED BY <2>1, MarkKeeps
<1>2. PortfolioInv /\ [Next]_vars => [CashForm]_vars
  BY <1>1
<1> HIDE DEF CashForm
<1>3. Spec => [][CashForm]_vars
  BY <1>2, PortfolioInvariance, PTL DEF Spec
<1> QED BY <1>3 DEF CashForm
=============================================================================
