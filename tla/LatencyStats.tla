---------------------------- MODULE LatencyStats ----------------------------
(***************************************************************************)
(* metrics/latency_stats.hpp: a histogram of durations in nanoseconds,     *)
(* exact below 32, then 16 buckets for each power of two.  The array of    *)
(* counters is the bag of the bucket indices that were counted.  sum_ and  *)
(* clear() are used by nothing but tests, and are left out.                *)
(***************************************************************************)
EXTENDS Integers, Functions, FiniteSetsExt, Bags

CONSTANT TopBit   \* the highest bit of a uint64_t (63 in the code)

ASSUME LatencyAssumption == TopBit \in Nat /\ TopBit >= 4

(* 32 + 59 * 16 for 64 bits.                                               *)
kBucketCount == 32 + (TopBit - 4) * 16

NewStats == [buckets |-> EmptyBag, count |-> 0, max |-> 0]

(* Fault: five bits of v below its leading one are used, not four.         *)
bucket_of_five_bits(v) ==
    IF v < 32 THEN v
    ELSE LET m == CHOOSE m \in 5..TopBit : v \div 2^m = 1
         IN  32 + (m - 5) * 16 + ((v \div 2^(m - 5)) % 16)

(* m is the position of the leading one: 63 - countl_zero(v).              *)
bucket_of(v) ==
    IF v < 32 THEN v
    ELSE LET m == CHOOSE m \in 5..TopBit : v \div 2^m = 1
         IN  32 + (m - 5) * 16 + ((v \div 2^(m - 4)) % 16)

lower_bound_of(i) ==
    IF i < 32 THEN i
    ELSE LET k == i - 32
         IN  (16 + (k % 16)) * 2^((k \div 16) + 1)

add_ns(st, ns) ==
    LET v == Max({0, ns})
    IN  [buckets |-> st.buckets (+) SetToBag({bucket_of(v)}),
         count   |-> st.count + 1,
         max     |-> Max({st.max, v})]

(* A number of hundredths plus 0.999999, truncated.  (While the number is  *)
(* below 10^9, the rounding of the doubles is less than a millionth and    *)
(* does not change the result.)                                            *)
rounded_up(hundredths) == (10000 * hundredths + 999999) \div 1000000

(* The sample to report for p percent.                                     *)
rank(p, count) == Min({count, Max({1, rounded_up(p * count)})})

percentile(st, p) ==
    LET upto(i)  == {j \in BagToSet(st.buckets) : j <= i}
        cumulative(i) == SumFunctionOnSet(st.buckets, upto(i))
        reached  == {i \in BagToSet(st.buckets) : cumulative(i) >= rank(p, st.count)}
    IN  CASE st.count = 0   -> 0
          [] reached # {}   -> lower_bound_of(Min(reached))
          [] OTHER          -> st.max
=============================================================================
