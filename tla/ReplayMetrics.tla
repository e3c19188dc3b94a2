---------------------------- MODULE ReplayMetrics ----------------------------
(***************************************************************************)
(* What a replay with --profile-stages measures: the part of process() of  *)
(* the pipeline that feeds the latency histogram and the window of recent  *)
(* trades (metrics/microstructure.hpp), on the events EventLog replays.    *)
(***************************************************************************)
EXTENDS EventLog, LatencyStats

CONSTANTS
    TradeWindow,   \* trade_window_ (200 in the code)
    Durations      \* what the clock may measure for the update of the book

ASSUME MetricsAssumption ==
    /\ TradeWindow \in Nat
    /\ Durations \subseteq Int /\ \A ns \in Durations : ns < 2^TopBit
    /\ None \notin Int

VARIABLES
    last_sequence,         \* last_sequence_ of the pipeline
    trades,                \* trades_
    book_update_latency,   \* stats_.book_update_latency
    samples                \* history: the durations that were measured

metricVars == <<last_sequence, trades, book_update_latency, samples>>

MetricsInit ==
    /\ Init
    /\ last_sequence = None /\ trades = <<>>
    /\ book_update_latency = NewStats /\ samples = <<>>

LastOf(s, n) == SubSeq(s, Max({1, Len(s) - n + 1}), Len(s))

(* Fault: the window is allowed one trade more.                            *)
on_trade_one_more(w, ev) ==
    LastOf(Append(w, [quantity |-> ev.quantity, timestamp |-> ev.timestamp]), TradeWindow + 1)

on_trade(w, ev) ==
    LastOf(Append(w, [quantity |-> ev.quantity, timestamp |-> ev.timestamp]), TradeWindow)

rolling_trade_volume(w) == SumFunction([i \in DOMAIN w |-> w[i].quantity])

(* process() on an event that is late or repeated, or on a new one.        *)
Measure(ev, ns) ==
    IF last_sequence # None /\ ev.sequence <= last_sequence
    THEN UNCHANGED metricVars
    ELSE /\ last_sequence' = ev.sequence
         /\ trades' = IF ev.type = "Trade" THEN on_trade(trades, ev) ELSE trades
         /\ book_update_latency' = add_ns(book_update_latency, ns)
         /\ samples' = Append(samples, ns)

ReplayAndMeasure(ns) ==
    /\ Replay
    /\ IF replayed' = replayed THEN UNCHANGED metricVars
                               ELSE Measure(Last(replayed'), ns)

MetricsNext ==
    \/ \E ns \in Durations : ReplayAndMeasure(ns)
    \/ Next /\ main # "replay" /\ UNCHANGED metricVars

MetricsSpec ==
    /\ MetricsInit /\ [][MetricsNext]_<<logVars, metricVars>>
    /\ WF_logVars(TimeUp) /\ WF_logVars(Callback) /\ WF_logVars(Main)

-----------------------------------------------------------------------------
(* The reported percentiles are those of the samples: p percent of them    *)
(* are at most, and fewer are below, a sample that the reported value is   *)
(* at most equal to and off by at most a sixteenth of itself, exactly      *)
(* equal to if it is below 32 ns; the maximum is exact, no bucket lies     *)
(* outside the array, and what the clock measured as negative counts as 0. *)
PercentileIsNearestRank ==
    LET n         == Len(samples)
        values    == {Max({0, samples[k]}) : k \in 1..n}
        upTo(x)   == Cardinality({k \in 1..n : Max({0, samples[k]}) <= x})
        below(x)  == Cardinality({k \in 1..n : Max({0, samples[k]}) < x})
        nearest(x, p) == /\ 100 * upTo(x) >= p * n
                         /\ below(x) = 0 \/ 100 * below(x) < p * n
    IN
    /\ \A i \in BagToSet(book_update_latency.buckets) : i < kBucketCount
    /\ n > 0 => /\ book_update_latency.max \in values
                /\ \A x \in values : x <= book_update_latency.max
    /\ n > 0 => \A p \in 0..100 : \E exact \in values :
          LET shown == percentile(book_update_latency, p)
          IN  /\ nearest(exact, p)
              /\ shown <= exact
              /\ 16 * (exact - shown) <= shown
              /\ exact < 32 => shown = exact

(* The volume over the trade window is that of the latest trades of the    *)
(* log, each counted once however often and in whatever order the log      *)
(* holds it: an event counts if its sequence is above all the earlier ones.*)
VolumeOfLatestTrades ==
    LET new(i)  == \A j \in 1..(i - 1) : replayed[j].sequence < replayed[i].sequence
        counted == {i \in DOMAIN replayed : replayed[i].type = "Trade" /\ new(i)}
        latest  == {i \in counted : Cardinality({j \in counted : j > i}) < TradeWindow}
    IN  rolling_trade_volume(trades) =
            SumFunction([i \in latest |-> replayed[i].quantity])
=============================================================================
