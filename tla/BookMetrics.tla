----------------------------- MODULE BookMetrics -----------------------------
(***************************************************************************)
(* metrics/microstructure.hpp on the vectors of the book: the statistics   *)
(* of the present book, and the window of mid-price returns that           *)
(* on_book_update keeps after every event.  A ratio is the pair of its     *)
(* numerator and denominator, a log return the pair of mids it is computed *)
(* from.  The window of trades is the subject of ReplayMetrics.            *)
(***************************************************************************)
EXTENDS MarketOrder

CONSTANT VolatilityWindow   \* volatility_window_ (50 in the code)

ASSUME MetricsAssumption == VolatilityWindow \in Nat

VARIABLES
    window,   \* last_mid_ and returns_
    seen      \* history: the mids that were sampled, and None for each resync,
              \* as far back as the window reaches

metricVars == <<window, seen>>

MetricsInit ==
    /\ Init
    /\ window = [last_mid |-> None, returns |-> <<>>]
    /\ seen = <<>>

(* mid_price() of the vectors v, in half ticks.                            *)
mid_price(v) ==
    IF \E s \in Sides : v[s] = <<>> THEN None
    ELSE Head(v["Buy"]).price + Head(v["Sell"]).price

Bounded(seq, n) == IF Len(seq) > n THEN Tail(seq) ELSE seq

on_book_update(w, mid) ==
    IF mid = None THEN w
    ELSE [last_mid |-> mid,
          returns  |-> IF w.last_mid = None THEN w.returns
                       ELSE Bounded(Append(w.returns, <<w.last_mid, mid>>), VolatilityWindow)]

(* Fault: the last mid is kept.                                            *)
reset_returns_only(w) == [w EXCEPT !.returns = <<>>]

reset_price_history(w) == [last_mid |-> None, returns |-> <<>>]

Remember(x) == seen' = Bounded(Append(seen, x), VolatilityWindow + 1)

(* process() applies an event.  A snapshot clears the book like a resync,  *)
(* but the window is kept.                                                 *)
ApplyAndSample(ev) ==
    /\ Apply(ev)
    /\ window' = on_book_update(window, mid_price(levels'))
    /\ IF mid_price(levels') = None THEN UNCHANGED seen
                                    ELSE Remember(mid_price(levels'))

(* resync() clears the book and forgets the prices.                        *)
ClearAndReset ==
    /\ Clear
    /\ window' = reset_price_history(window)
    /\ Remember(None)

MetricsNext == ClearAndReset \/ \E ev \in MarketEvent : ApplyAndSample(ev)

MetricsSpec == MetricsInit /\ [][MetricsNext]_<<vars, metricVars>>

-----------------------------------------------------------------------------
(* Statistics of the present book: no value unless both sides have a level *)
(* and the denominator is not 0.                                           *)

bid == Head(levels["Buy"])
ask == Head(levels["Sell"])

IfDefined(ratio) ==
    IF mid_price(levels) = None THEN None ELSE IF ratio[2] = 0 THEN None ELSE ratio

(* The spread over the mid, in basis points.                               *)
spread_bps == IfDefined(<<20000 * (ask.price - bid.price), ask.price + bid.price>>)

(* Fault: each price is weighted with the quantity of its own side.        *)
microprice_own_weights ==
    IfDefined(<<bid.price * bid.quantity + ask.price * ask.quantity,
                 bid.quantity + ask.quantity>>)

microprice ==
    IfDefined(<<bid.price * ask.quantity + ask.price * bid.quantity,
                 bid.quantity + ask.quantity>>)

imbalance(bid_vol, ask_vol) == <<bid_vol - ask_vol, bid_vol + ask_vol>>

top_of_book_imbalance == IfDefined(imbalance(bid.quantity, ask.quantity))

depth_imbalance(n) ==
    LET volume(s) == SumFunction([i \in DOMAIN depth(s, n) |-> depth(s, n)[i].quantity])
    IN  IfDefined(imbalance(volume("Buy"), volume("Sell")))

-----------------------------------------------------------------------------
(* The volatility estimate uses all the returns between the two-sided      *)
(* books since the last resync, each to the next, as many as the window    *)
(* holds, and no other: the jump over a gap of the feed is no return, nor  *)
(* does one from before the gap survive it.  A snapshot is no gap: what    *)
(* the mid moved by while a snapshot was being filled in is a return like  *)
(* any other.                                                              *)
ReturnsSinceResync ==
    LET resync == Max({0} \cup {i \in DOMAIN seen : seen[i] = None})
    IN  window.returns = [i \in 1..(Len(seen) - resync - 1) |->
                            <<seen[resync + i], seen[resync + i + 1]>>]

(* The statistics fit together.  The microprice of an uncrossed book lies  *)
(* between its best prices, on the ask's side of the mid exactly if the    *)
(* bid is the larger (a positive imbalance); no imbalance reaches 1 or -1, *)
(* and over one level it is that of the top; the spread is positive        *)
(* exactly if the book is not crossed.                                     *)
StatisticsFit ==
    mid_price(levels) # None =>
        /\ (spread_bps[1] > 0) = ~flat_crossed
        /\ depth_imbalance(1) = top_of_book_imbalance
        /\ \A n \in 1..LevelsNeeded :
              depth_imbalance(n)[1] \in -depth_imbalance(n)[2] + 1 .. depth_imbalance(n)[2] - 1
        /\ ~flat_crossed =>
              LET lean == 2 * microprice[1] - mid_price(levels) * microprice[2]
              IN  /\ bid.price * microprice[2] < microprice[1]
                  /\ microprice[1] < ask.price * microprice[2]
                  /\ (lean > 0) = (top_of_book_imbalance[1] > 0)
                  /\ (lean < 0) = (top_of_book_imbalance[1] < 0)
=============================================================================
