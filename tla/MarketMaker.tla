----------------------------- MODULE MarketMaker -----------------------------
(***************************************************************************)
(* The quoting strategy of strategy/market_maker.hpp.  It is a pure        *)
(* function of the book, the volatility estimate, the inventory and the    *)
(* time, computed in floating point.  The model computes it exactly, in    *)
(* 1/20000 ticks (half ticks times basis points), and returns the SET of   *)
(* decisions the rounding can yield: where the exact value sits on a       *)
(* rounding boundary, the floating-point result may fall on either side.   *)
(*                                                                         *)
(* A decision gives each side a price and a size; size 0 says that the     *)
(* side is not quoted (the quote_bid and quote_ask flags).                 *)
(***************************************************************************)
EXTENDS OrderBook

CONSTANTS
    HalfSpreadBps,       \* base_half_spread_bps
    VolWideningsBps,     \* what volatility may add to the half spread
    SkewBpsPerUnit,      \* inventory_skew_bps_per_unit
    QuoteSize,           \* quote_size
    MaxInventory,        \* max_inventory_for_skew
    MaxStaleness         \* max_staleness_sec

ASSUME StrategyAssumption ==
    /\ HalfSpreadBps \in Nat
    /\ VolWideningsBps \subseteq Nat /\ 0 \in VolWideningsBps
    /\ SkewBpsPerUnit \in Nat
    /\ QuoteSize \in Nat
    /\ MaxInventory \in Nat
    /\ MaxStaleness \in Nat

(* What truncating num/den may give: a product that is exactly an integer  *)
(* may have been rounded to just below it, as 10 * (1.0 - 0.9) is.         *)
Truncated(num, den) ==
    {num \div den} \cup
    (IF num > 0 /\ num % den = 0 THEN {(num \div den) - 1} ELSE {})

clamped_inventory(inventory) ==
    IF inventory > MaxInventory THEN MaxInventory
    ELSE IF inventory < -MaxInventory THEN -MaxInventory
    ELSE inventory

NoQuotes == [price |-> [s \in Sides |-> 0], size |-> [s \in Sides |-> 0]]

(* Fault: the taper starts one unit late.                                  *)
TaperedSizes_late(i) ==
    IF i > 0 THEN Truncated(QuoteSize * (MaxInventory + 1 - i), MaxInventory)
             ELSE {QuoteSize}

(* The size of the side on which a fill extends an inventory of i units.   *)
TaperedSizes(i) ==
    IF i > 0 THEN Truncated(QuoteSize * (MaxInventory - i), MaxInventory)
             ELSE {QuoteSize}

(* The rounded prices and tapered sizes for exact prices of bid/20000 and  *)
(* ask/20000 ticks.                                                        *)
RoundedQuotes(bid, ask, i) ==
    {[price |-> [s \in Sides |-> IF s = "Buy" THEN pb ELSE pa],
      size  |-> [s \in Sides |-> IF s = "Buy" THEN sb ELSE sa]] :
     pb \in from_double(bid, 20000), pa \in from_double(ask, 20000),
     sb \in TaperedSizes(i), sa \in TaperedSizes(-i)}

(* Quotes at half_spread basis points around the mid, shifted down by the  *)
(* skew of an inventory of i units.                                        *)
QuotesAround(m2, half_spread, i) ==
    LET bid == m2 * (10000 - half_spread - SkewBpsPerUnit * i)
        ask == m2 * (10000 + half_spread - SkewBpsPerUnit * i)
    IN  IF bid <= 0 \/ ask <= bid THEN {NoQuotes} ELSE RoundedQuotes(bid, ask, i)

(* short_term_volatility() is absent with fewer than two returns, and then *)
(* the spread is the base one.                                             *)
HalfSpreads(returns) ==
    IF returns < 2 THEN {HalfSpreadBps}
                   ELSE {HalfSpreadBps + w : w \in VolWideningsBps}

decide(b, returns, inventory, now) ==
    IF ~TwoSided(b) \/ now - b.last_update > MaxStaleness
    THEN {NoQuotes}
    ELSE UNION {QuotesAround(mid2(b), hs, clamped_inventory(inventory)) :
                hs \in HalfSpreads(returns)}
=============================================================================
