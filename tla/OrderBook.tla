------------------------------ MODULE OrderBook ------------------------------
(***************************************************************************)
(* The L2 order book of orderbook/order_book.hpp, as the mapping it stands *)
(* for: each side maps a price, in ticks, to the resting quantity, and     *)
(* quantity 0 means that the side has no level at that price.  The sorted  *)
(* vectors that store it are the subject of FlatOrderBook.                 *)
(*                                                                         *)
(* Mid prices are kept in half ticks (best bid + best ask), so the mean of *)
(* two tick prices stays an integer.                                       *)
(***************************************************************************)
EXTENDS Integers, FiniteSetsExt

CONSTANTS
    MaxPrice,          \* the largest price, in ticks (an int64)
    Prices,            \* prices, in ticks, at which the feed quotes and trades
    QuoteQuantities,   \* quantities of quote events
    TradeQuantities,   \* quantities of trade events
    Sequences,         \* sequence numbers of events
    Timestamps,        \* event times and clock readings
    None               \* an empty std::optional

ASSUME FeedAssumption ==
    /\ MaxPrice \in Nat
    /\ Prices \subseteq 1 .. MaxPrice
    /\ QuoteQuantities \subseteq Nat
    /\ TradeQuantities \subseteq Nat
    /\ Sequences \subseteq Nat
    /\ Timestamps \subseteq Int

Sides == {"Buy", "Sell"}

(* Price::from_double of num/den ticks: the nearest tick, and either of    *)
(* the two nearest for a half, which the floating-point product may miss.  *)
from_double(num, den) ==
    {r \in (num \div den) .. ((num \div den) + 1) :
        /\ 2 * (num - r * den) <= den
        /\ 2 * (r * den - num) <= den}

(* The events the make_* functions build.  own tells whether a trade is of *)
(* the symbol this program trades: the book applies every event it is      *)
(* handed, while fills are simulated on trades of the own symbol only.     *)
(* Nothing reads the aggressor side of a trade, so one side stands for it. *)
Events(type, sides, prices, quantities, own) ==
    [type : {type}, side : sides, price : prices, quantity : quantities,
     sequence : Sequences, timestamp : Timestamps, own : own]

MarketEvent ==
         Events("Trade", {"Buy"}, Prices, TradeQuantities, BOOLEAN)
    \cup Events("Quote", Sides, Prices, QuoteQuantities, {TRUE})
    \cup Events("BookDelete", Sides, Prices, {0}, {TRUE})
    \cup Events("Snapshot", {"Buy"}, {0}, {0}, {TRUE})
    \cup Events("Heartbeat", {"Buy"}, {0}, {0}, {TRUE})

Book == [level : [Sides -> [Prices -> Nat]], last_update : Int]

NoLevels == [s \in Sides |-> [p \in Prices |-> 0]]

EmptyBook == [level |-> NoLevels, last_update |-> 0]

(* A quote of quantity 0 removes the level, any other quantity inserts or  *)
(* overwrites it.                                                          *)
upsert(b, side, price, qty) == [b EXCEPT !.level[side][price] = qty]

erase(b, side, price) == [b EXCEPT !.level[side][price] = 0]

clear(b) == [b EXCEPT !.level = NoLevels]

apply(b, ev) ==
    LET stamped == [b EXCEPT !.last_update = ev.timestamp]
    IN  CASE ev.type = "Quote"      -> upsert(stamped, ev.side, ev.price, ev.quantity)
          [] ev.type = "BookDelete" -> erase(stamped, ev.side, ev.price)
          [] ev.type = "Snapshot"   -> clear(stamped)
          [] OTHER                  -> stamped

Levels(b, side) == {p \in Prices : b.level[side][p] > 0}

(* The book has a mid price exactly when both sides hold a level.          *)
TwoSided(b) == \A s \in Sides : Levels(b, s) # {}

best_bid(b) == Max(Levels(b, "Buy"))
best_ask(b) == Min(Levels(b, "Sell"))

(* Twice the mid price, and 0 for the missing one (value_or(0.0)).         *)
mid2(b) == IF TwoSided(b) THEN best_bid(b) + best_ask(b) ELSE 0

(* best bid >= best ask, that is: some bid is at or above some ask.        *)
crossed(b) == \E p \in Levels(b, "Buy"), q \in Levels(b, "Sell") : p >= q
=============================================================================
