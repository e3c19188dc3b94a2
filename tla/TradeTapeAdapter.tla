-------------------------- MODULE TradeTapeAdapter --------------------------
(***************************************************************************)
(* marketdata/trade_tape_adapter.hpp: turns each trade of a tape without   *)
(* depth into the trade event and a synthetic one-level book around it.    *)
(* Trade prices are in half ticks, finer than the tick they are rounded    *)
(* to, and the spread in ticks, so half the spread is Spread half ticks.   *)
(* last_price_ and last_side_ only choose the aggressor side of the trade  *)
(* event, which nothing reads, and are left out.                           *)
(***************************************************************************)
EXTENDS OrderBook, Sequences

CONSTANT Spread   \* synthetic_spread, in ticks

ASSUME TapeAssumption == Spread \in Nat

NewAdapter == [seq |-> 1, bid |-> None, ask |-> None]

Event(type, side, price, qty, trade) ==
    [type |-> type, side |-> side, price |-> price, quantity |-> qty,
     sequence |-> 0, timestamp |-> trade.timestamp, own |-> TRUE]

(* The deletion of the previous level, if there is one and it moved.       *)
Removal(side, old, new, trade) ==
    IF old \in {None, new} THEN <<>>
    ELSE <<Event("BookDelete", side, old, 0, trade)>>

(* Fault: every trade starts numbering anew.                               *)
Numbered_anew(events, seq) ==
    [i \in DOMAIN events |-> [events[i] EXCEPT !.sequence = i]]

(* Consecutive sequence numbers from seq on.                               *)
Numbered(events, seq) ==
    [i \in DOMAIN events |-> [events[i] EXCEPT !.sequence = seq + i - 1]]

(* Fault: a level that did not move is not quoted again.                   *)
overlay_only_moved(a, trade, qty, bid, ask) ==
    Removal("Buy", a.bid, bid, trade) \o Removal("Sell", a.ask, ask, trade) \o
    (IF a.bid = bid THEN <<>> ELSE <<Event("Quote", "Buy", bid, qty, trade)>>) \o
    (IF a.ask = ask THEN <<>> ELSE <<Event("Quote", "Sell", ask, qty, trade)>>)

(* Fault: the previous levels are deleted after the new ones are quoted.   *)
overlay_quotes_first(a, trade, qty, bid, ask) ==
    <<Event("Quote", "Buy", bid, qty, trade), Event("Quote", "Sell", ask, qty, trade)>>
    \o Removal("Buy", a.bid, bid, trade) \o Removal("Sell", a.ask, ask, trade)

(* The synthetic book: previous levels go first, both new ones are quoted  *)
(* always.                                                                 *)
overlay(a, trade, qty, bid, ask) ==
    Removal("Buy", a.bid, bid, trade) \o Removal("Sell", a.ask, ask, trade) \o
    <<Event("Quote", "Buy", bid, qty, trade), Event("Quote", "Sell", ask, qty, trade)>>

(* The new state and the events, with the three prices rounded.            *)
requoted(a, trade, px, bid, ask) ==
    LET qty == Max({1, trade.volume})
        events == Numbered(<<Event("Trade", "Buy", px, qty, trade)>> \o
                           overlay(a, trade, qty, bid, ask), a.seq)
    IN  [adapter |-> [seq |-> a.seq + Len(events), bid |-> bid, ask |-> ask],
         events |-> events]

(* What on_trade can leave, for each way in which the prices are rounded.  *)
on_trade(a, trade) ==
    {requoted(a, trade, px, bid, ask) : px \in from_double(trade.price, 2),
                                        bid \in from_double(trade.price - Spread, 2),
                                        ask \in from_double(trade.price + Spread, 2)}
=============================================================================
