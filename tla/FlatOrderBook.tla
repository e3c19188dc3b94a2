---------------------------- MODULE FlatOrderBook ----------------------------
(***************************************************************************)
(* The representation of orderbook/order_book.hpp: one vector of levels    *)
(* per side, best price first, searched with std::lower_bound.             *)
(***************************************************************************)
EXTENDS OrderBook, SequencesExt

VARIABLES
    levels,       \* bids_ and asks_, as one function of the side
    last_update,  \* last_update_
    event         \* history: the last event, or None for a call of clear()

vars == <<levels, last_update, event>>

BookLevel == [price : Prices, quantity : Nat]

Init ==
    /\ levels = [s \in Sides |-> <<>>]
    /\ last_update = 0
    /\ event = None

(* Whether a level at price p comes before one at price q on this side.    *)
before(side, p, q) == IF side = "Buy" THEN p > q ELSE p < q

(* Fault: asks are searched in the order of bids.                          *)
find_position_descending(v, side, price) ==
    1 + Cardinality({i \in DOMAIN v : before("Buy", v[i].price, price)})

(* std::lower_bound: the first position whose level does not come before   *)
(* price, or the position past the end.                                    *)
find_position(v, side, price) ==
    1 + Cardinality({i \in DOMAIN v : before(side, v[i].price, price)})

found(v, i, price) == i \in DOMAIN v /\ v[i].price = price

upsert_level(v, side, price, qty) ==
    LET i == find_position(v, side, price)
    IN  CASE found(v, i, price) /\ qty = 0  -> RemoveAt(v, i)
          [] found(v, i, price) /\ qty # 0  -> [v EXCEPT ![i].quantity = qty]
          [] ~found(v, i, price) /\ qty # 0 ->
                InsertAt(v, i, [price |-> price, quantity |-> qty])
          [] OTHER                          -> v

(* Fault: the level found is removed whatever its price.                   *)
erase_unchecked(v, side, price) ==
    LET i == find_position(v, side, price)
    IN  IF i \in DOMAIN v THEN RemoveAt(v, i) ELSE v

erase_level(v, side, price) ==
    LET i == find_position(v, side, price)
    IN  IF found(v, i, price) THEN RemoveAt(v, i) ELSE v

-----------------------------------------------------------------------------
(* apply(ev), and clear() by the pipeline.                                 *)
Apply(ev) ==
    /\ event' = ev
    /\ last_update' = ev.timestamp
    /\ levels' =
          CASE ev.type = "Quote" ->
                 [levels EXCEPT ![ev.side] = upsert_level(@, ev.side, ev.price, ev.quantity)]
            [] ev.type = "BookDelete" ->
                 [levels EXCEPT ![ev.side] = erase_level(@, ev.side, ev.price)]
            [] ev.type = "Snapshot" -> [s \in Sides |-> <<>>]
            [] OTHER                -> levels

Clear ==
    /\ event' = None
    /\ levels' = [s \in Sides |-> <<>>]
    /\ UNCHANGED last_update

Next == Clear \/ \E ev \in MarketEvent : Apply(ev)

Spec == Init /\ [][Next]_vars

-----------------------------------------------------------------------------
(* Each vector is strictly sorted, best price first, and holds no empty    *)
(* level.  The binary search of find_position is only right on such a      *)
(* vector, and every insertion and removal has to keep it so.              *)
SortedLevels ==
    \A s \in Sides :
        /\ levels[s] \in Seq(BookLevel)
        /\ \A i, j \in DOMAIN levels[s] :
              i < j => before(s, levels[s][i].price, levels[s][j].price)
        /\ \A i \in DOMAIN levels[s] : levels[s][i].quantity # 0

(* The map the vectors stand for.                                          *)
AsBook ==
    [level |-> [s \in Sides |-> [p \in Prices |->
        IF \E i \in DOMAIN levels[s] : levels[s][i].price = p
        THEN levels[s][CHOOSE i \in DOMAIN levels[s] : levels[s][i].price = p].quantity
        ELSE 0]],
     last_update |-> last_update]

Map == INSTANCE LevelBook WITH book <- AsBook

(* The vectors implement the map: every event changes the level it names   *)
(* and no other.                                                           *)
ImplementsLevelBook == Map!Spec

(* Fault: the crossed test misses a locked market.                         *)
flat_crossed_strictly ==
    /\ levels["Buy"] # <<>> /\ levels["Sell"] # <<>>
    /\ Head(levels["Buy"]).price > Head(levels["Sell"]).price

(* crossed() of the code, from the front of each vector.                   *)
flat_crossed ==
    /\ levels["Buy"] # <<>> /\ levels["Sell"] # <<>>
    /\ Head(levels["Buy"]).price >= Head(levels["Sell"]).price

(* The queries the code answers from the fronts of the vectors (best_bid,  *)
(* best_ask, mid_price, crossed) are those of the map.                     *)
FrontsAnswerQueries ==
    /\ \A s \in Sides : levels[s] = <<>> <=> Levels(AsBook, s) = {}
    /\ TwoSided(AsBook) => /\ Head(levels["Buy"]).price = best_bid(AsBook)
                           /\ Head(levels["Sell"]).price = best_ask(AsBook)
    /\ flat_crossed <=> crossed(AsBook)
=============================================================================
