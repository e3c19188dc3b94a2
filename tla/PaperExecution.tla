--------------------------- MODULE PaperExecution ---------------------------
(***************************************************************************)
(* The simulated venue of execution/paper_execution_engine: resting limit  *)
(* orders that are filled, fully or in part, by the trades of the feed.    *)
(* The random draws of the fill model are a nondeterministic choice over   *)
(* every quantity they can produce.                                        *)
(***************************************************************************)
EXTENDS OrderBook

CONSTANTS
    PartialFills,     \* whether partial_fill_probability is above 0
    MinPartialPct,    \* min_partial_fill_ratio, in percent
    MaxPartialPct     \* max_partial_fill_ratio, in percent

ASSUME FillAssumption ==
    /\ PartialFills \in BOOLEAN
    /\ MinPartialPct \in 0..100
    /\ MaxPartialPct \in MinPartialPct..100

(* open_orders_: the map from order id to order, as its set of orders.     *)
Order == [id : Nat, side : Sides, price : Int, quantity : Nat, filled : Nat]

remaining_quantity(o) == o.quantity - o.filled

submit_limit(open, id, side, price, qty) ==
    {o \in open : o.id # id} \cup
    {[id |-> id, side |-> side, price |-> price, quantity |-> qty, filled |-> 0]}

cancel(open, id) == {o \in open : o.id # id}

crosses(o, ev) ==
    IF o.side = "Buy" THEN ev.price <= o.price ELSE ev.price >= o.price

(* The quantities the fill model can draw for an order with r remaining.   *)
DrawnQuantities(r) ==
    {r} \cup
    (IF PartialFills /\ r > 1
     THEN Max({1, (r * MinPartialPct) \div 100}) ..
          Max({1, (r * MaxPartialPct) \div 100})
     ELSE {})

(* What on_market_event may fill of an open order: 0 leaves it untouched.  *)
FillQuantities(o, ev) ==
    IF ev.type = "Trade" /\ ev.own /\ crosses(o, ev)
    THEN {Min({q, ev.quantity, remaining_quantity(o)}) :
          q \in DrawnQuantities(remaining_quantity(o))}
    ELSE {0}

(* The outcomes of one event over all open orders.                         *)
Fills(open, ev) ==
    {f \in [open -> UNION {FillQuantities(o, ev) : o \in open}] :
        \A o \in open : f[o] \in FillQuantities(o, ev)}

FilledCompletely(open, f) == {o \in open : f[o] > 0 /\ f[o] = remaining_quantity(o)}

FilledPartially(open, f) == {o \in open : f[o] > 0 /\ f[o] # remaining_quantity(o)}

(* The open orders after the fills f: completed orders are removed.        *)
after_fills(open, f) ==
    {[o EXCEPT !.filled = @ + f[o]] : o \in open \ FilledCompletely(open, f)}
=============================================================================
