---------------------------- MODULE MarketOrder ----------------------------
(***************************************************************************)
(* submit_market of execution/paper_execution_engine.cpp: a market order   *)
(* sweeps the vectors of the order book, best level first.  It changes     *)
(* neither the book nor the open orders, so it is an operator, compared in *)
(* every state of the book with what the levels of the book allow.         *)
(***************************************************************************)
EXTENDS FlatOrderBook

CONSTANTS
    LevelsNeeded,      \* levels_needed (64 in the code)
    MarketQuantities   \* quantities of market orders

ASSUME MarketOrderAssumption ==
    /\ LevelsNeeded \in Nat \ {0}
    /\ MarketQuantities \subseteq Nat \ {0}

Opposite(side) == IF side = "Buy" THEN "Sell" ELSE "Buy"

(* bid_depth(n) and ask_depth(n): the n best levels, or all there are.     *)
depth(side, n) == SubSeq(levels[side], 1, Min({n, Len(levels[side])}))

(* One turn of the loop: take what is wanted and what the level has.       *)
take(order, level) ==
    LET qty == Min({order.remaining, level.quantity})
    IN  [remaining |-> order.remaining - qty,
         filled    |-> order.filled + qty,
         notional  |-> order.notional + qty * level.price]

(* Fault: the order sweeps the levels of its own side.                     *)
sweep_own_side(side, qty) ==
    FoldLeft(take, [remaining |-> qty, filled |-> 0, notional |-> 0],
             depth(side, LevelsNeeded))

(* A level met when nothing remains adds nothing: the break of the loop.   *)
sweep(side, qty) ==
    FoldLeft(take, [remaining |-> qty, filled |-> 0, notional |-> 0],
             depth(Opposite(side), LevelsNeeded))

(* The report: status, quantity, and the average price in ticks, of which  *)
(* rounding may yield one or two; no price without a fill.                 *)
submit_market(side, qty) ==
    LET s == sweep(side, qty)
    IN  [status |-> IF s.filled = qty THEN "Filled"
                    ELSE IF s.filled > 0 THEN "PartiallyFilled" ELSE "Rejected",
         fill_quantity |-> s.filled,
         fill_prices   |-> IF s.filled > 0 THEN from_double(s.notional, s.filled) ELSE {}]

-----------------------------------------------------------------------------
(* The ways to take some quantity from the levels of a side.               *)
Takings(side) ==
    {a \in [Prices -> 0 .. Max({0} \cup {AsBook.level[side][p] : p \in Prices})] :
        \A p \in Prices : a[p] <= AsBook.level[side][p]}

Taken(a) == SumFunction(a)

Cost(a) == SumFunction([p \in Prices |-> p * a[p]])

(* A market order gets the best execution the book allows: no other way to *)
(* take the same quantity from the opposite side is cheaper for a buyer or *)
(* dearer for a seller.  It is filled completely if the levels it looks at *)
(* hold enough and takes all of them if not, is rejected on an empty side  *)
(* only, and the tick its average price is rounded to lies between the     *)
(* best price and that of the last level it looks at.                     *)
BestExecution ==
    \A side \in Sides, qty \in MarketQuantities :
        LET away   == Opposite(side)
            seen   == depth(away, LevelsNeeded)
            s      == sweep(side, qty)
            report == submit_market(side, qty)
        IN
        /\ report.fill_quantity =
              Min({qty, SumFunction([i \in DOMAIN seen |-> seen[i].quantity])})
        /\ report.status = "Rejected" <=> levels[away] = <<>>
        /\ \A a \in Takings(away) : Taken(a) = report.fill_quantity =>
              IF side = "Buy" THEN s.notional <= Cost(a) ELSE s.notional >= Cost(a)
        /\ \A px \in report.fill_prices :
              /\ ~before(away, px, Head(seen).price)
              /\ ~before(away, Last(seen).price, px)
=============================================================================
