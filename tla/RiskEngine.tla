----------------------------- MODULE RiskEngine -----------------------------
(***************************************************************************)
(* The pre-trade checks of risk/risk_engine.hpp.  Prices and P&L are in    *)
(* half ticks, as in OrderBook, so the dollar limits are doubled.          *)
(*                                                                         *)
(* The notional and the P&L are compared as doubles.  The model computes   *)
(* them exactly; where one is equal to its limit, the rounded value may be *)
(* on either side of it, and the test may or may not reject.               *)
(***************************************************************************)
EXTENDS Integers

CONSTANTS
    MaxPosition,     \* max_position
    MaxOrderSize,    \* max_order_size
    MaxNotional,     \* max_notional, in ticks
    MaxDailyLoss,    \* max_daily_loss, in ticks
    MaxOpenOrders    \* max_open_orders

ASSUME RiskAssumption ==
    /\ MaxPosition \in Nat
    /\ MaxOrderSize \in Nat
    /\ MaxNotional \in Nat
    /\ MaxDailyLoss \in Nat
    /\ MaxOpenOrders \in Nat

(* The position if the order fills completely.                             *)
resulting_position(side, qty, position) ==
    IF side = "Buy" THEN position + qty ELSE position - qty

(* The ways in which the two comparisons of doubles may fall at equality:  *)
(* the set of the tests that reject there.                                 *)
Ties(reference2, pnl2) ==
    SUBSET {test \in {"loss", "notional"} :
        \/ test = "loss" /\ pnl2 = -(2 * MaxDailyLoss)
        \/ /\ test = "notional"
           /\ \E qty \in 1..MaxOrderSize : qty * reference2 = 2 * MaxNotional}

(* The two comparisons: value > limit.                                     *)
Above(value, limit, test, ties) == value > limit \/ (value = limit /\ test \in ties)

(* Fault: the present position is tested, not the resulting one.           *)
check_present_position(side, qty, reference2, position, pnl2, open_orders, stale, ties) ==
    IF stale                                  THEN "RejectedStaleMarketData"
    ELSE IF qty <= 0 \/ qty > MaxOrderSize    THEN "RejectedMaxOrderSize"
    ELSE IF open_orders >= MaxOpenOrders      THEN "RejectedMaxOpenOrders"
    ELSE IF Above(-pnl2, 2 * MaxDailyLoss, "loss", ties)
                                              THEN "RejectedMaxDailyLoss"
    ELSE IF Above(qty * reference2, 2 * MaxNotional, "notional", ties)
                                              THEN "RejectedMaxNotional"
    ELSE IF position \notin (-MaxPosition)..MaxPosition
                                              THEN "RejectedMaxPosition"
    ELSE "Approved"

(* The checks in the order in which the code makes them.                   *)
check(side, qty, reference2, position, pnl2, open_orders, stale, ties) ==
    IF stale                                  THEN "RejectedStaleMarketData"
    ELSE IF qty <= 0 \/ qty > MaxOrderSize    THEN "RejectedMaxOrderSize"
    ELSE IF open_orders >= MaxOpenOrders      THEN "RejectedMaxOpenOrders"
    ELSE IF Above(-pnl2, 2 * MaxDailyLoss, "loss", ties)
                                              THEN "RejectedMaxDailyLoss"
    ELSE IF Above(qty * reference2, 2 * MaxNotional, "notional", ties)
                                              THEN "RejectedMaxNotional"
    ELSE IF resulting_position(side, qty, position)
                \notin (-MaxPosition)..MaxPosition
                                              THEN "RejectedMaxPosition"
    ELSE "Approved"
=============================================================================
