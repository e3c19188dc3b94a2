----------------------------- MODULE Portfolio -----------------------------
(***************************************************************************)
(* portfolio/portfolio.hpp: position, average entry price and P&L from a   *)
(* stream of fills and marks, by weighted-average-cost accounting.  The    *)
(* code computes in doubles; the model computes the same expressions in    *)
(* exact rationals, so it is about the accounting and not about rounding.  *)
(* turnover, total_volume_traded and the history vector are only reported, *)
(* and are left out.                                                       *)
(***************************************************************************)
EXTENDS Integers, FiniteSetsExt

CONSTANTS
    FillPrices,      \* prices of fills and marks, in ticks
    FillQuantities,  \* quantities of fills
    MaxFills         \* bound on the number of fills that are explored

ASSUME PortfolioAssumption ==
    /\ FillPrices \subseteq Nat \ {0}
    /\ FillQuantities \subseteq Nat \ {0}
    /\ MaxFills \in Nat

Sides == {"Buy", "Sell"}

-----------------------------------------------------------------------------
(* Rationals in lowest terms *)

Magnitude(n) == IF n < 0 THEN -n ELSE n

Quotient(n, d) ==
    LET g == Max({k \in 1..d : n % k = 0 /\ d % k = 0})
    IN  [num |-> n \div g, den |-> d \div g]

Whole(n) == [num |-> n, den |-> 1]

Add(x, y) == Quotient(x.num * y.den + y.num * x.den, x.den * y.den)
Times(k, x) == Quotient(k * x.num, x.den)
Sub(x, y) == Add(x, Times(-1, y))
Over(x, k) == IF k > 0 THEN Quotient(x.num, x.den * k)
                       ELSE Quotient(-x.num, x.den * (-k))
AtMost(x, y) == x.num * y.den <= y.num * x.den

-----------------------------------------------------------------------------
VARIABLES
    state,   \* state_
    cash,    \* history: the cash paid (negative) and received by the fills
    opened,  \* history: prices at which the open position was built up
    fills    \* history: number of fills

vars == <<state, cash, opened, fills>>

Init ==
    /\ state = [position |-> 0, avg_entry_price |-> Whole(0), realized_pnl |-> Whole(0),
                unrealized_pnl |-> Whole(0), total_pnl |-> Whole(0)]
    /\ cash = 0
    /\ opened = {}
    /\ fills = 0

SignedFill(side, qty) == IF side = "Buy" THEN qty ELSE -qty

(* A fill that opens a position or extends it.                             *)
Extend(st, price, signed_fill) ==
    LET new_notional == Add(Times(st.position, st.avg_entry_price),
                            Whole(signed_fill * price))
        new_position == st.position + signed_fill
    IN  [st EXCEPT !.avg_entry_price = Over(new_notional, new_position),
                   !.position = new_position]

(* Fault: a flip keeps the average price of the position it closed.        *)
Reduce_keeping_basis(st, price, signed_fill) ==
    LET sign == IF st.position > 0 THEN 1 ELSE -1
        closing_qty == Min({Magnitude(signed_fill), Magnitude(st.position)})
        new_position == st.position + signed_fill
    IN  [st EXCEPT
            !.realized_pnl = Add(@, Times(closing_qty * sign,
                                          Sub(Whole(price), st.avg_entry_price))),
            !.position = new_position,
            !.avg_entry_price = IF new_position = 0 THEN Whole(0) ELSE @]

(* Fault: the whole fill is realized, the part that flips included.        *)
Reduce_realizing_all(st, price, signed_fill) ==
    LET sign == IF st.position > 0 THEN 1 ELSE -1
        new_position == st.position + signed_fill
    IN  [st EXCEPT
            !.realized_pnl = Add(@, Times(Magnitude(signed_fill) * sign,
                                          Sub(Whole(price), st.avg_entry_price))),
            !.position = new_position,
            !.avg_entry_price = IF new_position * sign < 0 THEN Whole(price)
                                ELSE IF new_position = 0 THEN Whole(0) ELSE @]

(* A fill that reduces, closes or flips the position.                      *)
Reduce(st, price, signed_fill) ==
    LET sign == IF st.position > 0 THEN 1 ELSE -1
        closing_qty == Min({Magnitude(signed_fill), Magnitude(st.position)})
        new_position == st.position + signed_fill
    IN  [st EXCEPT
            !.realized_pnl = Add(@, Times(closing_qty * sign,
                                          Sub(Whole(price), st.avg_entry_price))),
            !.position = new_position,
            !.avg_entry_price = IF new_position * sign < 0 THEN Whole(price)
                                ELSE IF new_position = 0 THEN Whole(0) ELSE @]

on_fill(side, price, qty) ==
    LET signed_fill == SignedFill(side, qty)
        extends == state.position = 0 \/ (state.position > 0) = (signed_fill > 0)
        after == IF extends THEN Extend(state, price, signed_fill)
                            ELSE Reduce(state, price, signed_fill)
    IN
    /\ fills < MaxFills
    /\ fills' = fills + 1
    /\ state' = after
    /\ cash' = cash - signed_fill * price
    /\ opened' = IF after.position = 0 THEN {}
                 ELSE IF extends THEN opened \cup {price}
                 ELSE IF after.position * state.position < 0 THEN {price}
                 ELSE opened

mark_to_market(mark) ==
    LET unrealized == Times(state.position, Sub(Whole(mark), state.avg_entry_price))
    IN
    /\ state' = [state EXCEPT !.unrealized_pnl = unrealized,
                              !.total_pnl = Add(state.realized_pnl, unrealized)]
    /\ UNCHANGED <<cash, opened, fills>>

Next ==
    \/ \E side \in Sides, price \in FillPrices, qty \in FillQuantities :
          on_fill(side, price, qty)
    \/ \E mark \in FillPrices : mark_to_market(mark)

Spec == Init /\ [][Next]_vars

-----------------------------------------------------------------------------
(* Average-cost accounting makes and loses no money: through every         *)
(* opening, extension, reduction and flip, the realized P&L less the cost  *)
(* of the open position is the cash that changed hands.  So the total P&L  *)
(* after a mark is cash + position * mark, the form Pipeline keeps.        *)
PnlIsCashFlow ==
    Sub(state.realized_pnl, Times(state.position, state.avg_entry_price)) = Whole(cash)

(* The average entry price lies within the prices at which the position    *)
(* that is open now was built up, since it was last flat or flipped.       *)
AverageWithinOpeningPrices ==
    state.position # 0 =>
        /\ AtMost(Whole(Min(opened)), state.avg_entry_price)
        /\ AtMost(state.avg_entry_price, Whole(Max(opened)))
=============================================================================
