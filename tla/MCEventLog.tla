----------------------------- MODULE MCEventLog -----------------------------
(* Three-bit numbers, events whose fields have both signs and both sides,
   messages of one and of two events, and a window of one trade. *)
EXTENDS ReplayMetrics

MCQuote == [timestamp |-> -2, sequence |-> 3, symbol |-> "AAPL", type |-> "Quote",
            price |-> 1, quantity |-> 1, side |-> "Sell"]

MCDelete == [timestamp |-> 1, sequence |-> 1, symbol |-> "AAPL", type |-> "BookDelete",
             price |-> -1, quantity |-> 0, side |-> "Buy"]

MCTrade == [timestamp |-> 0, sequence |-> 2, symbol |-> "MSFT", type |-> "Trade",
            price |-> 1, quantity |-> 1, side |-> "Sell"]

MCLater == [MCTrade EXCEPT !.sequence = 3, !.timestamp = -1, !.quantity = 3]

MC_Messages == {<<MCTrade>>, <<MCDelete>>, <<MCDelete, MCQuote>>, <<MCTrade, MCDelete>>,
                <<MCLater>>}

(* Both sides of the buckets' boundaries, and a clock that went backwards. *)
MC_Durations == {-1, 0, 31, 32, 33, 63, 64, 1023, 1024, 70000}
=============================================================================
