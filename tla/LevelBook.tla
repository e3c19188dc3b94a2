------------------------------ MODULE LevelBook ------------------------------
(***************************************************************************)
(* What an order book promises: it is a map from prices to quantities that *)
(* every event updates (the operators of OrderBook).                       *)
(***************************************************************************)
EXTENDS OrderBook

VARIABLES
    book,
    event   \* the last event, or None for a call of clear()

Init == book = EmptyBook /\ event = None

Next ==
    \/ \E ev \in MarketEvent : event' = ev /\ book' = apply(book, ev)
    \/ event' = None /\ book' = clear(book)

Spec == Init /\ [][Next]_<<book, event>>
=============================================================================
