----------------------------- MODULE MCLiveFeed -----------------------------
(* Three trades half a tick apart through a ring of two events, alone, two *)
(* to a frame or next to an invalid tick, and frames without a trade.      *)
EXTENDS LiveFeed

MC_Prices == 99..102
MC_None == {}
MC_Sequences == 1..13
MC_Timestamps == {0, 2}
MC_VolWidenings == {0}

TickAt(price, ts) ==
    [well_typed |-> TRUE, price |-> price, volume |-> 0, timestamp |-> ts]

Frame(ticks) == [object |-> TRUE, type |-> "trade", data |-> ticks]

MC_Frames ==
    {Frame(<<TickAt(200, 0)>>), Frame(<<TickAt(201, 2)>>),
     Frame(<<TickAt(200, 0), TickAt(201, 2)>>),
     Frame(<<TickAt(0, 0), [TickAt(201, 0) EXCEPT !.well_typed = FALSE], TickAt(200, 2)>>),
     Frame(<<>>), Frame(None),
     [Frame(None) EXCEPT !.type = "ping"],
     [Frame(None) EXCEPT !.type = None],
     [Frame(None) EXCEPT !.object = FALSE]}

(* The tape stays within the prices of the book.                           *)
ASSUME TapeStaysInRange == TapeInRange
=============================================================================
