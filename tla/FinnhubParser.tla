---------------------------- MODULE FinnhubParser ----------------------------
(***************************************************************************)
(* marketdata/finnhub_parser.cpp: one text frame becomes trades.  A frame  *)
(* is what the tests of the parser tell apart: whether it is a JSON object *)
(* at all, its type (None if that is missing or no string), and its data   *)
(* (None if that is missing or no array), an array of ticks.  A tick has   *)
(* all its fields with the right types or not.  The count of malformed     *)
(* ticks, which is only reported, is left out.                             *)
(***************************************************************************)
EXTENDS OrderBook, SequencesExt

CONSTANT Frames   \* the frames the provider sends

Tick == [well_typed : BOOLEAN, price : Int, volume : Nat, timestamp : Timestamps]

ASSUME FrameAssumption ==
    \A f \in Frames :
        /\ DOMAIN f = {"object", "type", "data"}
        /\ f.data # None => f.data \in Seq(Tick)

valid(tick) == tick.well_typed /\ tick.price > 0

(* Invalid ticks are skipped.                                              *)
keep_valid(trades, tick) == IF valid(tick) THEN Append(trades, tick) ELSE trades

valid_ticks(ticks) == FoldLeft(keep_valid, <<>>, ticks)

parse_finnhub_message(f) ==
    IF ~f.object \/ f.type = None \/ (f.type = "trade" /\ f.data = None)
    THEN [status |-> "Malformed", trades |-> <<>>]
    ELSE IF f.type # "trade" THEN [status |-> "Ignored", trades |-> <<>>]
    ELSE [status |-> "Trades", trades |-> valid_ticks(f.data)]
=============================================================================
