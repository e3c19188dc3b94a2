------------------------------ MODULE LiveFeed ------------------------------
(***************************************************************************)
(* The data path of live mode (apps/market_engine.cpp, run_live, with      *)
(* marketdata/finnhub_client.cpp): the WebSocket thread parses frames,     *)
(* turns their trades into a batch of events and pushes these into the     *)
(* bounded ring, losing what does not fit; the main thread pops them into  *)
(* the pipeline and looks at the clock in between.  The ring is seen as    *)
(* the FIFO queue that SpscRingBuffer is shown to implement.  The client's *)
(* counters of messages and of malformed ones are left out.                *)
(***************************************************************************)
EXTENDS Pipeline, TradeTapeAdapter, FinnhubParser, SequencesExt

CONSTANT RingCapacity   \* the values the ring holds (2^16 - 1 in the code)

ASSUME LiveAssumption == RingCapacity \in Nat \ {0}

VARIABLES
    adapter,           \* adapter_ of the client
    batch,             \* the events of the message that are not yet pushed
    ring,              \* the ring buffer
    dropped,           \* dropped
    dropped_before,    \* history: dropped when the last trades arrived
    events_processed   \* stats_.events_processed

liveVars == <<adapter, batch, ring, dropped, dropped_before, events_processed>>

LiveInit ==
    /\ Init
    /\ adapter = NewAdapter
    /\ batch = <<>> /\ ring = <<>>
    /\ dropped = 0 /\ dropped_before = 0
    /\ events_processed = 0

(* The trade after what the ones before it have left and emitted.          *)
AfterTrade(outcomes, trade) ==
    UNION {{[adapter |-> n.adapter, events |-> o.events \o n.events] :
                n \in on_trade(o.adapter, trade)} : o \in outcomes}

(* handle_text_message: every trade of the frame goes through the adapter, *)
(* then the batch is handed on; a frame that is malformed or no trade      *)
(* message leaves no trades.  The tape is bounded by Sequences.            *)
Receive(frame) ==
    LET trades == parse_finnhub_message(frame).trades
        start == [adapter |-> adapter, events |-> <<>>]
    IN
    /\ batch = <<>>
    /\ \E o \in FoldLeft(AfterTrade, {start}, trades) :
          /\ o.adapter.seq - 1 \in Sequences \cup {0}
          /\ adapter' = o.adapter /\ batch' = o.events
    /\ dropped_before' = IF trades = <<>> THEN dropped_before ELSE dropped
    /\ UNCHANGED <<ring, dropped, events_processed, vars>>

(* Fault: the result of push() is ignored.                                 *)
Callback_uncounted ==
    /\ batch # <<>>
    /\ batch' = Tail(batch)
    /\ ring' = IF Len(ring) < RingCapacity THEN Append(ring, Head(batch)) ELSE ring
    /\ UNCHANGED <<adapter, dropped, dropped_before, events_processed, vars>>

(* The client's callback pushes the next event, or counts it as dropped.   *)
Callback ==
    /\ batch # <<>>
    /\ batch' = Tail(batch)
    /\ IF Len(ring) < RingCapacity
       THEN ring' = Append(ring, Head(batch)) /\ UNCHANGED dropped
       ELSE dropped' = dropped + 1 /\ UNCHANGED ring
    /\ UNCHANGED <<adapter, dropped_before, events_processed, vars>>

Consume ==
    /\ ring # <<>>
    /\ ring' = Tail(ring)
    /\ events_processed' = events_processed + 1
    /\ process(Head(ring))
    /\ UNCHANGED <<adapter, batch, dropped, dropped_before>>

LookAtClock(now) == OnClock(now) /\ UNCHANGED liveVars

LiveNext ==
    \/ \E frame \in Frames : Receive(frame)
    \/ Callback
    \/ Consume
    \/ \E now \in Timestamps : LookAtClock(now)

LiveSpec == LiveInit /\ [][LiveNext]_<<vars, liveVars>>

-----------------------------------------------------------------------------
(* The synthetic prices of every trade of the tape are prices of the book. *)
(* The code has no bound on prices; a proof uses this one where it speaks  *)
(* of the levels of the model's book.                                      *)
InRange(t) ==
    /\ from_double(t.price - Spread, 2) \subseteq Prices
    /\ from_double(t.price + Spread, 2) \subseteq Prices

TapeInRange ==
    \A f \in Frames : f.data # None =>
        \A i \in DOMAIN f.data : valid(f.data[i]) => InRange(f.data[i])

(* Whatever the full ring dropped, the pipeline's book never holds more    *)
(* than one synthetic level per side, and its own overlay never crosses    *)
(* it: a lost deletion cannot leave the old level behind.                  *)
OneLevelPerSide ==
    /\ \A s \in Sides : \A p, q \in Levels(book, s) : p = q
    /\ ~crossed(book)

(* One message that gets through whole repairs whatever was lost before:   *)
(* once it is consumed, the book is the adapter's overlay.                 *)
RepairedByOneMessage ==
    /\ batch = <<>> /\ ring = <<>>
    /\ adapter.bid # None
    /\ dropped = dropped_before
    => Levels(book, "Buy") = {adapter.bid} /\ Levels(book, "Sell") = {adapter.ask}

(* Every event the adapter numbered is processed, counted as dropped, or   *)
(* still under way: the two counters of the final report add up to what    *)
(* the tape held, however the two threads interleave.                      *)
EventsAccountedFor ==
    adapter.seq - 1 = events_processed + dropped + Len(ring) + Len(batch)

(* As long as the ring drops nothing the pipeline meets neither a gap nor  *)
(* a duplicate, so neither a frame that is ignored nor an invalid tick     *)
(* among valid ones costs it the book and the resting quotes.              *)
LosslessFeedHasNoGap ==
    dropped = 0 /\ ring # <<>> => ~Gap(Head(ring)) /\ ~OutOfOrder(Head(ring))

(* What the comment of the adapter says of its overlay: the book can never *)
(* be left crossed by it.                                                  *)
OverlayNeverCrosses == ~crossed(book)
=============================================================================
