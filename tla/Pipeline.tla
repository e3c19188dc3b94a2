------------------------------ MODULE Pipeline ------------------------------
(***************************************************************************)
(* common/pipeline.hpp: the single-threaded path every market event takes, *)
(* book -> microstructure -> paper execution -> portfolio -> strategy ->   *)
(* risk -> orders, with the feed-integrity policy in front of it.          *)
(*                                                                         *)
(* One action is one call of process() or on_clock().  The events handed   *)
(* to process() are arbitrary: the feed may lose, repeat or reorder them   *)
(* and its timestamps may go backwards.                                    *)
(*                                                                         *)
(* The portfolio is kept in cash form: cash is realized_pnl minus          *)
(* position * avg_entry_price, so marking at m gives                       *)
(* total_pnl = cash + position * m, as the average-cost accounting of      *)
(* portfolio/portfolio.hpp does (the subject of module Portfolio) but for  *)
(* its rounding, which only a comparison with a limit can notice: see Ties *)
(* of RiskEngine.                                                          *)
(* Diagnostic counters that nothing reads back are left out.               *)
(***************************************************************************)
EXTENDS RiskEngine, MarketMaker, PaperExecution, FiniteSets

CONSTANTS
    RequoteThresholdBps,  \* requote_threshold_bps
    VolatilityWindow      \* volatility_window of the microstructure module

ASSUME PipelineAssumption ==
    /\ RequoteThresholdBps \in Nat
    /\ VolatilityWindow \in Nat
    /\ None \notin Int
    /\ None \notin [id : Nat, price : Int, size : Nat]

VARIABLES
    book,       \* book_
    feed,       \* last_sequence_, last_event_ts_, market_data_stale_
    micro,      \* last_mid_ present?, and the number of stored returns
    desk,       \* exec_'s open orders, the two resting slots, order counters
    portfolio   \* position, cash, the last total_pnl, and fill counters

vars == <<book, feed, micro, desk, portfolio>>

RestingQuote == [id : Nat, price : Int, size : Nat]

Desk ==
    [open_orders : SUBSET Order, resting : [Sides -> RestingQuote \cup {None}],
     next_order_id : Nat, submitted : Nat, canceled : Nat]

Account ==
    [position : Int, cash : Int, total_pnl2 : Int, fills : Nat, partial_fills : Nat]

TypeOK ==
    /\ book \in Book
    /\ feed \in [last_sequence : Sequences \cup {None},
                 last_event_ts : Timestamps \cup {None},
                 market_data_stale : BOOLEAN]
    /\ micro \in [has_mid : BOOLEAN, returns : 0..VolatilityWindow]
    /\ desk \in Desk
    /\ portfolio \in Account

Init ==
    /\ book = EmptyBook
    /\ feed = [last_sequence |-> None, last_event_ts |-> None,
               market_data_stale |-> FALSE]
    /\ micro = [has_mid |-> FALSE, returns |-> 0]
    /\ desk = [open_orders |-> {}, resting |-> [s \in Sides |-> None],
               next_order_id |-> 1, submitted |-> 0, canceled |-> 0]
    /\ portfolio = [position |-> 0, cash |-> 0, total_pnl2 |-> 0,
                    fills |-> 0, partial_fills |-> 0]

-----------------------------------------------------------------------------
(* Feed integrity *)

(* Fault: a repeated event is taken for a new one.                         *)
OutOfOrder_late_only(ev) ==
    feed.last_sequence # None /\ ev.sequence < feed.last_sequence

OutOfOrder(ev) ==
    feed.last_sequence # None /\ ev.sequence <= feed.last_sequence

(* Fault: one missing event is tolerated.                                  *)
Gap_of_two(ev) ==
    feed.last_sequence # None /\ ev.sequence > feed.last_sequence + 2

Gap(ev) ==
    feed.last_sequence # None /\ ev.sequence # feed.last_sequence + 1

StaleSince(now) ==
    feed.last_event_ts # None /\ now - feed.last_event_ts > MaxStaleness

-----------------------------------------------------------------------------
(* Microstructure: only what the strategy can observe is kept. *)

reset_price_history == [has_mid |-> FALSE, returns |-> 0]

(* Fault: the window keeps growing past its capacity.                      *)
on_book_update_uncapped(m, b) ==
    IF ~TwoSided(b) THEN m
    ELSE [has_mid |-> TRUE, returns |-> IF m.has_mid THEN m.returns + 1 ELSE m.returns]

on_book_update(m, b) ==
    IF ~TwoSided(b) THEN m
    ELSE [has_mid |-> TRUE,
          returns |-> IF m.has_mid /\ m.returns < VolatilityWindow
                      THEN m.returns + 1 ELSE m.returns]

-----------------------------------------------------------------------------
(* Orders and the two resting slots *)

(* Fault: an empty slot is counted as a cancellation.                      *)
cancel_side_always_counted(d, s) ==
    IF d.resting[s] = None THEN [d EXCEPT !.canceled = @ + 1]
    ELSE [d EXCEPT !.open_orders = cancel(@, d.resting[s].id),
                   !.resting[s] = None,
                   !.canceled = @ + 1]

cancel_side(d, s) ==
    IF d.resting[s] = None THEN d
    ELSE [d EXCEPT !.open_orders = cancel(@, d.resting[s].id),
                   !.resting[s] = None,
                   !.canceled = @ + 1]

(* Fault: only the bid is canceled.                                        *)
cancel_resting_bid(d) == cancel_side(d, "Buy")

cancel_resting_quotes(d) == cancel_side(cancel_side(d, "Buy"), "Sell")

(* Fault: every fill, partial ones too, empties the slot.                  *)
apply_reports_any_fill(d, f) ==
    LET reported == {o.id : o \in {x \in d.open_orders : f[x] > 0}}
    IN  [d EXCEPT !.open_orders = after_fills(@, f),
                  !.resting = [s \in Sides |->
                      IF @[s] # None /\ @[s].id \in reported
                      THEN None ELSE @[s]]]

(* apply_report for the reports of every fill in f: a completed order      *)
(* empties the slot that names it.                                         *)
apply_reports(d, f) ==
    LET completed == {o.id : o \in FilledCompletely(d.open_orders, f)}
    IN  [d EXCEPT !.open_orders = after_fills(@, f),
                  !.resting = [s \in Sides |->
                      IF @[s] # None /\ @[s].id \in completed
                      THEN None ELSE @[s]]]

Filled(open, f, s) == SumFunctionOnSet(f, {o \in open : o.side = s})

Paid(open, f, s) ==
    SumFunctionOnSet([o \in open |-> o.price * f[o]], {o \in open : o.side = s})

(* Portfolio::on_fill for every fill in f.                                 *)
on_fills(pf, open, f) ==
    [pf EXCEPT
        !.position = @ + Filled(open, f, "Buy") - Filled(open, f, "Sell"),
        !.cash = @ + Paid(open, f, "Sell") - Paid(open, f, "Buy"),
        !.fills = @ + Cardinality({o \in open : f[o] > 0}),
        !.partial_fills = @ + Cardinality(FilledPartially(open, f))]

(* Fault: a flat position is not marked, so the P&L it locked in is not    *)
(* seen.                                                                   *)
mark_open_position(pf, b) ==
    IF TwoSided(b) /\ pf.position # 0
    THEN [pf EXCEPT !.total_pnl2 = 2 * pf.cash + pf.position * mid2(b)]
    ELSE pf

mark_to_market(pf, b) ==
    IF TwoSided(b)
    THEN [pf EXCEPT !.total_pnl2 = 2 * pf.cash + pf.position * mid2(b)]
    ELSE pf

needs_replace(quote, price, size, threshold) ==
    \/ quote = None
    \/ quote.size # size
    \/ quote.price - price > threshold
    \/ price - quote.price > threshold

submit(d, s, price, size, reference2, pf, stale, ties) ==
    IF check(s, size, reference2, pf.position, pf.total_pnl2,
             Cardinality(d.open_orders), stale, ties) # "Approved"
    THEN d
    ELSE [d EXCEPT
            !.open_orders = submit_limit(@, d.next_order_id, s, price, size),
            !.resting[s] = [id |-> d.next_order_id, price |-> price, size |-> size],
            !.next_order_id = @ + 1,
            !.submitted = @ + 1]

cancel_unquoted(d, qd, s) == IF qd.size[s] > 0 THEN d ELSE cancel_side(d, s)

quote_side(d, qd, s, threshold, reference2, pf, stale, ties) ==
    IF /\ qd.size[s] > 0
       /\ needs_replace(d.resting[s], qd.price[s], qd.size[s], threshold)
    THEN submit(cancel_side(d, s), s, qd.price[s], qd.size[s],
                reference2, pf, stale, ties)
    ELSE d

(* Both sides the strategy no longer wants are canceled before any side    *)
(* is replaced; the bid is replaced before the ask.                        *)
requote(d, qd, threshold, reference2, pf, stale, ties) ==
    LET withdrawn == cancel_unquoted(cancel_unquoted(d, qd, "Buy"), qd, "Sell")
        bid == quote_side(withdrawn, qd, "Buy", threshold, reference2, pf, stale, ties)
    IN  quote_side(bid, qd, "Sell", threshold, reference2, pf, stale, ties)

(* Fault: the threshold is rounded up.                                     *)
Thresholds_rounded_up(reference2) == {1 + (reference2 * RequoteThresholdBps) \div 20000}

Thresholds(reference2) == Truncated(reference2 * RequoteThresholdBps, 20000)

-----------------------------------------------------------------------------
(* process() on an event that is a duplicate or late.                      *)
Drop(ev) ==
    /\ OutOfOrder(ev)
    /\ UNCHANGED vars

(* process() on an event that is applied.                                  *)
Accept(ev) ==
    LET resync == Gap(ev) \/ StaleSince(ev.timestamp)
        held   == IF resync THEN cancel_resting_quotes(desk) ELSE desk
        b      == apply(IF resync THEN clear(book) ELSE book, ev)
        m      == on_book_update(IF resync THEN reset_price_history ELSE micro, b)
    IN
    /\ ~OutOfOrder(ev)
    /\ feed' = [last_sequence |-> ev.sequence, last_event_ts |-> ev.timestamp,
                market_data_stale |-> FALSE]
    /\ book' = b
    /\ micro' = m
    /\ \E f \in Fills(held.open_orders, ev) :
         LET d  == apply_reports(held, f)
             pf == mark_to_market(on_fills(portfolio, held.open_orders, f), b)
         IN
         /\ portfolio' = pf
         /\ \/ /\ crossed(b)
               /\ desk' = cancel_resting_quotes(d)
            \/ /\ ~crossed(b)
               /\ ev.type \notin {"Quote", "BookDelete", "Snapshot"}
               /\ desk' = d
            \/ /\ ~crossed(b)
               /\ ev.type \in {"Quote", "BookDelete", "Snapshot"}
               /\ \E qd \in decide(b, m.returns, pf.position, ev.timestamp),
                     threshold \in Thresholds(mid2(b)),
                     ties \in Ties(mid2(b), pf.total_pnl2) :
                     desk' = requote(d, qd, threshold, mid2(b), pf, FALSE, ties)

process(ev) == Drop(ev) \/ Accept(ev)

(* on_clock(now) that finds the feed silent for too long.                  *)
OnClock(now) ==
    /\ ~feed.market_data_stale
    /\ StaleSince(now)
    /\ feed' = [feed EXCEPT !.market_data_stale = TRUE]
    /\ desk' = cancel_resting_quotes(desk)
    /\ UNCHANGED <<book, micro, portfolio>>

Next ==
    \/ \E ev \in MarketEvent : process(ev)
    \/ \E now \in Timestamps : OnClock(now)

Spec == Init /\ [][Next]_vars

-----------------------------------------------------------------------------
(* Properties *)

(* The slots and the venue agree: every open order is named by the slot of *)
(* its side and every occupied slot names an open order with its price and *)
(* size, not yet completely filled.  So no fill, cancel, replacement or    *)
(* resync ever orphans an order that the pipeline could no longer cancel,  *)
(* and at most one order rests per side.                                   *)
NoOrphanOrders ==
    /\ \A o \in desk.open_orders :
          /\ desk.resting[o.side] # None
          /\ desk.resting[o.side].id = o.id
          /\ o.id < desk.next_order_id
          /\ o.filled < o.quantity
    /\ \A s \in Sides : desk.resting[s] # None =>
          \E o \in desk.open_orders :
             /\ o.side = s
             /\ o.id = desk.resting[s].id
             /\ o.price = desk.resting[s].price
             /\ o.quantity = desk.resting[s].size

(* Whatever fills next, in whatever pieces and on whichever side, the      *)
(* position cannot pass max_position: the pre-trade check looks at one     *)
(* order and at the position of that moment, and the fills come later.     *)
ExposureWithinLimit ==
    /\ portfolio.position \in (-MaxPosition)..MaxPosition
    /\ \A o \in desk.open_orders :
          resulting_position(o.side, remaining_quantity(o), portfolio.position)
             \in (-MaxPosition)..MaxPosition

(* With quote_size <= max_inventory_for_skew the strategy's own taper      *)
(* alone bounds the inventory, although a resting quote was sized from an  *)
(* older inventory.                                                        *)
InventoryWithinSkewLimit ==
    QuoteSize <= MaxInventory =>
        portfolio.position \in (-MaxInventory)..MaxInventory

(* No order rests while the market data cannot be trusted: after on_clock  *)
(* found the feed silent, while the book is crossed, and while it has no   *)
(* two sides (as after every resync).                                      *)
QuietWhenUntrusted ==
    (feed.market_data_stale \/ crossed(book) \/ ~TwoSided(book)) =>
        desk.open_orders = {}

(* Every submitted quote is open, canceled once, or completely filled      *)
(* once: quotes_submitted, quotes_canceled, fills and partial_fills of the *)
(* report add up.                                                          *)
QuotesAccountedFor ==
    desk.submitted = desk.canceled + Cardinality(desk.open_orders)
                     + (portfolio.fills - portfolio.partial_fills)

(* The own bid rests below the own ask, so one trade print can only fill   *)
(* one of them and the cap of each fill by the traded quantity holds for   *)
(* both together.                                                          *)
OwnQuotesNeverCross ==
    \A o, p \in desk.open_orders :
        o.side = "Buy" /\ p.side = "Sell" => o.price < p.price

(* A new order is never sent while the account, valued at the book's       *)
(* present mid and with every fill so far counted, has lost more than      *)
(* max_daily_loss: the P&L the risk check reads is never out of date.  (At *)
(* a loss of exactly max_daily_loss the code rejects too, unless rounding  *)
(* has left the computed loss below it.)                                   *)
LossLimitGatesSubmission ==
    [][desk'.submitted > desk.submitted =>
         2 * portfolio'.cash + portfolio'.position * mid2(book')
            >= -(2 * MaxDailyLoss)]_vars
=============================================================================
