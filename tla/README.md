# A TLA+ model of lob-market-maker

This directory holds a TLA+ specification of the program in `src/`: a
market-making engine that keeps a limit order book from a market-data feed,
quotes around its mid price, checks every order against risk limits, fills the
orders on paper from the trades of the feed, and accounts for the result.  The
modules are checked with TLC on small instances; every safety property of a
passing run is also proved with TLAPS, for every value of the constants.

`PROJECT.json` maps each definition to the source lines it stands for, and
lists the runs, the mutants, the hazards, the findings and the theorems.

## 1. The system

| Component | State | Operations | Interaction |
|---|---|---|---|
| `Pipeline` (`common/pipeline.hpp`) | last sequence and event time, stale flag, two resting-quote slots, next order id, counters | `process(event)`, `on_clock(now)` | owns and calls everything below, on one thread |
| `OrderBook` | a sorted vector of levels per side, last update time | `apply`, `clear`, queries | written by the pipeline, read by the strategy |
| `MicrostructureCalculator` | last mid, window of returns, window of trades | `on_book_update`, `on_trade`, `reset_price_history` | its volatility widens the quotes |
| `MarketMakerStrategy` | none | `decide` | pure function of book, volatility, inventory, time |
| `RiskEngine` | none | `check` | pure function, before each order |
| `PaperExecutionEngine` | map of open orders, random generator | `submit_limit`, `submit_market`, `cancel`, `on_market_event` | trades of the feed fill the open orders |
| `Portfolio` | position, average price, P&L | `on_fill`, `mark_to_market` | fed with fills and mids, read by strategy and risk |
| `SpscRingBuffer` | slots, two atomic indices, two cached indices | `push`, `pop` | between the WebSocket thread and the main thread |
| `TradeTapeAdapter` | next sequence number, last synthetic bid and ask | `on_trade` | makes a one-level book out of a tape of trades |
| Finnhub parser | none | `parse_finnhub_message` | makes trades of a text frame, for the client |
| `FinnhubClient` | connection flag, adapter, batch | WebSocket callback, `stop` | producer of the ring |
| `run_live` (`apps/market_engine.cpp`) | ring, drop counter, stop flag, deadline | main loop, shutdown | consumer of the ring, owner of the pipeline |
| `SyntheticBookGenerator` | reference price, tracked levels, deletion queue | `next` | test data for replay and benchmarks |
| event codec, recorder, replay engine | recorded events under a mutex; a file of events | record, write, read, run | the recorder saves what the client delivers; replay calls `process` for each event |
| `LatencyStats` | counters of buckets, count, maximum | `add_ns`, `percentile` | fed by `process`, read by the reports |
| `ObjectPool` | slots that hold an object or a link, head of the free list, counters | `acquire`, `release` | benchmarks only |
| command line, configuration, reports | | | I/O |

Two threads exist in live mode, and in the recorder, which has a vector under a
mutex in place of the ring: the WebSocket library's thread parses
messages, runs the adapter and pushes into the ring; the main thread pops,
processes, looks at the clock and sleeps.  All the rest is sequential, but is
driven by an environment that loses, repeats, delays and reorders events.

What is hard here, and where a unit test hardly reaches:

* two threads sharing slots through stale, wrapped-around indices;
* a full ring that drops any event, the deletion of a level included;
* shutdown, where the main thread waits for a thread that may be pushing into
  a full ring, and drains what is left;
* two records of the resting orders (the slots of the pipeline, the map of the
  venue) that partial fills, replacements, rejects and resyncs must keep equal;
* limits checked when an order is sent and fills that come later, in pieces;
* values that are old when they are used: the P&L of the last mark, the size of
  a quote sent at another inventory, a book after a silence;
* a log whose writing broke off, read back as if it were complete;
* two clocks: event times are the provider's, staleness is judged by the local
  clock;
* sequence numbers that the program assigns itself, so that what the network
  lost leaves no gap;
* storage shared by objects and by the list of free slots;
* floating point on rounding boundaries, buckets at powers of two.

## 2. Modules

| Module | Models | Kind |
|---|---|---|
| `OrderBook` | the book as a map from prices to quantities; events; rounding to ticks | operators |
| `RiskEngine`, `MarketMaker`, `PaperExecution` | the three engines the pipeline calls | operators |
| `Pipeline` | `process()` and `on_clock()`, composing the four above with microstructure and portfolio | state machine |
| `PipelineFeed` | `Pipeline` behind an exchange and an unreliable delivery | composition |
| `TradeTapeAdapter` | `on_trade` | operators |
| `FinnhubParser` | `parse_finnhub_message`, on frames reduced to what it tests | operators |
| `LiveFeed` | parser, adapter, client callback, full ring, `Pipeline` | composition |
| `LiveLoop` | control of `run_live` and of the WebSocket thread, and the clock | state machine |
| `SpscRingBuffer` | the ring, one action per shared-memory access | state machine |
| `BoundedQueue` | what the ring promises: a bounded FIFO queue | abstract specification |
| `FlatOrderBook` | the sorted vectors of the book | state machine |
| `MarketOrder` | `submit_market`, the sweep through those vectors | operators |
| `BookMetrics` | microstructure on those vectors: statistics and the window of returns | composition |
| `LevelBook` | what the vectors promise: the map of `OrderBook` | abstract specification |
| `Portfolio` | average-cost accounting in exact rationals | state machine |
| `SyntheticBook` | the event generator and the book its events describe | state machine |
| `EventLog` | recorder, codec and replay: from the callback to a file and back | state machine |
| `LatencyStats` | the latency histogram | operators |
| `ReplayMetrics` | `EventLog` with what a profiled replay measures: latencies and the window of trades | composition |
| `ObjectPool` | the pool and its free list | state machine |
| `DataTheorems` | facts about numbers, sums, powers of two and folds that several proofs share | proofs |
| `ThreadsProofs` | theorems about `SpscRingBuffer` and `LiveLoop` | proofs |
| `PipelineProofs` | theorems about `Pipeline` | proofs |
| `FeedProofs` | theorems about `PipelineFeed` and `LiveFeed` | proofs |
| `BookProofs` | theorems about `FlatOrderBook`, `BookMetrics` and `MarketOrder` | proofs |
| `PortfolioProofs` | theorems about `Portfolio` | proofs |
| `EventLogProofs` | theorems about `EventLog` and `ReplayMetrics` | proofs |
| `ToolsProofs` | theorems about `SyntheticBook` and `ObjectPool` | proofs |
| `MC*` | finite values of the constants for TLC | instances |

Operators whose comment begins with *Fault* are mutants: plausible mistakes
that replace the definition following them, to show that a property would
notice.  No specification uses them.

### How state and actions correspond to the code

**Pipeline.**  One action is one call.  `Drop` is the early return of
`process()` for a sequence number not above the last; `Accept` is the whole
rest: gap and staleness tests, resync, `book_.apply`, microstructure, fills,
mark, the crossed-book return, and `requote()` for book-changing events.
`OnClock` is `on_clock()` when it does something.  `book`, `feed`, `micro`,
`desk` and `portfolio` group the members of the class.  Abstractions:

* Prices are ticks and mid prices half ticks, so they stay integers.
* `decide` and the requote threshold are computed exactly in 1/20000 ticks;
  where a value sits on a rounding boundary both neighbours are possible,
  which covers what the floating-point expressions yield.  The risk engine
  compares the P&L and the notional with their limits in doubles: where the
  exact values are equal, either outcome is possible (`Ties`).
* Volatility needs two stored returns, as in the code; what it then adds to
  the half spread is a choice from a set.
* The random draws of the fill model are a choice among all quantities they
  can give, for every order independently.
* The portfolio is kept as position and cash.  Module `Portfolio` shows that
  the average-cost accounting of the code is the same thing (`PnlIsCashFlow`),
  in exact rationals; what the code's doubles lose shows only at the loss limit,
  where `Ties` leaves the outcome open.
* The venue's map from ids to orders is its set of orders.

**SpscRingBuffer.**  Each action is one access to shared memory: the
comparison with the cached index, the acquire load, the plain store or load of
the slot, the release store.  A load may return any value of the other
index not older than the last one seen; history variables number the
stores to say which.

**LiveLoop.**  `loop` is the program counter of the main thread.  The
WebSocket library is external: it calls the callback from its own thread,
reconnects by itself, and its `stop()` starts no new callback and returns when
the thread has ended.  `age` is what `on_clock()` computes, the local time less
the provider's time of the last event: `Process` sets it to anything between
`-Ahead` and `Behind` (the clocks differ, and the event was under way for a
while), and `Tick` lets it grow; `silence`, a history variable, is the true time
since the last event.

**LiveFeed** has the same data path with the events themselves; the ring in it
is the queue that `SpscRingBuffer` implements.  `Receive` is one text frame:
parsed, each trade put through the adapter, the events handed to the callback
as a batch.  Frames are told apart by what the parser tests: a JSON object or
not, the type, an array of ticks or none, ticks with all fields or not, a price
above zero or not.

**FlatOrderBook.**  `find_position` is the position `std::lower_bound` returns
on a sorted vector, and `SortedLevels` shows that it is never called on another.

**MarketOrder.**  Only the tests send market orders, so they are operators on a
state of `FlatOrderBook` and not actions of the pipeline.  `BestExecution`
compares the sweep with every other way to take the quantity from the levels.

**BookMetrics.**  `ApplyAndSample` is `book_.apply` with `on_book_update`, as
`process()` calls them for every event it accepts; `ClearAndReset` is `resync()`.
A `Snapshot` event clears the book too but leaves the window alone, in the code
and in the model.  The history `seen` holds the mids of the two-sided books and
`None` for each resync.  Ratios are pairs of numerator and denominator, and a log return is the pair of
mids it is the logarithm of, so nothing is rounded.

**EventLog.**  The recorder's main thread, then the replay, is the program
counter `main`; the WebSocket thread is `Arrive` and `Callback`.  The file is
the sequence of its fields, numbers in two's complement: those from `-HalfRange` up
to `HalfRange`, which is excluded, are written modulo twice `HalfRange`.
Writing may stop after any field (`CutShort`), since the program may be killed
and does not look at the state of the stream; a field written in part is like
one not written, its read fails.  That the file held an older log which was not
replaced is left out.  **ReplayMetrics** adds to each replayed event what
`process()` measures: nothing for a repeated or late one, else a sample of the
latency histogram (any value of `Durations`, negative ones too) and, for a
trade, an entry of the trade window.  The array of counters is the bag of the
bucket indices counted; the bucket sizes are those of the code.  `TopBit` is the
highest bit of the unsigned number that is put into a bucket (63 in the code);
what the clock measures is a signed number and lies below `2^TopBit`.

**ObjectPool.**  A slot holds an object or the number of the next free slot,
whichever was written last, as the union does.  The history variables are what
the owners believe to be in their objects (`held`) and the stack of free slots
the links should thread (`free`).  `acquire_throwing` is `acquire` when the
constructor of the object throws: the slot has left the list, is counted, and
has no owner who could release it.  Releasing twice is outside the contract of
the class and not modelled.

**SyntheticBook.**  One action is one call of `next()`; the random draws are
choices, a move of the reference price without invalid levels is part of the
action that follows it.

## 3. Runs

| Run | Checks | States |
|---|---|---|
| `pipeline_risk` | `TypeOK`, `NoOrphanOrders`, `ExposureWithinLimit`, `QuotesAccountedFor`, `LossLimitGatesSubmission` | 72,700 |
| `pipeline_quotes` | `InventoryWithinSkewLimit`, `OwnQuotesNeverCross`, `QuietWhenUntrusted` | 43,075 |
| `unreliable_feed` | `NoPhantomLevel`, `ExactWhenComplete` | 180,139 |
| `live_feed` | `OneLevelPerSide`, `RepairedByOneMessage`, `EventsAccountedFor`, `LosslessFeedHasNoGap` | 789,354 |
| `live_loop` | `NothingLeftAtExit`, `NoFalseAlarm`, `StopCompletes`, `SilentFeedIsNoticed` | 14,513 |
| `spsc_ring` | `TypeOK`, `NoDataRace`, `UnreadValuesIntact`, `ImplementsQueue`, `EveryPushIsPopped` | 18,176 |
| `portfolio` | `PnlIsCashFlow`, `AverageWithinOpeningPrices` | 151,334 |
| `synthetic_book` | `TracksTheBook`, `NeverCrossed`; `ObjectsIntact`, `FreeListIsExact` | 159,744 |
| `flat_book` | `SortedLevels`, `FrontsAnswerQueries`, `BestExecution`, `ReturnsSinceResync`, `StatisticsFit`, `ImplementsLevelBook` | 52,696 |
| `event_log` | `ReplaysAPrefix`, `CompleteLogReplaysAll`, `PercentileIsNearestRank`, `VolumeOfLatestTrades`, `RecorderEnds` | 44,290 |
| `live_feed_tight_spread` | `OverlayNeverCrosses`, violated | |
| `live_loop_busy_feed` | `StopRequestIsObeyed`, violated | |

Run one with `tlc -config MCPipelineRisk.cfg MCPipeline`.  `synthetic_book` holds
the generator and the pool side by side: they share nothing, and its states are
the product of theirs.

### Bounds, and why they are enough

* `Sequences` bounds the events of the pipeline runs to six or seven.  Two
  quotes make a two-sided book and the strategy quotes; the rest leave room for
  a partial fill, a second fill, a replacement, a reject and a gap.
  Sequence numbers may be skipped, so a gap costs no event of its own.
* Three prices, quantities 1 and 2, `quote_size` 2: the smallest values
  with partial fills, prices that move and books that lock or cross.
* In `pipeline_quotes`, `unreliable_feed` and `live_feed` two timestamps further apart than `MaxStaleness`, in any order, give fresh,
  stale and backward-running time.
* `pipeline_risk` uses limits that are reached (`MaxPosition` 2,
  `MaxDailyLoss` one tick, `MaxNotional` two units at price 100), the last two
  also with equality.  `pipeline_quotes` lifts them, so that only the strategy's
  taper bounds the inventory.  Its prices are two ticks apart and its requote
  threshold is one tick at every mid: a quote is kept when its target moves by a
  tick, on one side while the other is replaced too.  The threshold is smaller
  than the half spread, which `OwnQuotesNeverCross` needs.
* `unreliable_feed` publishes three events and delivers each any number of
  times; its `QuoteSize` is 0, because only the book matters to it.
* `live_feed` handles trades up to sequence number 13 with a ring of two
  slots, less than one message: messages lose their middle or their end.  Its
  frames hold one trade, two, one behind two invalid ticks, or none in each of
  the ways the parser knows.
* `spsc_ring` pushes six values through four slots, so the indices wrap.
* `live_loop` has a ring of three and messages of up to five events.  The
  provider's clock is up to two units ahead or one behind, `MaxStaleness` is
  two: an event may look older or younger than it is, and time is counted as far
  as a test or a property tells it apart (`MaxAge`, `MaxSilence`).
* `portfolio` explores four fills: enough to open, extend, reduce and flip.
* `event_log` records up to three events, in messages of one and two, with
  numbers of three bits, both signs and both sides: a log may break off in its
  header, at the end of a record and at every field inside one.  The durations
  lie on both sides of the boundaries of buckets and of powers of two, and one
  is negative; the trade window holds one trade (200 in the code).  `TopBit` is 17
(63 in the code), because TLC's integers have 32 bits.
* `flat_book` lets a market order see two levels a side (64 in the code), so
  orders run past the levels they may see.  Its return window holds one return
  (50 in the code), so that it is full and overflows.
* `synthetic_book` has three levels per side and the reference price walks as
  far as `Prices` allows in both directions; the pool has three slots, two
  values of objects and one failed call of `acquire` (`MaxExhausted`).

Deadlock is checked except in `live_feed`, `live_loop`, their variants and
`event_log`: a tape may end, and the programs do.

### Fairness

`LiveLoop!LoopSpec` assumes weak fairness of the main thread, of a callback
that was started and of `Tick`: the operating system runs both threads, and
time passes.  Nothing is assumed
of the network, the user or the deadline.  `SpscRingBuffer!FairSpec` assumes
that the consumer keeps calling `pop()`, as the main loop does, and that a
release store is seen by acquire loads in finite time, which C++ asks of
implementations; it assumes nothing of the producer.
`EventLog!Spec` assumes that both threads run and that time passes; nothing is
assumed of the network.

## 4. Proofs

TLAPS proves, for every value of the constants allowed by the `ASSUME`s:

| Theorem | Property | Module of the property |
|---|---|---|
| `RingTypeCorrect` | `TypeOK` | `SpscRingBuffer` |
| `RingHasNoDataRace` | `NoDataRace` | |
| `RingKeepsUnreadValues` | `UnreadValuesIntact` | |
| `RingImplementsQueue` | `ImplementsQueue` (refinement) | |
| `PipelineTypeCorrect` | `TypeOK` | `Pipeline` |
| `PipelineNoOrphans` | `NoOrphanOrders` | |
| `PipelineWithinPositionLimit` | `ExposureWithinLimit` | |
| `PipelineQuiet` | `QuietWhenUntrusted` | |
| `PipelineQuotesAccountedFor` | `QuotesAccountedFor` | |
| `PipelineLossLimit` | `LossLimitGatesSubmission` (action property) | |
| `PipelineWithinSkewLimit` | `InventoryWithinSkewLimit` | |
| `PipelineQuotesNeverCross` | `OwnQuotesNeverCross`, if `SpreadAboveThreshold` | |
| `FeedLeavesNoPhantom` | `NoPhantomLevel` | `PipelineFeed` |
| `FeedExactWhenComplete` | `ExactWhenComplete` | |
| `LiveEventsAccountedFor` | `EventsAccountedFor` | `LiveFeed` |
| `LiveLosslessFeedHasNoGap` | `LosslessFeedHasNoGap` | |
| `LiveOneLevelPerSide` | `OneLevelPerSide`, if `Spread >= 2` | |
| `LiveRepairedByOneMessage` | `RepairedByOneMessage`, if `TapeInRange` | |
| `ExitAtRest` | `NothingLeftAtExit` | `LiveLoop` |
| `StaleFlagIsTrue` | `NoFalseAlarm` | |
| `BookStaysSorted` | `SortedLevels` | `FlatOrderBook` |
| `VectorsImplementLevelBook` | `ImplementsLevelBook` (refinement) | |
| `FrontsAreBest` | `FrontsAnswerQueries` | |
| `MetricsReturnsSinceResync` | `ReturnsSinceResync` | `BookMetrics` |
| `MetricsStatisticsFit` | `StatisticsFit` | |
| `MarketOrdersBestExecution` | `BestExecution` | `MarketOrder` |
| `AccountingIsCashFlow` | `PnlIsCashFlow` | `Portfolio` |
| `AverageStaysWithin` | `AverageWithinOpeningPrices` | |
| `MarkIsCashForm` | a mark yields cash + position * mark (action property) | |
| `ReplayIsAPrefix` | `ReplaysAPrefix` | `EventLog` |
| `CompleteLogReplays` | `CompleteLogReplaysAll` | |
| `WindowHoldsLatestTrades` | `VolumeOfLatestTrades` | `ReplayMetrics` |
| `PercentilesAreNearest` | `PercentileIsNearestRank` | |
| `GeneratedBookNeverCrossed` | `NeverCrossed` | `SyntheticBook` |
| `GeneratorTracksTheBook` | `TracksTheBook` | |
| `FreeListExact` | `FreeListIsExact` | `ObjectPool` |
| `ObjectsStayIntact` | `ObjectsIntact` | |

Three theorems have a hypothesis on the configuration, each because the
property is false without it or says nothing:

* `SpreadAboveThreshold`: at every mid the half spread exceeds the requote
  threshold, with one tick for rounding.  The code does not check it, and
  without it a kept quote may meet a new one (section 5).  The instance of
  `pipeline_quotes` satisfies it.
* `Spread >= 2`: the synthetic spread is two ticks or more (200 by default).
  At exactly one tick, bid and ask may lie on rounding boundaries and meet; with
  less, the run `live_feed_tight_spread` shows the violation.
* `TapeInRange`: the synthetic prices are prices of the model's book, which is a
  set of prices where the code has all of them.  `MCLiveFeed` assumes it, so TLC
  evaluates it.

**The ring.**  The indices live modulo `Capacity`, and equal indices mean
"full" or "empty" only because the counts behind them are never far apart.
The inductive invariant says so: each index is a count modulo `Capacity`
(`Indices`); the four counts are ordered, and the producer is at most
`Capacity - 1` ahead of the tail it has seen (`Distances`); slots and registers
hold the values the counts say (`Contents`).  A few lemmas about `%` turn an
inequality of indices into one of counts.  The refinement maps the queue to the
suffix of pushed values that were not popped: `PushPublish` is a push,
`PopRelease` a pop, every other step a stutter.  The proof needs
`Capacity > 1`, not that it is a power of two (the mask is modelled by `%`).

**The pipeline.**  `NoOrphanOrders` is not inductive by itself: it does
not say that two open orders of one side are the same.  `Tracked` says that
slots and open orders determine each other and that there is at most one
order per side; `Bounded` that the position, and the position after any one
complete fill, are within the limit.  At most one order per side is what makes
the per-order risk check enough: fills of the two sides pull the position in
opposite directions, so any mix of fills, whole or partial, stays between two
bounded positions.  Each operation on the desk (cancel, submit, requote,
reports) is shown to preserve this, and an action is a chain of them.
`QuietWhenUntrusted` follows since `decide` quotes nothing on a
one-sided book and every way to become crossed or stale cancels first.

`QuotesAccountedFor` adds the counters to this: each operation on the desk
changes what is open and what it counts by the same number.
`LossLimitGatesSubmission` follows because an order is sent only after a risk
check in the same step, which reads the P&L that this step has just marked.
For `InventoryWithinSkewLimit` the invariant bounds the position after a complete
fill of any open order by `max_inventory_for_skew`: a taper that leaves a
quantity to quote leaves that much room, and what fills later in the opposite
direction only widens it.
For `OwnQuotesNeverCross` a kept quote lags behind the decided price by no more
than the threshold, and the decided prices are further apart than that.

**The feeds.**  `PipelineFeed` keeps the exchange's book after every event
(`truth`).  Two books that agree on a level agree on it after the same event, so an
event that continues the last one preserves the relation between the pipeline's
book and the exchange's, and any other event either is ignored or meets an empty
book, which is part of every book.

In `LiveFeed` nothing remembers the events that are gone.  The inductive
invariant therefore says that a *script* of the tape exists: all events the
adapter has numbered and, after each, the overlay that it then stands for.  What
is in the batch is the end of the script; what is in the ring are earlier events
of it, in order and all newer than what was processed; the numbers add up; the
book is part of the overlay at the last event that was applied; and the two
quotes that end the latest message are under way or in the book, unless one was
dropped.  A new frame extends the script, each trade of it by two to five
events, of which only the deletions depend on the overlay before.

**The live loop.**  `NothingLeftAtExit` needs the order of the shutdown: once the
library was asked to stop no callback starts, once its thread was joined none is
running, so the last drain is final.  `NoFalseAlarm` needs that `age` is never
more than `silence` and `Behind` together.

**The book.**  `find_position` is right only on a sorted vector, and a vector
stays sorted only if `find_position` is right.  On a sorted vector the levels that
come before a price are an initial segment, so their number is the position that
`std::lower_bound` returns; an insertion, an overwriting or a removal there keeps
the order and changes one level of the map.  The refinement and the queries
follow.  For `ReturnsSinceResync` the invariant names the mids behind the last
resync in the history: the stored returns are the steps between them and
`last_mid_` is the last of them, or none.  `StatisticsFit` is
arithmetic on the quantities at the touch once the sums over the levels of a
sorted vector are known to be positive.

**Market orders.**  The sweep is a fold over the levels it may see.  Its state
after each of them is that of a *greedy* taking: every level before the current
one is taken whole, every level after it not at all.  Such a taking has a limit
price, with everything better taken and nothing worse.  Any other taking of the same quantity
leaves something better and takes something worse, so weighing each difference
with its distance from the limit price shows that it costs no less.  The average
price is a weighted mean of the prices taken, and rounding to a tick does not
leave an interval between ticks.

**The portfolio.**  The model's rationals are in lowest terms, which is a poor
form for a proof.  The invariant brings the average price and the realized P&L to
one common denominator, where each kind of fill (opening, extension, reduction,
flip) is arithmetic on numerators.

**The log.**  The codec loses nothing: reading the fields of a record gives the
event it was made of, for every `HalfRange`, and the j-th record of a log is at
fields 2 + 7(j - 1) to 1 + 7j.  Recorder and replay then never leave a
prefix: the file is a prefix of the log, what is loaded one of the events, what
was replayed one of what is loaded.

**The window of trades.**  The invariant is a list of the positions of the trades
that count, in their order.  A new event is appended to the list exactly if it is
a trade and its sequence is above `last_sequence_`, which is the largest one so
far; `on_trade` keeps the last `TradeWindow` entries, and those are the positions
with fewer than `TradeWindow` counted ones above them.

**The percentiles.**  With its leading one at bit m, a value lies between c and
c + 1 times `2^(m - 4)` for a c from 16 to 31, and its bucket is numbered by m and c.  So buckets
are in the order of the values, fit into the array, and their lower bound is off
by at most a sixteenth.  The invariant says that the counters up to any bucket add
up to the number of samples up to there.  The sample of rank r is the least value
that r samples do not exceed; the walk over the counters stops in its bucket, not
earlier, since what is in earlier buckets is smaller, and not later, since what is
no larger is in no later bucket.

**Shared facts.**  The community modules define a sum over a set by a choice of
the next element.  `DataTheorems` proves that the order does not matter, by
induction over the number of elements: any element may be taken out first.  That a
sum is linear, monotone and carried over by a bijection follows.  The powers of
two are known as the numbers of subsets of `1 .. m`, from which the rule for
`2^(m + 1)` is proved.  Induction is used in the form "a set of naturals with 0 and
with n + 1 for each n in it is all of them", which needs no operator as parameter.

**The generator.**  The book holds what is tracked and what is queued for
deletion, the two are disjoint and nothing is queued twice.  Tracked levels are on
their sides of the reference price; the levels of the book are on their sides of
*some* price, the present reference or, while deletions are pending, the one before
the move.  That is enough for a book that is not crossed.

**The pool.**  The two invariants are inductive together, given the types: the
links thread exactly the stack of free slots.  `acquire` pops that stack and
reads the link of its top, which is the slot below it, whether or not the
constructor then throws; `release` pushes and
links to the former top; an owner writes only where no link of the list is,
since a slot on the stack has no owner.

**Only model-checked:** the liveness properties (`EveryPushIsPopped`,
`StopCompletes`, `SilentFeedIsNoticed`, `RecorderEnds`).  They rest on fairness and
on which steps are enabled, which this prover does not handle, and stay with TLC,
as do the two violated properties.

## 5. Findings

* `live_feed_tight_spread`: the adapter's comment says its overlay can never
  leave the book crossed.  With `--synthetic-spread` below one tick both
  synthetic prices round to the same tick; the book is locked and the pipeline
  stops quoting.  At exactly one tick the same may happen to a trade in the middle
  between two ticks.
* `live_loop_busy_feed`: the inner drain loop tests neither the stop flag nor
  the deadline.  A feed that refills the ring as fast as the main thread drains
  it postpones both without limit, contrary to the start-up message.

Observations that are not findings:

* The strategy's staleness test and the risk engine's stale-data reject cannot
  fire inside the pipeline: `process()` clears the flag and stamps the book
  before it quotes.
* The loss limit stops new orders and leaves resting ones; a rejected
  replacement leaves its side without a quote.
* The generator never crosses its book, although its comment allows a
  transient (`NeverCrossed` holds).
* The first event after start has no gap test: a feed joined in the middle is
  taken as complete.  `ExactWhenComplete` therefore asks for the first event or
  a snapshot; `NoPhantomLevel` does not.
* The comment at `portfolio.hpp:34-35` multiplies the unrealized P&L by
  `position_sign`; the code rightly does not, the position being signed.
* A market order looks at 64 levels; what lies beyond them does not fill it.
* The recorder reports the number of events it meant to write: a full disk goes
  unnoticed, and the log then replays as a prefix.
* With a provider's clock (and delay) that lags by `max_staleness_sec` or more,
  every look at the clock finds a fresh feed stale, and the quotes are canceled
  between any two events; `NoFalseAlarm` shows nothing then.  A clock that is
  ahead delays the notice of silence by as much.
* `on_book_update` is called for every accepted event, trades and heartbeats
  included, and takes the mid of a crossed book too: returns of zero dilute the
  volatility, and crossed mids are part of it.
* A resync forgets the prices but not the trade window.  A snapshot forgets
  neither: what the mid moved by between the book before the snapshot and the
  next two-sided book counts as a return.
* A constructor that throws inside `acquire` loses its slot for good, which stays
  counted as live; no type the repository puts into a pool has such a constructor.
* With a requote threshold as wide as the spread, a quote that hysteresis keeps
  may meet the own quote of the other side.

## 6. Not modelled, and the state of the work

Not modelled: command line, configuration and reports (text and I/O, no state
that a later step reads); the WebSocket and JSON libraries (external); queries
and counters that nothing but a test reads (`trade_intensity`, `mean_ns`, the
aggressor side of a trade, the client's counters); the benchmarks.

Written so far, in this order: the pipeline and its engines, the feed around
it, the ring, live mode, the portfolio, the generator, the vectors of the
book and market orders on them, the event log from recorder to replay, then the
clock of live mode, the parser, the microstructure windows, the latency
histogram and the pool.  Every part of the program that keeps state is now the
subject of a module.  Then came the proofs: the ring, the pipeline, the feeds,
the live loop, the book, the portfolio, the log, the generator and the pool, and
last the properties that rest on sums: the statistics of the book, market orders,
the window of trades and the histogram.

What could follow: a proof of the liveness properties, with a prover that handles
fairness, and the floating-point expressions themselves.  The model leaves both
outcomes open at the rounding boundaries of `decide`, of the requote threshold
and of prices made from doubles, and at equality in the two risk comparisons; the
portfolio and the statistics of the book are exact, and the rank of a percentile
is computed in exact millionths, which agrees with the code's doubles as long as
there are fewer than 10^9 samples.
