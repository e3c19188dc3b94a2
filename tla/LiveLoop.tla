------------------------------ MODULE LiveLoop ------------------------------
(***************************************************************************)
(* The control of live mode (run_live of apps/market_engine.cpp with       *)
(* marketdata/finnhub_client.cpp): the main loop, the WebSocket thread,    *)
(* the way the one stops the other, and the clock.  Events are not told    *)
(* apart here, only counted in the ring and in the message being handled;  *)
(* what they carry is the subject of LiveFeed.                             *)
(*                                                                         *)
(* The WebSocket library is external: it calls the client's callback from  *)
(* a thread of its own, reconnects by itself, and its stop() starts no new *)
(* callback and returns when that thread has ended.                        *)
(*                                                                         *)
(* on_clock() subtracts the provider's time of the last event from the     *)
(* local time.  Only this difference is kept.  When an event is processed  *)
(* it is what the two clocks differ by and how long the event was under    *)
(* way; from then on it grows with time.                                   *)
(***************************************************************************)
EXTENDS Integers, FiniteSetsExt

CONSTANTS
    RingCapacity,  \* the values the ring holds
    MaxBatch,      \* the most events one message turns into
    MaxStaleness,  \* max_staleness_sec
    Ahead,         \* how far the provider's clock may be ahead of the local one
    Behind,        \* how far it may be behind, the delay of an event included
    None           \* an empty std::optional

ASSUME LoopAssumption ==
    /\ RingCapacity \in Nat \ {0}
    /\ {MaxBatch, MaxStaleness, Ahead, Behind} \subseteq Nat
    /\ None \notin Int

VARIABLES
    loop,       \* where the main thread is
    g_stop,     \* set by the SIGINT handler
    deadline,   \* whether duration_sec has passed
    ring,       \* number of events in the ring
    ws,         \* the WebSocket connection, as the library sees it
    connected,  \* connected_, as the client reports it
    batch,      \* events of the current message not yet pushed
    age,        \* now_ns() - last_event_ts_, or None before the first event
    stale,      \* market_data_stale_
    silence     \* history: the time since an event was processed

requests == <<g_stop, deadline>>
link == <<ws, connected>>
clock == <<age, stale, silence>>
loopVars == <<loop, requests, ring, link, batch, clock>>

(* Beyond these neither a test of the code nor a property tells two apart. *)
MaxAge == MaxStaleness + 1
MaxSilence == MaxStaleness + Ahead + 1

(* After client.start().                                                   *)
LoopInit ==
    /\ loop = "test"
    /\ g_stop = FALSE /\ deadline = FALSE
    /\ ring = 0
    /\ ws = "connecting" /\ connected = FALSE
    /\ batch = 0
    /\ age = None /\ stale = FALSE /\ silence = 0

-----------------------------------------------------------------------------
(* The world: a signal, the passing of time, the network.                  *)
Sigint ==
    /\ ~g_stop /\ g_stop' = TRUE
    /\ UNCHANGED <<loop, deadline, ring, link, batch, clock>>

TimeUp ==
    /\ ~deadline /\ deadline' = TRUE
    /\ UNCHANGED <<loop, g_stop, ring, link, batch, clock>>

Tick ==
    /\ age # None /\ (age < MaxAge \/ silence < MaxSilence)
    /\ age' = IF age < MaxAge THEN age + 1 ELSE age
    /\ silence' = Min({silence + 1, MaxSilence})
    /\ UNCHANGED <<loop, requests, ring, link, batch, stale>>

(* The callback's Open, Close/Error and Message branches.  A message that  *)
(* is malformed or ignored turns into no event.                            *)
Open ==
    /\ ws = "connecting"
    /\ ws' = "open" /\ connected' = TRUE
    /\ UNCHANGED <<loop, requests, ring, batch, clock>>

Lost ==
    /\ ws = "open" /\ batch = 0
    /\ ws' = "connecting" /\ connected' = FALSE
    /\ UNCHANGED <<loop, requests, ring, batch, clock>>

Message(n) ==
    /\ ws = "open" /\ batch = 0
    /\ batch' = n
    /\ UNCHANGED <<loop, requests, ring, link, clock>>

Push ==
    /\ batch > 0 /\ batch' = batch - 1
    /\ ring' = IF ring < RingCapacity THEN ring + 1 ELSE ring
    /\ UNCHANGED <<loop, requests, link, clock>>

(* Fault: the callback waits for room instead of dropping the event.       *)
Callback_waiting == ring < RingCapacity /\ Push

(* The event callback: push, or drop when the ring is full.                *)
Callback == Push

-----------------------------------------------------------------------------
(* The main thread.                                                        *)
Test ==
    /\ loop = "test"
    /\ loop' = IF g_stop \/ deadline THEN "stop" ELSE "drain"
    /\ UNCHANGED <<requests, ring, link, batch, clock>>

(* Fault: an event does not renew last_event_ts_.                          *)
Process_keeping_time(lag) ==
    /\ age' = IF age = None THEN lag ELSE age
    /\ stale' = FALSE /\ silence' = 0

(* What process() does to the members that on_clock() reads.               *)
Process(lag) == age' = lag /\ stale' = FALSE /\ silence' = 0

(* while (auto ev = ring.pop()) pipeline.process( *ev), one event, and     *)
(* where the thread goes when the ring is empty.                           *)
Drained(next) ==
    /\ IF ring > 0
       THEN /\ ring' = ring - 1
            /\ \E lag \in (-Ahead)..Behind : Process(lag)
            /\ UNCHANGED loop
       ELSE loop' = next /\ UNCHANGED <<ring, clock>>
    /\ UNCHANGED <<requests, link, batch>>

(* Fault: after a drain the loop sleeps without looking at the clock.      *)
Drain_skipping_clock == loop = "drain" /\ Drained("sleep")

Drain == loop = "drain" /\ Drained("clock")

(* pipeline.on_clock(now_ns()).                                            *)
LookAtClock ==
    /\ loop = "clock"
    /\ loop' = "sleep"
    /\ stale' = (stale \/ (age # None /\ age > MaxStaleness))
    /\ UNCHANGED <<requests, ring, link, batch, age, silence>>

Sleep ==
    /\ loop = "sleep"
    /\ loop' = "test"
    /\ UNCHANGED <<requests, ring, link, batch, clock>>

(* client.stop() asks the library to stop, ...                             *)
Stop ==
    /\ loop = "stop"
    /\ loop' = "join" /\ ws' = "closing"
    /\ UNCHANGED <<requests, ring, connected, batch, clock>>

(* Fault: the WebSocket thread is not waited for.                          *)
Join_early ==
    /\ loop = "join"
    /\ loop' = "final" /\ ws' = "stopped" /\ connected' = FALSE
    /\ UNCHANGED <<requests, ring, batch, clock>>

(* ... waits for its thread, and clears connected_.                        *)
Join ==
    /\ loop = "join" /\ batch = 0
    /\ loop' = "final" /\ ws' = "stopped" /\ connected' = FALSE
    /\ UNCHANGED <<requests, ring, batch, clock>>

(* The drain after the loop, up to the report.                             *)
FinalDrain == loop = "final" /\ Drained("done")

-----------------------------------------------------------------------------
Main == Test \/ Drain \/ LookAtClock \/ Sleep \/ Stop \/ Join \/ FinalDrain

Network == Open \/ Lost \/ \E n \in 0..MaxBatch : Message(n)

LoopNext == Sigint \/ TimeUp \/ Tick \/ Network \/ Callback \/ Main

(* Time passes and both threads run: the main thread takes its next step   *)
(* when it can, and a callback that was started comes to its end.  Nothing *)
(* is assumed of the network, the user or the deadline.                    *)
LoopSpec ==
    /\ LoopInit /\ [][LoopNext]_loopVars
    /\ WF_loopVars(Tick) /\ WF_loopVars(Main) /\ WF_loopVars(Callback)

-----------------------------------------------------------------------------
(* The report is made of a program at rest: when run_live is done no event *)
(* waits in the ring or in a callback, and the client reports that it is   *)
(* disconnected.  An event pushed behind the final drain would be lost     *)
(* without being counted.                                                  *)
NothingLeftAtExit ==
    loop = "done" => ring = 0 /\ batch = 0 /\ ~connected

(* on_clock() never takes a feed for silent that was heard recently: with  *)
(* clocks and delays that differ by at most Behind, market_data_stale_ is  *)
(* only set when no event was processed for max_staleness_sec less Behind. *)
NoFalseAlarm == stale => silence > MaxStaleness - Behind

(* Once the main thread has left the loop it always comes to an end,       *)
(* however full the ring is and whatever the WebSocket thread is doing:    *)
(* the thread it joins never waits for it.                                 *)
StopCompletes == (loop = "stop") ~> (loop = "done")

(* From some time on no event comes: the connection is lost, or it is open *)
(* and no message brings an event.                                         *)
FallsSilent == <>[](batch = 0)

(* If the feed falls silent for good, connected or not, that is noticed    *)
(* however far the provider's clock is ahead (unless there was no event at *)
(* all, or the program ends first), and a signal or the deadline is        *)
(* obeyed.                                                                 *)
SilentFeedIsNoticed ==
    FallsSilent => /\ <>[](stale \/ age = None \/ loop = "done")
                   /\ (g_stop \/ deadline) ~> (loop = "done")

(* What the start-up message says: Ctrl+C stops early, otherwise the       *)
(* program waits duration_sec seconds and ends.                            *)
StopRequestIsObeyed == (g_stop \/ deadline) ~> (loop = "done")
=============================================================================
