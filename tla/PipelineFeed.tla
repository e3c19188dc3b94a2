---------------------------- MODULE PipelineFeed ----------------------------
(***************************************************************************)
(* The pipeline behind an unreliable feed.  An exchange publishes events   *)
(* with consecutive sequence numbers, each changing the exchange's book;   *)
(* between it and process() events may be lost, repeated and reordered     *)
(* (a full ring buffer drops them, a reconnect skips them, a recorded log  *)
(* may hold anything).  The exchange and the delivery are the environment; *)
(* the pipeline is the unchanged Pipeline module.                          *)
(***************************************************************************)
EXTENDS Pipeline, Sequences

VARIABLES
    published,  \* the events published so far; the i-th has sequence i
    truth,      \* truth[i] is the exchange's book after the i-th event
    complete    \* the pipeline has seen every event since the feed's start
                \* or since a snapshot, with no long silence between them

feedVars == <<published, truth>>

(* The exchange's book before anything was published, and after event i.   *)
TrueBook(i) == IF i = 0 THEN EmptyBook ELSE truth[i]

FeedInit ==
    /\ Init
    /\ published = <<>>
    /\ truth = <<>>
    /\ complete = TRUE

(* The exchange publishes its next event.                                  *)
Publish(ev) ==
    /\ ev.sequence = Len(published) + 1
    /\ published' = Append(published, ev)
    /\ truth' = Append(truth, apply(TrueBook(Len(published)), ev))
    /\ UNCHANGED <<vars, complete>>

(* Whether a new event continues what the pipeline has seen.               *)
Continues(ev) ==
    IF feed.last_sequence = None THEN ev.sequence = 1
    ELSE /\ ev.sequence = feed.last_sequence + 1
         /\ ~StaleSince(ev.timestamp)

IsNew(ev) == feed.last_sequence = None \/ ev.sequence > feed.last_sequence

(* Any published event reaches process(), now, late, or once more.         *)
Deliver(i) ==
    /\ process(published[i])
    /\ complete' = IF IsNew(published[i])
                   THEN \/ published[i].type = "Snapshot"
                        \/ complete /\ Continues(published[i])
                   ELSE complete
    /\ UNCHANGED feedVars

Clock(now) == OnClock(now) /\ UNCHANGED <<feedVars, complete>>

FeedNext ==
    \/ \E ev \in MarketEvent : Publish(ev)
    \/ \E i \in DOMAIN published : Deliver(i)
    \/ \E now \in Timestamps : Clock(now)

FeedSpec == FeedInit /\ [][FeedNext]_<<vars, feedVars, complete>>

-----------------------------------------------------------------------------
(* Whatever was lost, repeated or reordered, each level of the pipeline's  *)
(* book is the level the exchange had, with the same quantity, right after *)
(* the last event that was applied: the sequence policy of process() never *)
(* leaves a level whose deletion or change was missed.                     *)
NoPhantomLevel ==
    feed.last_sequence # None =>
        \A s \in Sides, p \in Prices :
            book.level[s][p] > 0 =>
                book.level[s][p] = truth[feed.last_sequence].level[s][p]

(* Once the pipeline has seen every event since a snapshot, or since the   *)
(* start of the feed, its book is exactly the exchange's: duplicates and   *)
(* late events that arrive in between cost it no level.                    *)
ExactWhenComplete ==
    complete /\ feed.last_sequence # None =>
        book.level = truth[feed.last_sequence].level
=============================================================================
