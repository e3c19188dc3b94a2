---------------------------- MODULE SyntheticBook ----------------------------
(***************************************************************************)
(* tools/synthetic_book.hpp: the generator of synthetic L2 events, feeding *)
(* an order book as the replay tools do.  One action is one call of        *)
(* next(), its random draws a choice, and the event it returns is applied  *)
(* to the book at once.  The tick is 1.                                    *)
(***************************************************************************)
EXTENDS OrderBook, SequencesExt

CONSTANTS
    LevelsPerSide,   \* kLevelsPerSide
    StartPrice       \* start_price, in ticks

ASSUME GeneratorAssumption ==
    /\ LevelsPerSide \in Nat \ {0}
    /\ StartPrice \in Nat

VARIABLES
    ref,       \* ref_
    tracked,   \* bids_ and asks_, as one function of the side
    pending,   \* pending_: levels still to be deleted
    book       \* the order book that applies the events

vars == <<ref, tracked, pending, book>>

Init ==
    /\ ref = StartPrice
    /\ tracked = [s \in Sides |-> {}]
    /\ pending = <<>>
    /\ book = EmptyBook

Opposite(side) == IF side = "Buy" THEN "Sell" ELSE "Buy"

(* Fault: the levels start at the reference price itself.                  *)
Window_from_reference(r, side) ==
    IF side = "Buy" THEN (r - LevelsPerSide + 1) .. r
                    ELSE r .. (r + LevelsPerSide - 1)

(* The levels a side may hold around the reference price r.                *)
Window(r, side) ==
    IF side = "Buy" THEN (r - LevelsPerSide) .. (r - 1)
                    ELSE (r + 1) .. (r + LevelsPerSide)

(* A std::set of prices in the order of its iterators, and of its reverse  *)
(* iterators.                                                              *)
Ascending(S) ==
    CHOOSE q \in [1..Cardinality(S) -> S] : \A i, j \in DOMAIN q : i < j => q[i] < q[j]

Descending(S) == Reverse(Ascending(S))

(* Fault: levels that fell behind the window are kept.                     *)
Invalid_inner_only(r, side) ==
    {p \in tracked[side] : IF side = "Buy" THEN p >= r ELSE p <= r}

(* The tracked levels that a reference price r makes invalid.              *)
Invalid(r, side) == tracked[side] \ Window(r, side)

Deletions(side, prices) == [i \in DOMAIN prices |-> <<side, prices[i]>>]

(* The event and its effect on the book; nothing reads its other fields.   *)
Emit(type, side, price, qty) ==
    book' = apply(book, [type |-> type, side |-> side, price |-> price,
                         quantity |-> qty, timestamp |-> 0])

-----------------------------------------------------------------------------
(* The reference moves a tick and leaves invalid levels: the first of them *)
(* is deleted.  StaysInRange bounds the walk to the prices explored.       *)
StaysInRange(r) == Window(r, "Buy") \cup Window(r, "Sell") \subseteq Prices

MoveAndDelete(step) ==
    LET r == ref + step
        queue == Deletions("Buy", Ascending(Invalid(r, "Buy"))) \o
                 Deletions("Sell", Ascending(Invalid(r, "Sell")))
    IN
    /\ pending = <<>>
    /\ StaysInRange(r)
    /\ queue # <<>>
    /\ ref' = r
    /\ tracked' = [s \in Sides |-> tracked[s] \ Invalid(r, s)]
    /\ pending' = Tail(queue)
    /\ Emit("BookDelete", Head(queue)[1], Head(queue)[2], 0)

DeletePending ==
    /\ pending # <<>>
    /\ pending' = Tail(pending)
    /\ Emit("BookDelete", Head(pending)[1], Head(pending)[2], 0)
    /\ UNCHANGED <<ref, tracked>>

(* The reference stays, or moves to r without making a level invalid, and  *)
(* one of the other events follows.                                        *)
Settles(r) ==
    /\ pending = <<>>
    /\ r \in {ref - 1, ref, ref + 1}
    /\ StaysInRange(r)
    /\ \A s \in Sides : Invalid(r, s) = {}
    /\ ref' = r

Heartbeat(r) ==
    /\ Settles(r)
    /\ Emit("Heartbeat", "Buy", 0, 0)
    /\ UNCHANGED <<tracked, pending>>

(* make_quote(): also what try_trade and try_cancel fall back to.          *)
Quote(r, side, price) ==
    /\ Settles(r)
    /\ price \in Window(r, side)
    /\ tracked' = [tracked EXCEPT ![side] = @ \cup {price}]
    /\ Emit("Quote", side, price, 1)
    /\ UNCHANGED pending

(* try_trade(): an aggressor sweeps the best n levels of the other side    *)
(* and prints at the last; those before it are consumed.                   *)
Trade(r, aggressor, n) ==
    LET side   == Opposite(aggressor)
        levels == IF aggressor = "Buy" THEN Ascending(tracked[side])
                                       ELSE Descending(tracked[side])
        consumed == SubSeq(levels, 1, n - 1)
    IN
    /\ Settles(r)
    /\ n \in DOMAIN levels
    /\ tracked' = [tracked EXCEPT ![side] = @ \ ToSet(consumed)]
    /\ pending' = Deletions(side, consumed)
    /\ Emit("Trade", aggressor, levels[n], 1)

Cancel(r, side, price) ==
    /\ Settles(r)
    /\ price \in tracked[side]
    /\ tracked' = [tracked EXCEPT ![side] = @ \ {price}]
    /\ Emit("BookDelete", side, price, 0)
    /\ UNCHANGED pending

Next ==
    \/ \E step \in {-1, 1} : MoveAndDelete(step)
    \/ DeletePending
    \/ \E r \in {ref - 1, ref, ref + 1} :
          \/ Heartbeat(r)
          \/ \E side \in Sides :
                \/ \E price \in Prices : Quote(r, side, price) \/ Cancel(r, side, price)
                \/ \E n \in 1..LevelsPerSide : Trade(r, side, n)

Spec == Init /\ [][Next]_vars

-----------------------------------------------------------------------------
(* The book the events describe is never crossed, not even between a move  *)
(* of the reference price and the last of the deletions it causes.         *)
NeverCrossed == ~crossed(book)

(* The generator's idea of the book is right: what it tracks, together     *)
(* with what it has still to delete, is what the book holds, so no level   *)
(* is forgotten, and each side stays within its number of levels.          *)
TracksTheBook ==
    \A s \in Sides :
        /\ Levels(book, s) = tracked[s] \cup {d[2] : d \in {e \in ToSet(pending) : e[1] = s}}
        /\ Cardinality(Levels(book, s)) <= LevelsPerSide
=============================================================================
