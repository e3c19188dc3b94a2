----------------------------- MODULE FeedProofs -----------------------------
(***************************************************************************)
(* Proofs about PipelineFeed and LiveFeed, for every value of their        *)
(* constants.                                                              *)
(*                                                                         *)
(* PipelineFeed: whatever a feed loses, repeats or reorders, the book      *)
(* holds no level the exchange did not have.  The argument compares two    *)
(* books that an event is applied to, the exchange's and the pipeline's.   *)
(* An event that continues the last one meets the book of the invariant;   *)
(* any other meets an empty book, which agrees with every book.            *)
(*                                                                         *)
(* LiveFeed: the events of the tape are numbered, counted and followed by  *)
(* the book whatever the ring drops.  The state does not hold the events   *)
(* that are gone, so the invariant says that a script of the whole tape    *)
(* exists: all its events, and the adapter's overlay after each.  What is  *)
(* under way is its end, and the book is part of the overlay at the last   *)
(* event that was applied.                                                 *)
(***************************************************************************)
EXTENDS PipelineFeed, LiveFeed, PipelineProofs, SequenceTheorems

-----------------------------------------------------------------------------
(* Two books under the same event *)

(* Each level of b is a level of c.                                        *)
PartOf(b, c) ==
    \A s \in Sides, p \in Prices :
        b.level[s][p] > 0 => b.level[s][p] = c.level[s][p]

(* What an event makes of one level.                                       *)
LevelAfter(ev, s, p, quantity) ==
    IF ev.type = "Snapshot" THEN 0
    ELSE IF ev.side # s \/ ev.price # p THEN quantity
    ELSE IF ev.type = "Quote" THEN ev.quantity
    ELSE IF ev.type = "BookDelete" THEN 0
    ELSE quantity

(* apply, level by level.                                                  *)
LEMMA ApplyLevel ==
    ASSUME NEW b \in Book, NEW ev, ev.side \in Sides, NEW s \in Sides, NEW p \in Prices
    PROVE  apply(b, ev).level[s][p] = LevelAfter(ev, s, p, b.level[s][p])
<1> DEFINE stamped == [b EXCEPT !.last_update = ev.timestamp]
<1>1. stamped.level = b.level /\ DOMAIN stamped = {"level", "last_update"}
      /\ stamped.level \in [Sides -> [Prices -> Nat]]
  BY DEF Book
<1> HIDE DEF stamped
<1>2. ASSUME NEW q
      PROVE  [stamped EXCEPT !.level[ev.side][ev.price] = q].level[s][p]
                = IF ev.side = s /\ ev.price = p THEN q ELSE b.level[s][p]
  BY <1>1
<1>3. CASE ev.type = "Quote"
  BY <1>2, <1>3 DEF apply, upsert, stamped, LevelAfter
<1>4. CASE ev.type = "BookDelete"
  BY <1>2, <1>4 DEF apply, erase, stamped, LevelAfter
<1>5. CASE ev.type = "Snapshot"
  <2>1. apply(b, ev) = [stamped EXCEPT !.level = NoLevels]
    BY <1>5 DEF apply, clear, stamped
  <2>2. apply(b, ev).level = NoLevels
    BY <1>1, <2>1
  <2> QED BY <1>5, <2>2 DEF NoLevels, LevelAfter
<1>6. CASE ev.type \notin {"Quote", "BookDelete", "Snapshot"}
  <2>1. apply(b, ev) = stamped
    BY <1>6 DEF apply, stamped
  <2> QED BY <1>1, <1>6, <2>1 DEF LevelAfter
<1> QED BY <1>3, <1>4, <1>5, <1>6

(* The same event keeps two such books in that relation.                   *)
LEMMA ApplyPartOf ==
    ASSUME NEW b \in Book, NEW c \in Book, NEW ev \in MarketEvent, PartOf(b, c)
    PROVE  PartOf(apply(b, ev), apply(c, ev))
<1> SUFFICES ASSUME NEW s \in Sides, NEW p \in Prices, apply(b, ev).level[s][p] > 0
             PROVE  apply(b, ev).level[s][p] = apply(c, ev).level[s][p]
  BY DEF PartOf
<1>1. /\ apply(b, ev).level[s][p] = LevelAfter(ev, s, p, b.level[s][p])
      /\ apply(c, ev).level[s][p] = LevelAfter(ev, s, p, c.level[s][p])
  BY EventFields, ApplyLevel
<1>2. b.level[s][p] > 0 => b.level[s][p] = c.level[s][p]
  BY DEF PartOf
<1> QED BY <1>1, <1>2 DEF LevelAfter

(* It keeps equal levels equal, and a snapshot makes any levels equal.     *)
LEMMA ApplySameLevels ==
    ASSUME NEW b \in Book, NEW c \in Book, NEW ev \in MarketEvent,
           b.level = c.level \/ ev.type = "Snapshot"
    PROVE  apply(b, ev).level = apply(c, ev).level
<1>1. ASSUME NEW s \in Sides, NEW p \in Prices
      PROVE  apply(b, ev).level[s][p] = apply(c, ev).level[s][p]
  <2>1. /\ apply(b, ev).level[s][p] = LevelAfter(ev, s, p, b.level[s][p])
        /\ apply(c, ev).level[s][p] = LevelAfter(ev, s, p, c.level[s][p])
    BY EventFields, ApplyLevel
  <2> QED BY <2>1 DEF LevelAfter
<1>2. apply(b, ev) \in Book /\ apply(c, ev) \in Book
  BY EventFields, FeedAssumption, ApplyOK
<1> DEFINE x == apply(b, ev).level
           y == apply(c, ev).level
<1>3. x \in [Sides -> [Prices -> Nat]] /\ y \in [Sides -> [Prices -> Nat]]
  BY <1>2 DEF Book
<1>4. \A s \in Sides, p \in Prices : x[s][p] = y[s][p]
  BY <1>1
<1> HIDE DEF x, y
<1>5. \A s \in Sides : x[s] = y[s]
  BY <1>3, <1>4
<1>6. x = y
  BY <1>3, <1>5
<1> QED BY <1>6 DEF x, y

(* A cleared book is part of any book.                                     *)
LEMMA ClearedPartOf ==
    ASSUME NEW b \in Book, NEW c
    PROVE  PartOf(clear(b), c)
<1>1. clear(b).level = NoLevels
  BY DEF clear, Book
<1> QED BY <1>1 DEF PartOf, NoLevels

-----------------------------------------------------------------------------
(* The inductive invariant *)

(* The exchange's books are those of its events, in order.                 *)
FeedHistory ==
    /\ published \in Seq(MarketEvent)
    /\ truth \in Seq(Book)
    /\ Len(truth) = Len(published)
    /\ \A i \in 1 .. Len(published) :
          /\ published[i].sequence = i
          /\ truth[i] = apply(TrueBook(i - 1), published[i])

(* The pipeline's book against the exchange's, at the last event applied.  *)
FollowsExchange ==
    /\ feed.last_sequence = None => book = EmptyBook
    /\ feed.last_sequence # None =>
          /\ feed.last_sequence \in 1 .. Len(published)
          /\ PartOf(book, truth[feed.last_sequence])
          /\ complete => book.level = truth[feed.last_sequence].level

FeedInv == IInv /\ FeedHistory /\ FollowsExchange

(* It holds before anything is published.                                  *)
LEMMA InitFeedInv == FeedInit => FeedInv
<1> SUFFICES ASSUME FeedInit PROVE FeedInv
  OBVIOUS
<1>1. IInv
  BY InitIInv DEF FeedInit
<1>2. FeedHistory
  BY DEF FeedInit, FeedHistory
<1>3. FollowsExchange
  BY DEF FeedInit, Init, FollowsExchange
<1> QED BY <1>1, <1>2, <1>3 DEF FeedInv

(* The exchange's book before and after every event is a book.             *)
LEMMA EmptyBookType == EmptyBook \in Book
BY DEF EmptyBook, Book, NoLevels

LEMMA TrueBookType ==
    ASSUME FeedHistory, NEW i \in 0 .. Len(published)
    PROVE  TrueBook(i) \in Book
BY EmptyBookType DEF FeedHistory, TrueBook

(* Publishing extends the history and touches nothing else.                *)
LEMMA PublishFeedInv ==
    ASSUME FeedInv, NEW ev \in MarketEvent, Publish(ev)
    PROVE  FeedInv'
<1> DEFINE n == Len(published)
           b == apply(TrueBook(n), ev)
<1>1. /\ published \in Seq(MarketEvent) /\ truth \in Seq(Book) /\ Len(truth) = n
      /\ n \in Nat
      /\ \A i \in 1 .. n : /\ published[i].sequence = i
                           /\ truth[i] = apply(TrueBook(i - 1), published[i])
  BY DEF FeedInv, FeedHistory
<1>2. b \in Book
  <2>1. TrueBook(n) \in Book
    BY <1>1, TrueBookType DEF FeedInv
  <2>2. ev.side \in Sides /\ ev.quantity \in Nat /\ ev.timestamp \in Int
    BY EventFields, FeedAssumption
  <2> QED BY <2>1, <2>2, ApplyOK
<1>3. /\ published' = Append(published, ev) /\ truth' = Append(truth, b)
      /\ ev.sequence = n + 1 /\ UNCHANGED <<vars, complete>>
  BY DEF Publish
<1> HIDE DEF b
<1>4. /\ published' \in Seq(MarketEvent) /\ truth' \in Seq(Book)
      /\ Len(published') = n + 1 /\ Len(truth') = n + 1
      /\ \A i \in 1 .. n : published'[i] = published[i] /\ truth'[i] = truth[i]
      /\ published'[n + 1] = ev /\ truth'[n + 1] = b
  BY <1>1, <1>2, <1>3
<1> HIDE DEF n
<1>5. \A i \in 0 .. n : TrueBook(i)' = TrueBook(i)
  BY <1>1, <1>4 DEF TrueBook
<1>6. FeedHistory'
  <2>1. ASSUME NEW i \in 1 .. (n + 1)
        PROVE  /\ published'[i].sequence = i
               /\ truth'[i] = apply(TrueBook(i - 1)', published'[i])
    <3>1. CASE i = n + 1
      <4>1. i - 1 = n /\ TrueBook(i - 1)' = TrueBook(n)
        BY <1>1, <1>5, <3>1
      <4> QED BY <1>3, <1>4, <3>1, <4>1 DEF b, n
    <3>2. CASE i \in 1 .. n
      <4>1. i - 1 \in 0 .. n
        BY <1>1, <3>2
      <4> QED BY <1>1, <1>4, <1>5, <3>2, <4>1
    <3> QED BY <1>1, <3>1, <3>2
  <2> QED BY <1>4, <2>1 DEF FeedHistory
<1>7. FollowsExchange'
  <2>1. feed' = feed /\ book' = book /\ complete' = complete
    BY <1>3 DEF vars
  <2>2. \A i \in 1 .. Len(published) : i \in 1 .. Len(published') /\ truth'[i] = truth[i]
    BY <1>1, <1>4 DEF n
  <2>3. /\ feed.last_sequence = None => book = EmptyBook
        /\ feed.last_sequence # None =>
              /\ feed.last_sequence \in 1 .. Len(published)
              /\ PartOf(book, truth[feed.last_sequence])
              /\ complete => book.level = truth[feed.last_sequence].level
    BY DEF FeedInv, FollowsExchange
  <2> QED BY <2>1, <2>2, <2>3 DEF FollowsExchange
<1>8. IInv'
  BY <1>3, NextIInv DEF FeedInv
<1> QED BY <1>6, <1>7, <1>8 DEF FeedInv

(* An event that is applied leaves the book part of the exchange's book    *)
(* after that event, and equal to it when nothing was missed.              *)
LEMMA AcceptFollows ==
    ASSUME FeedInv, NEW i \in 1 .. Len(published), Accept(published[i]),
           complete' = IF IsNew(published[i])
                       THEN \/ published[i].type = "Snapshot"
                            \/ complete /\ Continues(published[i])
                       ELSE complete,
           UNCHANGED feedVars
    PROVE  FollowsExchange'
<1> DEFINE ev == published[i]
           resync == Gap(ev) \/ StaleSince(ev.timestamp)
           start == IF resync THEN clear(book) ELSE book
           before == TrueBook(i - 1)
<1>1. /\ ev \in MarketEvent /\ ev.sequence = i /\ truth[i] = apply(before, ev)
      /\ before \in Book /\ book \in Book /\ Len(published) \in Nat
  <2>1. FeedHistory /\ i - 1 \in 0 .. Len(published)
    BY DEF FeedInv, FeedHistory
  <2>2. before \in Book
    BY <2>1, TrueBookType
  <2>3. book \in Book
    BY DEF FeedInv, IInv, TypeOK
  <2> QED BY <2>1, <2>2, <2>3 DEF FeedHistory
<1>2. /\ ~OutOfOrder(ev) /\ feed'.last_sequence = ev.sequence
      /\ book' = apply(start, ev)
  BY DEF Accept
<1>3. published' = published /\ truth' = truth
  BY DEF feedVars
<1>4. start \in Book
  BY <1>1, ClearOK
<1>5. /\ feed.last_sequence = None => book = EmptyBook
      /\ feed.last_sequence # None =>
            /\ feed.last_sequence \in 1 .. Len(published)
            /\ PartOf(book, truth[feed.last_sequence])
            /\ complete => book.level = truth[feed.last_sequence].level
  BY DEF FeedInv, FollowsExchange
<1>6. feed.last_sequence # None /\ ~Gap(ev) =>
         i = feed.last_sequence + 1 /\ before = truth[feed.last_sequence]
  BY <1>1, <1>5 DEF Gap, TrueBook
<1>7. IsNew(ev)
  BY <1>1, <1>2, <1>5 DEF OutOfOrder, IsNew
<1> HIDE DEF ev
<1>8. PartOf(start, before)
  <2>1. CASE resync
    BY <1>1, <2>1, ClearedPartOf
  <2>2. CASE ~resync /\ feed.last_sequence = None
    BY <1>5, <2>2 DEF PartOf, EmptyBook, NoLevels
  <2>3. CASE ~resync /\ feed.last_sequence # None
    BY <1>5, <1>6, <2>3
  <2> QED BY <2>1, <2>2, <2>3
<1>9. complete' => start.level = before.level \/ ev.type = "Snapshot"
  <2> SUFFICES ASSUME complete /\ Continues(ev) PROVE start.level = before.level
    BY <1>7 DEF ev
  <2>1. CASE feed.last_sequence = None
    <3>1. i = 1 /\ before = EmptyBook /\ book = EmptyBook
      BY <1>1, <1>5, <2>1 DEF Continues, TrueBook
    <3>2. ~Gap(ev)
      BY <2>1 DEF Gap
    <3>3. clear(EmptyBook).level = EmptyBook.level
      BY DEF clear, EmptyBook
    <3> QED BY <3>1, <3>3
  <2>2. CASE feed.last_sequence # None
    <3>1. ~resync
      BY <2>2 DEF Continues, Gap
    <3> QED BY <1>5, <1>6, <2>2, <3>1
  <2> QED BY <2>1, <2>2
<1> HIDE DEF start, before
<1>10. PartOf(book', truth[i])
  BY <1>1, <1>2, <1>4, <1>8, ApplyPartOf
<1>11. complete' => book'.level = truth[i].level
  BY <1>1, <1>2, <1>4, <1>9, ApplySameLevels
<1>12. feed'.last_sequence = i /\ i # None
  BY <1>1, <1>2, PipelineAssumption
<1> QED BY <1>3, <1>10, <1>11, <1>12 DEF FollowsExchange

(* Neither does a duplicate or a late event, or a look at the clock.       *)
LEMMA NextFeedInv == FeedInv /\ [FeedNext]_<<vars, feedVars, complete>> => FeedInv'
<1> SUFFICES ASSUME FeedInv, [FeedNext]_<<vars, feedVars, complete>> PROVE FeedInv'
  OBVIOUS
<1>1. ASSUME UNCHANGED feedVars, UNCHANGED <<book, complete>>,
             feed'.last_sequence = feed.last_sequence, [Next]_vars
      PROVE  FeedInv'
  <2>1. /\ published' = published /\ truth' = truth /\ book' = book
        /\ complete' = complete
    BY <1>1 DEF feedVars
  <2>2. FeedHistory'
    BY <2>1 DEF FeedInv, FeedHistory, TrueBook
  <2>3. FollowsExchange'
    BY <1>1, <2>1 DEF FeedInv, FollowsExchange
  <2>4. IInv'
    BY <1>1, NextIInv DEF FeedInv
  <2> QED BY <2>2, <2>3, <2>4 DEF FeedInv
<1>2. ASSUME NEW ev \in MarketEvent, Publish(ev) PROVE FeedInv'
  BY <1>2, PublishFeedInv
<1>3. ASSUME NEW i \in DOMAIN published, Deliver(i) PROVE FeedInv'
  <2>1. i \in 1 .. Len(published) /\ published[i] \in MarketEvent
    BY DEF FeedInv, FeedHistory
  <2>2. [Next]_vars
    BY <1>3, <2>1 DEF Deliver, Next
  <2>3. CASE Accept(published[i])
    <3>1. FollowsExchange'
      BY <1>3, <2>1, <2>3, AcceptFollows DEF Deliver
    <3>2. published' = published /\ truth' = truth
      BY <1>3 DEF Deliver, feedVars
    <3>3. FeedHistory'
      BY <3>2 DEF FeedInv, FeedHistory, TrueBook
    <3>4. IInv'
      BY <2>2, NextIInv DEF FeedInv
    <3> QED BY <3>1, <3>3, <3>4 DEF FeedInv
  <2>4. CASE Drop(published[i])
    <3>1. ~IsNew(published[i])
      <4>1. /\ published[i].sequence \in Int
            /\ feed.last_sequence # None => feed.last_sequence \in Int
        BY <2>1 DEF FeedInv, FeedHistory, FollowsExchange
      <4> QED BY <2>4, <4>1 DEF Drop, OutOfOrder, IsNew
    <3>2. UNCHANGED vars /\ complete' = complete /\ UNCHANGED feedVars
      BY <1>3, <2>4, <3>1 DEF Deliver, Drop
    <3> QED BY <1>1, <2>2, <3>2 DEF vars
  <2> QED BY <1>3, <2>3, <2>4 DEF Deliver, process
<1>4. ASSUME NEW now \in Timestamps, Clock(now) PROVE FeedInv'
  <2>1. [Next]_vars /\ UNCHANGED feedVars /\ UNCHANGED <<book, complete>>
    BY <1>4 DEF Clock, OnClock, Next
  <2>2. feed'.last_sequence = feed.last_sequence
    BY <1>4 DEF Clock, OnClock, FeedInv, IInv, TypeOK
  <2> QED BY <1>1, <2>1, <2>2
<1>5. CASE UNCHANGED <<vars, feedVars, complete>>
  BY <1>1, <1>5 DEF vars
<1> QED BY <1>2, <1>3, <1>4, <1>5 DEF FeedNext

(* FeedInv in every reachable state.                                       *)
LEMMA FeedInvariance == FeedSpec => []FeedInv
BY InitFeedInv, NextFeedInv, PTL DEF FeedSpec

-----------------------------------------------------------------------------
(* The results *)

(* Whatever the feed lost, repeated or reordered, every level of the book  *)
(* is one the exchange had right after the last event that was applied:    *)
(* process() drops what is late, and rebuilds from nothing after a gap.    *)
THEOREM FeedLeavesNoPhantom == FeedSpec => []NoPhantomLevel
<1>1. FeedInv => NoPhantomLevel
  BY DEF FeedInv, FollowsExchange, PartOf, NoPhantomLevel
<1> QED BY <1>1, FeedInvariance, PTL

(* After every event since a snapshot or since the start was seen, the     *)
(* book is the exchange's, through any number of duplicates.               *)
THEOREM FeedExactWhenComplete == FeedSpec => []ExactWhenComplete
<1>1. FeedInv => ExactWhenComplete
  BY DEF FeedInv, FollowsExchange, ExactWhenComplete
<1> QED BY <1>1, FeedInvariance, PTL

-----------------------------------------------------------------------------
(* Folds from left to right *)

(* The trades kept of a frame are in a set that keeping a tick never       *)
(* leaves.                                                                 *)
LEMMA KeepValidFold ==
    ASSUME NEW V, NEW W, NEW base \in V, NEW q \in Seq(W),
           \A v \in V, w \in W : keep_valid(v, w) \in V
    PROVE  FoldLeft(keep_valid, base, q) \in V
<1> DEFINE n == Len(q)
           D == SUBSET (1 .. n)
           IsFold(g) == g = [s \in D |-> IF s = {} THEN base
                                         ELSE keep_valid(g[s \ {Max(s)}], q[Max(s)])]
           F == CHOOSE g : IsFold(g)
           step == [x \in V \X W |-> keep_valid(x[1], x[2])]
<1>1. n \in Nat /\ DOMAIN q = 1 .. n /\ q \in [1 .. n -> W]
  OBVIOUS
<1>2. FoldLeft(keep_valid, base, q) = F[1 .. n]
  BY <1>1 DEF FoldLeft, MapThenFoldSet
<1>3. step \in [V \X W -> V] /\ \A v \in V, w \in W : step[<<v, w>>] = keep_valid(v, w)
  OBVIOUS
<1> HIDE DEF n, step
<1>4. PICK f \in [D -> V] : FoldsTo(f, step, base, q, n)
  BY <1>1, <1>3, FoldExists
<1>5. ASSUME NEW s \in D
      PROVE  f[s] = IF s = {} THEN base ELSE keep_valid(f[s \ {Max(s)}], q[Max(s)])
  <2>1. CASE s = {}
    BY <1>4, <2>1 DEF FoldsTo
  <2>2. CASE s # {}
    <3>1. Max(s) \in 1 .. n
      BY <1>1, <2>2, LastIndex
    <3>2. s \ {Max(s)} \in D
      OBVIOUS
    <3>3. f[s \ {Max(s)}] \in V /\ q[Max(s)] \in W
      BY <1>1, <3>1, <3>2
    <3>4. f[s] = step[<<f[s \ {Max(s)}], q[Max(s)]>>]
      BY <1>4, <2>2, Zenon DEF FoldsTo
    <3> QED BY <1>3, <2>2, <3>3, <3>4
  <2> QED BY <2>1, <2>2
<1>6. IsFold(f)
  <2> DEFINE g == [s \in D |-> IF s = {} THEN base
                               ELSE keep_valid(f[s \ {Max(s)}], q[Max(s)])]
  <2>1. \A s \in D : f[s] = g[s]
    BY <1>5
  <2>2. f = g
    BY <2>1, Zenon
  <2> QED BY <2>2
<1> HIDE DEF IsFold
<1>7. IsFold(F)
  BY <1>6
<1> HIDE DEF F
<1>8. \A s \in D : F[s] = IF s = {} THEN base
                          ELSE keep_valid(F[s \ {Max(s)}], q[Max(s)])
  BY <1>7, Zenon DEF IsFold
<1>9. F[{}] \in V
  BY <1>8
<1>10. ASSUME NEW s \in D, s # {}, F[s \ {Max(s)}] \in V PROVE F[s] \in V
  <2>1. Max(s) \in 1 .. n
    BY <1>1, <1>10, LastIndex
  <2>2. q[Max(s)] \in W
    BY <1>1, <2>1
  <2>3. F[s] = keep_valid(F[s \ {Max(s)}], q[Max(s)])
    BY <1>8, <1>10, Zenon
  <2> QED BY <1>10, <2>2, <2>3
<1>11. F[1 .. n] \in V
  BY <1>1, <1>9, <1>10, FoldStays
<1> QED BY <1>2, <1>11

LastMade(V, W, outcomes) == \E v \in V, w \in W : outcomes = AfterTrade(v, w)

(* The same of the outcomes of a message, which the last trade has made    *)
(* if there is one.                                                        *)
LEMMA AfterTradeFold ==
    ASSUME NEW V, NEW W, NEW base \in V, NEW q \in Seq(W),
           \A v \in V, w \in W : AfterTrade(v, w) \in V
    PROVE  /\ FoldLeft(AfterTrade, base, q) \in V
           /\ q # <<>> => LastMade(V, W, FoldLeft(AfterTrade, base, q))
<1> DEFINE n == Len(q)
           D == SUBSET (1 .. n)
           IsFold(g) == g = [s \in D |-> IF s = {} THEN base
                                         ELSE AfterTrade(g[s \ {Max(s)}], q[Max(s)])]
           F == CHOOSE g : IsFold(g)
           step == [x \in V \X W |-> AfterTrade(x[1], x[2])]
<1>1. n \in Nat /\ DOMAIN q = 1 .. n /\ q \in [1 .. n -> W]
  OBVIOUS
<1>2. FoldLeft(AfterTrade, base, q) = F[1 .. n]
  BY <1>1 DEF FoldLeft, MapThenFoldSet
<1>3. step \in [V \X W -> V] /\ \A v \in V, w \in W : step[<<v, w>>] = AfterTrade(v, w)
  OBVIOUS
<1> HIDE DEF n, step
<1>4. PICK f \in [D -> V] : FoldsTo(f, step, base, q, n)
  BY <1>1, <1>3, FoldExists
<1>5. ASSUME NEW s \in D
      PROVE  f[s] = IF s = {} THEN base ELSE AfterTrade(f[s \ {Max(s)}], q[Max(s)])
  <2>1. CASE s = {}
    BY <1>4, <2>1 DEF FoldsTo
  <2>2. CASE s # {}
    <3>1. Max(s) \in 1 .. n
      BY <1>1, <2>2, LastIndex
    <3>2. s \ {Max(s)} \in D
      OBVIOUS
    <3>3. f[s \ {Max(s)}] \in V /\ q[Max(s)] \in W
      BY <1>1, <3>1, <3>2
    <3>4. f[s] = step[<<f[s \ {Max(s)}], q[Max(s)]>>]
      BY <1>4, <2>2, Zenon DEF FoldsTo
    <3> QED BY <1>3, <2>2, <3>3, <3>4
  <2> QED BY <2>1, <2>2
<1>6. IsFold(f)
  <2> DEFINE g == [s \in D |-> IF s = {} THEN base
                               ELSE AfterTrade(f[s \ {Max(s)}], q[Max(s)])]
  <2>1. \A s \in D : f[s] = g[s]
    BY <1>5
  <2>2. f = g
    BY <2>1, Zenon
  <2> QED BY <2>2
<1> HIDE DEF IsFold
<1>7. IsFold(F)
  BY <1>6
<1> HIDE DEF F
<1>8. \A s \in D : F[s] = IF s = {} THEN base
                          ELSE AfterTrade(F[s \ {Max(s)}], q[Max(s)])
  BY <1>7, Zenon DEF IsFold
<1>9. F[{}] \in V
  BY <1>8
<1>10. ASSUME NEW s \in D, s # {}, F[s \ {Max(s)}] \in V PROVE F[s] \in V
  <2>1. Max(s) \in 1 .. n
    BY <1>1, <1>10, LastIndex
  <2>2. q[Max(s)] \in W
    BY <1>1, <2>1
  <2>3. F[s] = AfterTrade(F[s \ {Max(s)}], q[Max(s)])
    BY <1>8, <1>10, Zenon
  <2> QED BY <1>10, <2>2, <2>3
<1>11. F[1 .. n] \in V
  BY <1>1, <1>9, <1>10, FoldStays
<1>12. ASSUME q # <<>> PROVE LastMade(V, W, F[1 .. n])
  <2>1. n \in 1 .. n /\ n - 1 \in Nat
    BY <1>12 DEF n
  <2>2. Max(1 .. n) = n /\ (1 .. n) \ {n} = 1 .. (n - 1)
    BY <1>1, <2>1, LastIndex
  <2>3. F[1 .. n] = AfterTrade(F[1 .. (n - 1)], q[n])
    BY <1>8, <2>1, <2>2
  <2>4. SUBSET (1 .. (n - 1)) \subseteq D
    BY <1>1
  <2>5. F[1 .. (n - 1)] \in V
    BY <1>9, <1>10, <2>1, <2>4, FoldStays
  <2>6. q[n] \in W
    BY <1>1, <2>1
  <2> QED BY <2>3, <2>5, <2>6 DEF LastMade
<1> QED BY <1>2, <1>11, <1>12

-----------------------------------------------------------------------------
(* The tape: all events of the adapter so far, and its overlay after each *)

TapeEvent ==
    [type : {"Trade", "Quote", "BookDelete"}, side : Sides, price : Int, quantity : Nat,
     sequence : Nat, timestamp : Timestamps, own : {TRUE}]

(* The level of each side, if it has one.                                  *)
Overlay == [Sides -> Int \cup {None}]

NoOverlay == [s \in Sides |-> None]

(* What an event makes of the overlay: a quote only confirms the level of  *)
(* its side or fills an empty one, a deletion is of the level that is      *)
(* there.                                                                  *)
Turns(x, ev, y) ==
    \A s \in Sides :
        IF ev.type = "Trade" \/ ev.side # s THEN y[s] = x[s]
        ELSE IF ev.type = "Quote" THEN y[s] = ev.price /\ x[s] \in {None, ev.price}
        ELSE x[s] = ev.price /\ y[s] = None

(* With a spread of two ticks or more, an overlay that is not crossed.     *)
Proper(x) ==
    Spread >= 2 /\ x["Buy"] # None /\ x["Sell"] # None => x["Buy"] < x["Sell"]

OverlayAt(T, n) == IF n = 0 THEN NoOverlay ELSE T[n]

(* n events and the overlays after them.                                   *)
Script(S, T, n) ==
    /\ S \in [1 .. n -> TapeEvent] /\ T \in [1 .. n -> Overlay]
    /\ \A i \in 1 .. n : /\ S[i].sequence = i
                         /\ Turns(OverlayAt(T, i - 1), S[i], T[i])
                         /\ Proper(T[i])

(* The adapter is where the script ends: its last two events quoted the    *)
(* adapter's bid and ask, at one time.                                     *)
EndsWith(S, T, n, a) ==
    /\ a.seq = n + 1
    /\ OverlayAt(T, n)["Buy"] = a.bid /\ OverlayAt(T, n)["Sell"] = a.ask
    /\ a.bid = None <=> n = 0
    /\ TapeInRange => a.bid \in Prices \cup {None} /\ a.ask \in Prices \cup {None}
    /\ n > 0 => /\ n > 2 /\ S[n - 1].timestamp = S[n].timestamp
                /\ S[n - 1].type = "Quote" /\ S[n - 1].side = "Buy"
                /\ S[n - 1].price = a.bid /\ S[n - 1].quantity > 0
                /\ S[n].type = "Quote" /\ S[n].side = "Sell"
                /\ S[n].price = a.ask /\ S[n].quantity > 0

(* F, and after its n elements the k elements of G.                        *)
Joined(F, n, G, k) == [i \in 1 .. (n + k) |-> IF i <= n THEN F[i] ELSE G[i - n]]

(* H has elements of X, first those of F and then those of G.              *)
Joins(H, X, F, n, G, k) ==
    /\ H \in [1 .. (n + k) -> X]
    /\ \A i \in 1 .. n : H[i] = F[i]
    /\ \A j \in 1 .. k : H[n + j] = G[j]

LEMMA JoinedElements ==
    ASSUME NEW X, NEW n \in Nat, NEW k \in Nat, NEW F \in [1 .. n -> X], NEW G \in [1 .. k -> X]
    PROVE  Joins(Joined(F, n, G, k), X, F, n, G, k)
<1>1. \A i \in 1 .. (n + k) : i > n => i - n \in 1 .. k
  OBVIOUS
<1>2. \A j \in 1 .. k : n + j \in 1 .. (n + k) /\ ~ (n + j <= n) /\ (n + j) - n = j
  OBVIOUS
<1>3. \A i \in 1 .. n : i \in 1 .. (n + k) /\ i <= n
  OBVIOUS
<1> DEFINE H == [i \in 1 .. (n + k) |-> IF i <= n THEN F[i] ELSE G[i - n]]
<1>4. Joined(F, n, G, k) = H
  BY DEF Joined
<1>5. \A i \in 1 .. (n + k) : H[i] = IF i <= n THEN F[i] ELSE G[i - n]
  OBVIOUS
<1>6. \A i \in 1 .. (n + k) : (IF i <= n THEN F[i] ELSE G[i - n]) \in X
  <2> TAKE i \in 1 .. (n + k)
  <2>1. CASE i <= n
    BY <2>1
  <2>2. CASE ~ (i <= n)
    <3>1. i - n \in 1 .. k
      BY <2>2
    <3> QED BY <2>2, <3>1
  <2> QED BY <2>1, <2>2
<1>7. H \in [1 .. (n + k) -> X]
  BY <1>6
<1> HIDE DEF H
<1>8. \A j \in 1 .. k : H[n + j] = G[j]
  <2> TAKE j \in 1 .. k
  <2>1. H[n + j] = G[(n + j) - n]
    BY <1>2, <1>5
  <2> QED BY <1>2, <2>1
<1>9. \A i \in 1 .. n : H[i] = F[i]
  BY <1>3, <1>5
<1> QED BY <1>4, <1>7, <1>8, <1>9 DEF Joins

(* More events, and overlays they lead to, make a longer script.           *)
LEMMA ScriptExtended ==
    ASSUME NEW n \in Nat, NEW S, NEW T, Script(S, T, n), NEW k \in Nat,
           NEW E \in [1 .. k -> TapeEvent], NEW V \in [1 .. k -> Overlay],
           \A j \in 1 .. k : /\ E[j].sequence = n + j
                             /\ Turns(IF j = 1 THEN OverlayAt(T, n) ELSE V[j - 1], E[j], V[j])
                             /\ Proper(V[j])
    PROVE  Script(Joined(S, n, E, k), Joined(T, n, V, k), n + k)
<1> DEFINE S2 == Joined(S, n, E, k)
           T2 == Joined(T, n, V, k)
<1>1. /\ S \in [1 .. n -> TapeEvent] /\ T \in [1 .. n -> Overlay]
      /\ \A i \in 1 .. n : /\ S[i].sequence = i
                           /\ Turns(OverlayAt(T, i - 1), S[i], T[i]) /\ Proper(T[i])
  BY DEF Script
<1>2. /\ S2 \in [1 .. (n + k) -> TapeEvent]
      /\ \A i \in 1 .. n : S2[i] = S[i]
      /\ \A j \in 1 .. k : S2[n + j] = E[j]
  <2>1. Joins(S2, TapeEvent, S, n, E, k)
    BY <1>1, JoinedElements
  <2> QED BY <2>1 DEF Joins
<1>3. /\ T2 \in [1 .. (n + k) -> Overlay]
      /\ \A i \in 1 .. n : T2[i] = T[i]
      /\ \A j \in 1 .. k : T2[n + j] = V[j]
  <2>1. Joins(T2, Overlay, T, n, V, k)
    BY <1>1, JoinedElements
  <2> QED BY <2>1 DEF Joins
<1> HIDE DEF S2, T2
<1>4. ASSUME NEW i \in 1 .. (n + k)
      PROVE  S2[i].sequence = i /\ Turns(OverlayAt(T2, i - 1), S2[i], T2[i]) /\ Proper(T2[i])
  <2>1. CASE i <= n
    <3>1. i \in 1 .. n
      BY <2>1
    <3>2. OverlayAt(T2, i - 1) = OverlayAt(T, i - 1)
      <4>1. i - 1 = 0 \/ i - 1 \in 1 .. n
        BY <3>1
      <4> QED BY <1>3, <4>1 DEF OverlayAt
    <3> QED BY <1>1, <1>2, <1>3, <3>1, <3>2
  <2>2. CASE i > n
    <3>1. PICK j \in 1 .. k : i = n + j
      <4>1. i - n \in 1 .. k /\ i = n + (i - n)
        BY <2>2
      <4> QED BY <4>1
    <3>2. OverlayAt(T2, i - 1) = IF j = 1 THEN OverlayAt(T, n) ELSE V[j - 1]
      <4>1. CASE j = 1
        <5>1. i - 1 = n /\ (n = 0 \/ n \in 1 .. n)
          BY <3>1, <4>1
        <5> QED BY <1>3, <4>1, <5>1 DEF OverlayAt
      <4>2. CASE j # 1
        <5>1. i - 1 = n + (j - 1) /\ j - 1 \in 1 .. k /\ i - 1 # 0
          BY <3>1, <4>2
        <5> QED BY <1>3, <4>2, <5>1 DEF OverlayAt
      <4> QED BY <4>1, <4>2
    <3>3. S2[i] = E[j] /\ T2[i] = V[j]
      BY <1>2, <1>3, <3>1
    <3> QED BY <3>1, <3>2, <3>3
  <2> QED BY <2>1, <2>2
<1> QED BY <1>2, <1>3, <1>4 DEF Script, S2, T2

(* The events raw, once they are numbered, lead from script to script.     *)
Leads(S, T, n, raw, S2, T2, n2) ==
    /\ Script(S2, T2, n2)
    /\ raw \in Seq(TapeEvent) /\ n2 = n + Len(raw)
    /\ \A i \in 1 .. n : S2[i] = S[i] /\ T2[i] = T[i]
    /\ \A j \in 1 .. Len(raw) : S2[n + j] = [raw[j] EXCEPT !.sequence = n + j]

(* No events lead nowhere.                                                 *)
LEMMA LeadsNowhere ==
    ASSUME NEW n \in Nat, NEW S, NEW T, Script(S, T, n)
    PROVE  Leads(S, T, n, <<>>, S, T, n)
BY DEF Leads

(* One after the other.                                                    *)
LEMMA LeadsOn ==
    ASSUME NEW n \in Nat, NEW n2 \in Nat, NEW n3, NEW S, NEW T, NEW S2, NEW T2, NEW S3, NEW T3,
           NEW r, NEW q, Leads(S, T, n, r, S2, T2, n2), Leads(S2, T2, n2, q, S3, T3, n3)
    PROVE  Leads(S, T, n, r \o q, S3, T3, n3)
<1> DEFINE c == r \o q
<1>1. /\ r \in Seq(TapeEvent) /\ n2 = n + Len(r)
      /\ \A i \in 1 .. n : S2[i] = S[i] /\ T2[i] = T[i]
      /\ \A j \in 1 .. Len(r) : S2[n + j] = [r[j] EXCEPT !.sequence = n + j]
  BY DEF Leads
<1>2. /\ Script(S3, T3, n3) /\ q \in Seq(TapeEvent) /\ n3 = n2 + Len(q)
      /\ \A i \in 1 .. n2 : S3[i] = S2[i] /\ T3[i] = T2[i]
      /\ \A j \in 1 .. Len(q) : S3[n2 + j] = [q[j] EXCEPT !.sequence = n2 + j]
  BY DEF Leads
<1>3. /\ c \in Seq(TapeEvent) /\ Len(c) = Len(r) + Len(q)
      /\ \A j \in 1 .. Len(r) + Len(q) : c[j] = IF j <= Len(r) THEN r[j] ELSE q[j - Len(r)]
  BY <1>1, <1>2, ConcatProperties
<1> HIDE DEF c
<1>4. Len(r) \in Nat /\ Len(q) \in Nat
  BY <1>1, <1>2
<1>5. \A i \in 1 .. n : S3[i] = S[i] /\ T3[i] = T[i]
  <2>1. \A i \in 1 .. n : i \in 1 .. n2
    BY <1>1, <1>4
  <2> QED BY <1>1, <1>2, <2>1
<1>6. ASSUME NEW j \in 1 .. Len(c) PROVE S3[n + j] = [c[j] EXCEPT !.sequence = n + j]
  <2>1. CASE j <= Len(r)
    <3>1. j \in 1 .. Len(r) /\ n + j \in 1 .. n2 /\ c[j] = r[j]
      BY <1>1, <1>3, <1>4, <2>1
    <3> QED BY <1>1, <1>2, <3>1
  <2>2. CASE ~ (j <= Len(r))
    <3> DEFINE k == j - Len(r)
    <3>1. k \in 1 .. Len(q) /\ n2 + k = n + j /\ c[j] = q[k]
      BY <1>1, <1>3, <1>4, <2>2
    <3> HIDE DEF k
    <3>2. S3[n2 + k] = [q[k] EXCEPT !.sequence = n2 + k]
      BY <1>2, <3>1
    <3> QED BY <3>1, <3>2
  <2> QED BY <2>1, <2>2
<1>7. n3 = n + Len(c)
  BY <1>1, <1>2, <1>3, <1>4
<1> QED BY <1>2, <1>3, <1>5, <1>6, <1>7 DEF Leads, c

(* One event that turns the overlay leads to the turned overlay.           *)
LEMMA OneEvent ==
    ASSUME NEW n \in Nat, NEW S, NEW T, Script(S, T, n), NEW ev \in TapeEvent,
           NEW y \in Overlay, Turns(OverlayAt(T, n), ev, y), Proper(y)
    PROVE  \E S2, T2 : Leads(S, T, n, <<ev>>, S2, T2, n + 1) /\ OverlayAt(T2, n + 1) = y
<1> DEFINE e == [ev EXCEPT !.sequence = n + 1]
           E == [j \in 1 .. 1 |-> e]
           V == [j \in 1 .. 1 |-> y]
           S2 == Joined(S, n, E, 1)
           T2 == Joined(T, n, V, 1)
<1>1. /\ e \in TapeEvent /\ e.sequence = n + 1
      /\ e.type = ev.type /\ e.side = ev.side /\ e.price = ev.price
  <2>1. n + 1 \in Nat
    OBVIOUS
  <2>2. e \in TapeEvent
    BY <2>1, Zenon DEF TapeEvent
  <2>3. e.sequence = n + 1 /\ e.type = ev.type /\ e.side = ev.side /\ e.price = ev.price
    BY DEF TapeEvent
  <2> QED BY <2>2, <2>3
<1>2. Turns(OverlayAt(T, n), e, y)
  BY <1>1 DEF Turns
<1> HIDE DEF e
<1>3. E \in [1 .. 1 -> TapeEvent] /\ V \in [1 .. 1 -> Overlay] /\ E[1] = e /\ V[1] = y
  BY <1>1
<1> HIDE DEF E, V
<1>4. \A j \in 1 .. 1 : /\ E[j].sequence = n + j
                        /\ Turns(IF j = 1 THEN OverlayAt(T, n) ELSE V[j - 1], E[j], V[j])
                        /\ Proper(V[j])
  BY <1>1, <1>2, <1>3
<1>5. Script(S2, T2, n + 1)
  BY <1>3, <1>4, ScriptExtended
<1>6. S \in [1 .. n -> TapeEvent] /\ T \in [1 .. n -> Overlay]
  BY DEF Script
<1>7. Joins(S2, TapeEvent, S, n, E, 1) /\ Joins(T2, Overlay, T, n, V, 1)
  <2>1. Joins(S2, TapeEvent, S, n, E, 1)
    BY <1>3, <1>6, JoinedElements
  <2>2. Joins(T2, Overlay, T, n, V, 1)
    BY <1>3, <1>6, JoinedElements
  <2> QED BY <2>1, <2>2
<1> HIDE DEF S2, T2
<1>8. /\ \A i \in 1 .. n : S2[i] = S[i] /\ T2[i] = T[i]
      /\ S2[n + 1] = e /\ T2[n + 1] = y
  <2>1. 1 \in 1 .. 1
    OBVIOUS
  <2>2. S2[n + 1] = E[1] /\ T2[n + 1] = V[1]
    BY <1>7, <2>1, Zenon DEF Joins
  <2>3. \A i \in 1 .. n : S2[i] = S[i] /\ T2[i] = T[i]
    BY <1>7, Zenon DEF Joins
  <2> QED BY <1>3, <2>2, <2>3
<1>9. <<ev>> \in Seq(TapeEvent) /\ Len(<<ev>>) = 1 /\ <<ev>>[1] = ev
  OBVIOUS
<1>10. Leads(S, T, n, <<ev>>, S2, T2, n + 1)
  <2>1. \A j \in 1 .. Len(<<ev>>) : S2[n + j] = [<<ev>>[j] EXCEPT !.sequence = n + j]
    BY <1>8, <1>9 DEF e
  <2> QED BY <1>5, <1>8, <1>9, <2>1 DEF Leads
<1>11. OverlayAt(T2, n + 1) = y
  BY <1>8 DEF OverlayAt
<1> QED BY <1>10, <1>11

-----------------------------------------------------------------------------
(* The adapter *)

Trade == {t \in Tick : valid(t) /\ (TapeInRange => InRange(t))}

(* The parser yields trades.                                               *)
LEMMA TradesOfFrame ==
    ASSUME NEW f \in Frames
    PROVE  parse_finnhub_message(f).trades \in Seq(Trade)
<1> DEFINE W == {t \in Tick : valid(t) => t \in Trade}
<1>1. <<>> \in Seq(Trade)
  OBVIOUS
<1>2. ASSUME NEW v \in Seq(Trade), NEW w \in W PROVE keep_valid(v, w) \in Seq(Trade)
  BY DEF keep_valid
<1>3. ASSUME f.data # None PROVE valid_ticks(f.data) \in Seq(Trade)
  <2>1. f.data \in Seq(Tick)
    BY <1>3, FrameAssumption
  <2>2. \A i \in 1 .. Len(f.data) : f.data[i] \in W
    BY <1>3, <2>1 DEF Trade, TapeInRange
  <2> HIDE DEF W
  <2>3. f.data \in Seq(W)
    BY <2>1, <2>2
  <2> QED BY <1>1, <1>2, <2>3, KeepValidFold DEF valid_ticks
<1> QED BY <1>1, <1>3 DEF parse_finnhub_message

(* A bid and an ask around a trade.                                        *)
LEMMA AroundTrade ==
    ASSUME NEW price \in Int, NEW bid \in from_double(price - Spread, 2),
           NEW ask \in from_double(price + Spread, 2)
    PROVE  bid \in Int /\ ask \in Int /\ (Spread >= 2 => bid < ask)
BY TapeAssumption DEF from_double

(* The events of the adapter have the fields of events.                    *)
IsEvent(ev, type, side, price, qty, t) ==
    /\ ev \in TapeEvent
    /\ ev.type = type /\ ev.side = side /\ ev.price = price
    /\ ev.quantity = qty /\ ev.timestamp = t.timestamp

LEMMA EventType ==
    ASSUME NEW type \in {"Trade", "Quote", "BookDelete"}, NEW side \in Sides,
           NEW price \in Int, NEW qty \in Nat, NEW t \in Tick
    PROVE  IsEvent(Event(type, side, price, qty, t), type, side, price, qty, t)
<1> DEFINE ev == Event(type, side, price, qty, t)
<1>1. t.timestamp \in Timestamps
  BY DEF Tick
<1>2. ev \in TapeEvent
  BY <1>1 DEF Event, TapeEvent
<1>3. /\ ev.type = type /\ ev.side = side /\ ev.price = price
      /\ ev.quantity = qty /\ ev.timestamp = t.timestamp
  BY DEF Event
<1> QED BY <1>2, <1>3 DEF IsEvent

(* One side set, the other as it is.                                       *)
With(x, side, price) == [s \in Sides |-> IF s = side THEN price ELSE x[s]]

LEMMA OverlayType ==
    ASSUME NEW n \in Nat, NEW S, NEW T, Script(S, T, n)
    PROVE  OverlayAt(T, n) \in Overlay /\ Proper(OverlayAt(T, n))
<1>1. CASE n = 0
  BY <1>1 DEF OverlayAt, NoOverlay, Overlay, Proper, Sides
<1>2. CASE n # 0
  <2>1. n \in 1 .. n
    BY <1>2
  <2> QED BY <1>2, <2>1 DEF Script, OverlayAt
<1> QED BY <1>1, <1>2

(* The trade itself turns nothing.                                         *)
LEMMA TradeLeads ==
    ASSUME NEW n \in Nat, NEW S, NEW T, Script(S, T, n), NEW ev \in TapeEvent,
           ev.type = "Trade"
    PROVE  \E S2, T2 : /\ Leads(S, T, n, <<ev>>, S2, T2, n + 1)
                       /\ OverlayAt(T2, n + 1) = OverlayAt(T, n)
<1>1. OverlayAt(T, n) \in Overlay /\ Proper(OverlayAt(T, n))
  BY OverlayType
<1>2. Turns(OverlayAt(T, n), ev, OverlayAt(T, n))
  BY DEF Turns
<1> QED BY <1>1, <1>2, OneEvent

(* The removal of the level of a side, if there is need for it.            *)
Frees(S, T, n, raw, side, new) ==
    \E n2 \in Nat : \E S2, T2 :
        /\ Leads(S, T, n, raw, S2, T2, n2)
        /\ OverlayAt(T2, n2)[side] \in {None, new}
        /\ \A s \in Sides : s # side => OverlayAt(T2, n2)[s] = OverlayAt(T, n)[s]

LEMMA RemovalLeads ==
    ASSUME NEW n \in Nat, NEW S, NEW T, Script(S, T, n), NEW side \in Sides,
           NEW new \in Int, NEW t \in Tick, NEW old, old = OverlayAt(T, n)[side]
    PROVE  Frees(S, T, n, Removal(side, old, new, t), side, new)
<1>1. CASE old \in {None, new}
  BY <1>1, LeadsNowhere DEF Removal, Frees
<1>2. CASE old \notin {None, new}
  <2> DEFINE x == OverlayAt(T, n)
             y == With(x, side, None)
             ev == Event("BookDelete", side, old, 0, t)
  <2>1. x \in Overlay
    BY OverlayType
  <2>2. old \in Int
    BY <1>2, <2>1 DEF Overlay
  <2>3. ev \in TapeEvent /\ ev.type = "BookDelete" /\ ev.side = side /\ ev.price = old
    <3>1. IsEvent(ev, "BookDelete", side, old, 0, t)
      BY <2>2, EventType
    <3> HIDE DEF ev
    <3> QED BY <3>1 DEF IsEvent
  <2> HIDE DEF ev, x
  <2>4. y \in Overlay /\ \A s \in Sides : y[s] = IF s = side THEN None ELSE x[s]
    BY <2>1 DEF With, Overlay
  <2> HIDE DEF y
  <2>5. Turns(x, ev, y)
    BY <2>3, <2>4 DEF Turns, x
  <2>6. Proper(y)
    BY <2>4 DEF Proper, Sides
  <2>7. PICK S2, T2 : Leads(S, T, n, <<ev>>, S2, T2, n + 1) /\ OverlayAt(T2, n + 1) = y
    BY <2>3, <2>4, <2>5, <2>6, OneEvent DEF x
  <2>8. Removal(side, old, new, t) = <<ev>>
    BY <1>2 DEF Removal, ev
  <2>9. n + 1 \in Nat
    OBVIOUS
  <2> QED BY <2>4, <2>7, <2>8, <2>9 DEF x, Frees
<1> QED BY <1>1, <1>2

(* A quote on a side that is empty or already there.                       *)
LEMMA QuoteLeads ==
    ASSUME NEW n \in Nat, NEW S, NEW T, Script(S, T, n), NEW ev \in TapeEvent,
           ev.type = "Quote", OverlayAt(T, n)[ev.side] \in {None, ev.price},
           Proper(With(OverlayAt(T, n), ev.side, ev.price))
    PROVE  \E S2, T2 : /\ Leads(S, T, n, <<ev>>, S2, T2, n + 1)
                       /\ OverlayAt(T2, n + 1) = With(OverlayAt(T, n), ev.side, ev.price)
<1> DEFINE x == OverlayAt(T, n)
           y == With(x, ev.side, ev.price)
<1>1. x \in Overlay /\ ev.price \in Int
  BY OverlayType DEF TapeEvent
<1> HIDE DEF x
<1>2. y \in Overlay /\ \A s \in Sides : y[s] = IF s = ev.side THEN ev.price ELSE x[s]
  BY <1>1 DEF With, Overlay
<1>3. Turns(x, ev, y)
  BY <1>2 DEF Turns, x
<1> HIDE DEF y
<1>4. \E S2, T2 : Leads(S, T, n, <<ev>>, S2, T2, n + 1) /\ OverlayAt(T2, n + 1) = y
  BY <1>2, <1>3, OneEvent DEF x, y
<1> QED BY <1>4 DEF x, y

(* The quotes of both sides.                                               *)
LEMMA QuotesLead ==
    ASSUME NEW n \in Nat, NEW S, NEW T, Script(S, T, n), NEW t \in Tick, NEW qty \in Nat,
           NEW bid \in Int, NEW ask \in Int, Spread >= 2 => bid < ask,
           OverlayAt(T, n)["Buy"] \in {None, bid}, OverlayAt(T, n)["Sell"] \in {None, ask}
    PROVE  \E S2, T2 :
              /\ Leads(S, T, n, <<Event("Quote", "Buy", bid, qty, t),
                                 Event("Quote", "Sell", ask, qty, t)>>, S2, T2, n + 2)
              /\ OverlayAt(T2, n + 2)["Buy"] = bid /\ OverlayAt(T2, n + 2)["Sell"] = ask
<1> DEFINE p == Event("Quote", "Buy", bid, qty, t)
           q == Event("Quote", "Sell", ask, qty, t)
           x == OverlayAt(T, n)
           y == With(x, "Buy", bid)
           z == With(y, "Sell", ask)
<1>1. /\ p \in TapeEvent /\ p.type = "Quote" /\ p.side = "Buy" /\ p.price = bid
      /\ q \in TapeEvent /\ q.type = "Quote" /\ q.side = "Sell" /\ q.price = ask
  <2>1. IsEvent(p, "Quote", "Buy", bid, qty, t)
    BY EventType DEF Sides
  <2>2. IsEvent(q, "Quote", "Sell", ask, qty, t)
    BY EventType DEF Sides
  <2> HIDE DEF p, q
  <2> QED BY <2>1, <2>2 DEF IsEvent
<1>2. y["Buy"] = bid /\ y["Sell"] = x["Sell"] /\ z["Buy"] = bid /\ z["Sell"] = ask
  BY DEF With, Sides
<1>3. x["Buy"] \in {None, bid} /\ x["Sell"] \in {None, ask}
  OBVIOUS
<1> HIDE DEF p, q, x
<1>4. Proper(y) /\ Proper(z)
  <2> HIDE DEF y, z
  <2> QED BY <1>2, <1>3 DEF Proper
<1> HIDE DEF y, z
<1>5. PICK S2, T2 : Leads(S, T, n, <<p>>, S2, T2, n + 1) /\ OverlayAt(T2, n + 1) = y
  BY <1>1, <1>3, <1>4, QuoteLeads DEF x, y
<1>6. n + 1 \in Nat /\ Script(S2, T2, n + 1) /\ (n + 1) + 1 = n + 2
  BY <1>5 DEF Leads
<1>7. PICK S3, T3 : Leads(S2, T2, n + 1, <<q>>, S3, T3, (n + 1) + 1)
                    /\ OverlayAt(T3, (n + 1) + 1) = z
  BY <1>1, <1>2, <1>3, <1>4, <1>5, <1>6, QuoteLeads DEF z
<1>8. Leads(S, T, n, <<p>> \o <<q>>, S3, T3, n + 2)
  BY <1>5, <1>6, <1>7, LeadsOn
<1>9. <<p>> \o <<q>> = <<p, q>>
  <2>1. <<p>> \in Seq(TapeEvent)
    BY <1>1
  <2>2. Append(<<p>>, q) = <<p>> \o <<q>>
    BY <1>1, <2>1, AppendIsConcat
  <2>3. Append(<<p>>, q) = <<p, q>>
    <3>1. /\ Append(<<p>>, q) \in Seq(TapeEvent) /\ <<p, q>> \in Seq(TapeEvent)
          /\ Len(Append(<<p>>, q)) = 2 /\ Len(<<p, q>>) = 2
          /\ Append(<<p>>, q)[1] = p /\ Append(<<p>>, q)[2] = q
          /\ <<p, q>>[1] = p /\ <<p, q>>[2] = q
      BY <1>1, <2>1
    <3>2. \A i \in 1 .. 2 : i = 1 \/ i = 2
      OBVIOUS
    <3> QED BY <3>1, <3>2, SeqEqual
  <2> QED BY <2>2, <2>3
<1> QED BY <1>2, <1>6, <1>7, <1>8, <1>9 DEF p, q

(* The last of two events after others.                                    *)
EndsInPair(w, m, x, y) == Len(w) = m + 2 /\ w[Len(w) - 1] = x /\ w[Len(w)] = y

LEMMA EndOfConcat ==
    ASSUME NEW X, NEW u \in Seq(X), NEW v \in Seq(X), NEW x \in X, NEW y \in X, NEW w,
           w = u \o (v \o <<x, y>>)
    PROVE  EndsInPair(w, Len(u) + Len(v), x, y)
<1> DEFINE c == v \o <<x, y>>
           i == Len(v)
           k == Len(u)
<1>1. <<x, y>> \in Seq(X) /\ Len(<<x, y>>) = 2 /\ <<x, y>>[1] = x /\ <<x, y>>[2] = y
      /\ i \in Nat /\ k \in Nat
  OBVIOUS
<1>2. /\ c \in Seq(X) /\ Len(c) = i + 2
      /\ \A j \in 1 .. (i + 2) : c[j] = IF j <= i THEN v[j] ELSE <<x, y>>[j - i]
  BY <1>1, ConcatProperties
<1> HIDE DEF c
<1>3. c[i + 1] = x /\ c[i + 2] = y
  BY <1>1, <1>2
<1>4. /\ Len(w) = k + Len(c)
      /\ \A j \in 1 .. (k + Len(c)) : w[j] = IF j <= k THEN u[j] ELSE c[j - k]
  BY <1>2, ConcatProperties DEF c
<1> HIDE DEF i, k
<1>5. w[k + i + 1] = c[i + 1] /\ w[k + i + 2] = c[i + 2]
  <2>1. ASSUME NEW j \in (k + 1) .. (k + Len(c)) PROVE w[j] = c[j - k]
    <3>1. j \in 1 .. (k + Len(c)) /\ ~ (j <= k)
      BY <1>1, <1>2
    <3> QED BY <1>4, <3>1
  <2> DEFINE j1 == k + i + 1
             j2 == k + i + 2
  <2>2. /\ j1 \in (k + 1) .. (k + Len(c)) /\ j1 - k = i + 1
        /\ j2 \in (k + 1) .. (k + Len(c)) /\ j2 - k = i + 2
    BY <1>1, <1>2
  <2> HIDE DEF j1, j2
  <2>3. w[j1] = c[j1 - k] /\ w[j2] = c[j2 - k]
    BY <2>1, <2>2
  <2>4. w[j1] = c[i + 1] /\ w[j2] = c[i + 2]
    BY <2>2, <2>3
  <2> QED BY <2>4 DEF j1, j2
<1>6. Len(w) = k + i + 2 /\ Len(w) - 1 = k + i + 1
  BY <1>1, <1>2, <1>4
<1> QED BY <1>3, <1>5, <1>6 DEF i, k, EndsInPair

(* All events of a trade.                                                  *)
Requotes(S, T, n, raw, t, qty, bid, ask) ==
    \E n2 \in Nat : \E S2, T2 :
        /\ Leads(S, T, n, raw, S2, T2, n2)
        /\ OverlayAt(T2, n2)["Buy"] = bid /\ OverlayAt(T2, n2)["Sell"] = ask
        /\ Len(raw) > 2
        /\ raw[Len(raw) - 1] = Event("Quote", "Buy", bid, qty, t)
        /\ raw[Len(raw)] = Event("Quote", "Sell", ask, qty, t)

LEMMA OverlayLeads ==
    ASSUME NEW n \in Nat, NEW S, NEW T, Script(S, T, n), NEW t \in Tick, NEW qty \in Nat,
           NEW bid \in Int, NEW ask \in Int, Spread >= 2 => bid < ask, NEW px \in Int,
           NEW a, OverlayAt(T, n)["Buy"] = a.bid, OverlayAt(T, n)["Sell"] = a.ask
    PROVE  Requotes(S, T, n, <<Event("Trade", "Buy", px, qty, t)>>
                             \o overlay(a, t, qty, bid, ask), t, qty, bid, ask)
<1> DEFINE e == Event("Trade", "Buy", px, qty, t)
           r1 == Removal("Buy", a.bid, bid, t)
           r2 == Removal("Sell", a.ask, ask, t)
           qs == <<Event("Quote", "Buy", bid, qty, t), Event("Quote", "Sell", ask, qty, t)>>
<1>1. e \in TapeEvent /\ e.type = "Trade"
  <2>1. IsEvent(e, "Trade", "Buy", px, qty, t)
    BY EventType DEF Sides
  <2> HIDE DEF e
  <2> QED BY <2>1 DEF IsEvent
<1>2. "Buy" \in Sides /\ "Sell" \in Sides /\ "Buy" # "Sell"
  BY DEF Sides
<1>3. overlay(a, t, qty, bid, ask) = (r1 \o r2) \o qs
  BY DEF overlay
<1> HIDE DEF e
<1>4. PICK S1, T1 : Leads(S, T, n, <<e>>, S1, T1, n + 1)
                    /\ OverlayAt(T1, n + 1) = OverlayAt(T, n)
  BY <1>1, TradeLeads
<1> DEFINE n1 == n + 1
<1>5. n1 \in Nat /\ Script(S1, T1, n1) /\ Leads(S, T, n, <<e>>, S1, T1, n1)
      /\ OverlayAt(T1, n1)["Buy"] = a.bid /\ OverlayAt(T1, n1)["Sell"] = a.ask
  BY <1>4 DEF Leads
<1> HIDE DEF n1
<1>6. Frees(S1, T1, n1, r1, "Buy", bid)
  BY <1>2, <1>5, RemovalLeads
<1>7. PICK n2 \in Nat : \E S2, T2 :
              /\ Leads(S1, T1, n1, r1, S2, T2, n2)
              /\ OverlayAt(T2, n2)["Buy"] \in {None, bid}
              /\ \A s \in Sides : s # "Buy" => OverlayAt(T2, n2)[s] = OverlayAt(T1, n1)[s]
  BY <1>6 DEF Frees
<1>8. PICK S2, T2 :
              /\ Leads(S1, T1, n1, r1, S2, T2, n2)
              /\ OverlayAt(T2, n2)["Buy"] \in {None, bid}
              /\ \A s \in Sides : s # "Buy" => OverlayAt(T2, n2)[s] = OverlayAt(T1, n1)[s]
  BY <1>7
<1>9. Script(S2, T2, n2) /\ OverlayAt(T2, n2)["Sell"] = a.ask
  BY <1>2, <1>5, <1>8 DEF Leads
<1>10. Frees(S2, T2, n2, r2, "Sell", ask)
  BY <1>2, <1>9, RemovalLeads
<1>11. PICK n3 \in Nat : \E S3, T3 :
              /\ Leads(S2, T2, n2, r2, S3, T3, n3)
              /\ OverlayAt(T3, n3)["Sell"] \in {None, ask}
              /\ \A s \in Sides : s # "Sell" => OverlayAt(T3, n3)[s] = OverlayAt(T2, n2)[s]
  BY <1>10 DEF Frees
<1>12. PICK S3, T3 :
              /\ Leads(S2, T2, n2, r2, S3, T3, n3)
              /\ OverlayAt(T3, n3)["Sell"] \in {None, ask}
              /\ \A s \in Sides : s # "Sell" => OverlayAt(T3, n3)[s] = OverlayAt(T2, n2)[s]
  BY <1>11
<1>13. Script(S3, T3, n3) /\ OverlayAt(T3, n3)["Buy"] \in {None, bid}
  BY <1>2, <1>8, <1>12 DEF Leads
<1>14. PICK S4, T4 :
              /\ Leads(S3, T3, n3, qs, S4, T4, n3 + 2)
              /\ OverlayAt(T4, n3 + 2)["Buy"] = bid /\ OverlayAt(T4, n3 + 2)["Sell"] = ask
  BY <1>12, <1>13, QuotesLead
<1> HIDE DEF r1, r2, qs
<1>15. Leads(S1, T1, n1, r1 \o r2, S3, T3, n3)
  BY <1>5, <1>8, <1>12, LeadsOn
<1>16. Leads(S1, T1, n1, (r1 \o r2) \o qs, S4, T4, n3 + 2)
  BY <1>5, <1>14, <1>15, LeadsOn
<1>17. Leads(S, T, n, <<e>> \o ((r1 \o r2) \o qs), S4, T4, n3 + 2)
  BY <1>5, <1>16, LeadsOn
<1>18. n3 + 2 \in Nat
  OBVIOUS
<1>19. /\ Len(<<e>> \o ((r1 \o r2) \o qs)) > 2
       /\ (<<e>> \o ((r1 \o r2) \o qs))[Len(<<e>> \o ((r1 \o r2) \o qs)) - 1]
             = Event("Quote", "Buy", bid, qty, t)
       /\ (<<e>> \o ((r1 \o r2) \o qs))[Len(<<e>> \o ((r1 \o r2) \o qs))]
             = Event("Quote", "Sell", ask, qty, t)
  <2> DEFINE u == <<e>>
             v == r1 \o r2
             x == Event("Quote", "Buy", bid, qty, t)
             y == Event("Quote", "Sell", ask, qty, t)
             w == u \o (v \o <<x, y>>)
  <2>0. w = u \o (v \o <<x, y>>)
    OBVIOUS
  <2>1. u \in Seq(TapeEvent) /\ Len(u) = 1
    BY <1>1
  <2>2. v \in Seq(TapeEvent)
    BY <1>15 DEF Leads
  <2> HIDE DEF u, v, w
  <2>3. x \in TapeEvent /\ y \in TapeEvent
    <3>1. IsEvent(x, "Quote", "Buy", bid, qty, t)
      BY EventType DEF Sides
    <3>2. IsEvent(y, "Quote", "Sell", ask, qty, t)
      BY EventType DEF Sides
    <3> HIDE DEF x, y
    <3> QED BY <3>1, <3>2 DEF IsEvent
  <2> HIDE DEF x, y
  <2>4. EndsInPair(w, Len(u) + Len(v), x, y)
    BY <2>0, <2>1, <2>2, <2>3, EndOfConcat
  <2>5. Len(v) \in Nat
    BY <2>2
  <2> QED BY <2>1, <2>4, <2>5 DEF u, v, w, x, y, qs, EndsInPair
<1> QED BY <1>3, <1>14, <1>17, <1>18, <1>19 DEF e, Requotes

(* Numbering leaves the events as they are otherwise.                      *)
LEMMA NumberedEvents ==
    ASSUME NEW raw \in Seq(TapeEvent), NEW n \in Nat
    PROVE  /\ Numbered(raw, n + 1) \in Seq(TapeEvent)
           /\ Len(Numbered(raw, n + 1)) = Len(raw)
           /\ \A j \in 1 .. Len(raw) :
                 Numbered(raw, n + 1)[j] = [raw[j] EXCEPT !.sequence = n + j]
<1> DEFINE f == [i \in 1 .. Len(raw) |-> [raw[i] EXCEPT !.sequence = n + 1 + i - 1]]
<1>1. Numbered(raw, n + 1) = f
  <2>1. DOMAIN raw = 1 .. Len(raw)
    OBVIOUS
  <2> QED BY <2>1, Zenon DEF Numbered
<1>2. ASSUME NEW j \in 1 .. Len(raw)
      PROVE  /\ n + 1 + j - 1 = n + j
             /\ [raw[j] EXCEPT !.sequence = n + j] \in TapeEvent
  <2>1. n + j \in Nat /\ raw[j] \in TapeEvent
    OBVIOUS
  <2>2. [raw[j] EXCEPT !.sequence = n + j] \in TapeEvent
    BY <2>1, Zenon DEF TapeEvent
  <2> QED BY <2>2
<1>3. \A j \in 1 .. Len(raw) : f[j] = [raw[j] EXCEPT !.sequence = n + j]
  BY <1>2
<1>4. \A j \in 1 .. Len(raw) : f[j] \in TapeEvent
  BY <1>2, <1>3
<1> DEFINE m == Len(raw)
<1>5. f \in [1 .. m -> TapeEvent] /\ m \in Nat
  BY <1>4
<1>6. f \in Seq(TapeEvent) /\ Len(f) = m
  <2> HIDE DEF f, m
  <2> QED BY <1>5, IsASeq
<1> QED BY <1>1, <1>3, <1>6

Adapter == [seq : Nat, bid : Int \cup {None}, ask : Int \cup {None}]

(* What a message can leave when it meets a script that the adapter ends:  *)
(* numbered events that lead on to a script that the new adapter ends.     *)
Follows(S, T, n, events, a) ==
    \E n2 \in Nat : \E S2, T2 :
        /\ Leads(S, T, n, events, S2, T2, n2)
        /\ EndsWith(S2, T2, n2, a)

Reached(S, T, n) ==
    {o \in [adapter : Adapter, events : Seq(TapeEvent)] :
        /\ Follows(S, T, n, o.events, o.adapter)
        /\ \A j \in 1 .. Len(o.events) : o.events[j].sequence = n + j}

(* The outcomes of a trade.                                                *)
LEMMA TradeFollows ==
    ASSUME NEW n \in Nat, NEW S, NEW T, Script(S, T, n), NEW a, EndsWith(S, T, n, a),
           NEW t \in Trade, NEW r \in on_trade(a, t)
    PROVE  r \in Reached(S, T, n) /\ Len(r.events) > 2
<1> DEFINE qty == Max({1, t.volume})
<1>1. t \in Tick /\ t.price \in Int /\ t.volume \in Nat /\ t.timestamp \in Timestamps
  BY DEF Trade, Tick
<1>2. qty \in Nat /\ qty > 0
  <2>1. Max({1, t.volume}) = IF t.volume >= 1 THEN t.volume ELSE 1
    BY <1>1 DEF Max
  <2> QED BY <1>1, <2>1
<1> HIDE DEF qty
<1>3. PICK px \in from_double(t.price, 2), bid \in from_double(t.price - Spread, 2),
           ask \in from_double(t.price + Spread, 2) : r = requoted(a, t, px, bid, ask)
  BY DEF on_trade
<1>4. /\ px \in Int /\ bid \in Int /\ ask \in Int /\ (Spread >= 2 => bid < ask)
      /\ TapeInRange => bid \in Prices /\ ask \in Prices
  <2>1. px \in Int
    BY <1>1 DEF from_double
  <2>2. bid \in Int /\ ask \in Int /\ (Spread >= 2 => bid < ask)
    BY <1>1, AroundTrade
  <2>3. TapeInRange => bid \in Prices /\ ask \in Prices
    BY DEF Trade, InRange
  <2> QED BY <2>1, <2>2, <2>3
<1> DEFINE rest == overlay(a, t, qty, bid, ask)
           raw == <<Event("Trade", "Buy", px, qty, t)>> \o rest
           events == Numbered(raw, a.seq)
<1>5. r = [adapter |-> [seq |-> a.seq + Len(events), bid |-> bid, ask |-> ask],
           events |-> events]
  BY <1>3 DEF requoted, qty
<1>6. /\ a.seq = n + 1
      /\ OverlayAt(T, n)["Buy"] = a.bid /\ OverlayAt(T, n)["Sell"] = a.ask
  BY DEF EndsWith
<1>7. Requotes(S, T, n, raw, t, qty, bid, ask)
  BY <1>1, <1>2, <1>4, <1>6, OverlayLeads
<1> DEFINE p == Event("Quote", "Buy", bid, qty, t)
           q == Event("Quote", "Sell", ask, qty, t)
           l == Len(raw)
<1> HIDE DEF raw
<1>8. PICK n2, S2, T2 :
              /\ n2 \in Nat
              /\ Leads(S, T, n, raw, S2, T2, n2)
              /\ OverlayAt(T2, n2)["Buy"] = bid /\ OverlayAt(T2, n2)["Sell"] = ask
              /\ l > 2 /\ raw[l - 1] = p /\ raw[l] = q
  BY <1>7 DEF Requotes
<1>9. /\ l \in Nat /\ l > 2 /\ raw \in Seq(TapeEvent)
      /\ raw[l - 1] = p /\ raw[l] = q
  BY <1>8 DEF Leads
<1>10. /\ p \in TapeEvent /\ p.type = "Quote" /\ p.side = "Buy" /\ p.price = bid
       /\ p.quantity = qty /\ p.timestamp = t.timestamp
       /\ q \in TapeEvent /\ q.type = "Quote" /\ q.side = "Sell" /\ q.price = ask
       /\ q.quantity = qty /\ q.timestamp = t.timestamp
  <2>1. IsEvent(p, "Quote", "Buy", bid, qty, t)
    BY <1>1, <1>2, <1>4, EventType DEF Sides
  <2>2. IsEvent(q, "Quote", "Sell", ask, qty, t)
    BY <1>1, <1>2, <1>4, EventType DEF Sides
  <2> HIDE DEF p, q
  <2> QED BY <2>1, <2>2 DEF IsEvent
<1> HIDE DEF p, q
<1>11. events \in Seq(TapeEvent) /\ Len(events) = l
       /\ \A j \in 1 .. l : events[j] = [raw[j] EXCEPT !.sequence = n + j]
  BY <1>6, <1>9, NumberedEvents
<1> HIDE DEF events, l
<1>12. \A j \in 1 .. l : raw[j] \in TapeEvent /\ events[j].sequence = n + j
       /\ [events[j] EXCEPT !.sequence = n + j] = [raw[j] EXCEPT !.sequence = n + j]
  <2> TAKE j \in 1 .. l
  <2>1. raw[j] \in TapeEvent
    BY <1>9 DEF l
  <2> DEFINE x == raw[j]
             k == n + j
  <2>2. events[j] = [x EXCEPT !.sequence = k]
    BY <1>11
  <2>3. x \in TapeEvent
    BY <2>1
  <2> HIDE DEF x, k
  <2>4. events[j].sequence = k /\ [events[j] EXCEPT !.sequence = k] = [x EXCEPT !.sequence = k]
    BY <2>2, <2>3 DEF TapeEvent
  <2> QED BY <2>1, <2>4 DEF x, k
<1>13. Leads(S, T, n, events, S2, T2, n2) /\ n2 = n + l
  BY <1>8, <1>11, <1>12 DEF Leads, l
<1> DEFINE b == [seq |-> a.seq + Len(events), bid |-> bid, ask |-> ask]
<1>14. b \in Adapter /\ b.seq = n2 + 1 /\ b.bid = bid /\ b.ask = ask
  BY <1>4, <1>6, <1>9, <1>11, <1>13 DEF Adapter
<1> HIDE DEF b
<1>15. /\ S2[n2 - 1] = [p EXCEPT !.sequence = n2 - 1]
       /\ S2[n2] = [q EXCEPT !.sequence = n2]
  <2>1. l - 1 \in 1 .. l /\ l \in 1 .. l /\ n2 - 1 = n + (l - 1) /\ n2 = n + l
    BY <1>9, <1>13
  <2> QED BY <1>8, <1>9, <2>1 DEF Leads, l
<1>16. /\ n2 > 2 /\ S2[n2 - 1].timestamp = S2[n2].timestamp
       /\ S2[n2 - 1].type = "Quote" /\ S2[n2 - 1].side = "Buy"
       /\ S2[n2 - 1].price = bid /\ S2[n2 - 1].quantity > 0
       /\ S2[n2].type = "Quote" /\ S2[n2].side = "Sell"
       /\ S2[n2].price = ask /\ S2[n2].quantity > 0
  <2>1. n2 > 2
    BY <1>9, <1>13
  <2> QED BY <1>2, <1>10, <1>15, <2>1 DEF TapeEvent
<1>17. EndsWith(S2, T2, n2, b)
  <2>1. bid # None
    BY <1>4, PipelineAssumption
  <2> QED BY <1>4, <1>8, <1>14, <1>16, <2>1 DEF EndsWith
<1>18. Follows(S, T, n, events, b)
  BY <1>8, <1>13, <1>17 DEF Follows
<1>19. r = [adapter |-> b, events |-> events]
  BY <1>5 DEF b
<1> QED BY <1>9, <1>11, <1>12, <1>14, <1>18, <1>19 DEF Reached

(* One trade after others.                                                 *)
LEMMA ReachedOn ==
    ASSUME NEW n \in Nat, NEW S, NEW T, NEW o \in Reached(S, T, n),
           NEW t \in Trade, NEW r \in on_trade(o.adapter, t), NEW c,
           c = [adapter |-> r.adapter, events |-> o.events \o r.events]
    PROVE  c \in Reached(S, T, n) /\ Len(c.events) > 2
<1> DEFINE u == o.events
           v == r.events
           a == r.adapter
           w == u \o v
<1>1. /\ u \in Seq(TapeEvent) /\ Follows(S, T, n, u, o.adapter)
      /\ \A j \in 1 .. Len(u) : u[j].sequence = n + j
  BY DEF Reached
<1>2. PICK n2, S2, T2 : n2 \in Nat /\ Leads(S, T, n, u, S2, T2, n2) /\ EndsWith(S2, T2, n2, o.adapter)
  BY <1>1 DEF Follows
<1>3. Script(S2, T2, n2) /\ n2 = n + Len(u)
  BY <1>2 DEF Leads
<1>4. r \in Reached(S2, T2, n2) /\ Len(v) > 2
  BY <1>2, <1>3, TradeFollows
<1>5. /\ v \in Seq(TapeEvent) /\ a \in Adapter /\ Follows(S2, T2, n2, v, a)
      /\ \A j \in 1 .. Len(v) : v[j].sequence = n2 + j
  BY <1>4 DEF Reached
<1>6. PICK n3, S3, T3 : n3 \in Nat /\ Leads(S2, T2, n2, v, S3, T3, n3) /\ EndsWith(S3, T3, n3, a)
  BY <1>5 DEF Follows
<1> HIDE DEF u, v, a
<1>7. Leads(S, T, n, w, S3, T3, n3)
  BY <1>2, <1>6, LeadsOn
<1>8. /\ w \in Seq(TapeEvent) /\ Len(w) = Len(u) + Len(v)
      /\ \A j \in 1 .. Len(u) + Len(v) : w[j] = IF j <= Len(u) THEN u[j] ELSE v[j - Len(u)]
  BY <1>1, <1>5, ConcatProperties
<1> HIDE DEF w
<1>9. Len(u) \in Nat /\ Len(v) \in Nat
  BY <1>1, <1>5
<1>10. ASSUME NEW j \in 1 .. Len(w) PROVE w[j].sequence = n + j
  <2>1. CASE j <= Len(u)
    <3>1. j \in 1 .. Len(u) /\ w[j] = u[j]
      BY <1>8, <1>9, <2>1
    <3> QED BY <1>1, <3>1
  <2>2. CASE ~ (j <= Len(u))
    <3> DEFINE k == j - Len(u)
    <3>1. k \in 1 .. Len(v) /\ n2 + k = n + j /\ w[j] = v[k]
      BY <1>3, <1>8, <1>9, <2>2
    <3> HIDE DEF k
    <3> QED BY <1>5, <3>1
  <2> QED BY <2>1, <2>2
<1>11. Follows(S, T, n, w, a)
  BY <1>6, <1>7 DEF Follows
<1>12. c = [adapter |-> a, events |-> w]
  BY DEF a, w, u, v
<1>13. Len(w) > 2
  BY <1>4, <1>8, <1>9
<1> DEFINE d == [adapter |-> a, events |-> w]
<1>14. d \in [adapter : Adapter, events : Seq(TapeEvent)] /\ d.adapter = a /\ d.events = w
  BY <1>5, <1>8
<1> HIDE DEF d
<1>15. d \in Reached(S, T, n) /\ Len(d.events) > 2
  BY <1>10, <1>11, <1>13, <1>14 DEF Reached
<1>16. c = d
  BY <1>12 DEF d
<1> QED BY <1>15, <1>16

(* A message: its trades, if it has any, lead on, and otherwise nothing    *)
(* happens.                                                                *)
LEMMA MessageFollows ==
    ASSUME NEW n \in Nat, NEW S, NEW T, Script(S, T, n), NEW a \in Adapter,
           EndsWith(S, T, n, a), NEW trades \in Seq(Trade), NEW start,
           start = [adapter |-> a, events |-> <<>>],
           NEW o \in FoldLeft(AfterTrade, {start}, trades)
    PROVE  /\ trades = <<>> => o = start
           /\ trades # <<>> => o \in Reached(S, T, n) /\ Len(o.events) > 2
<1> DEFINE R == Reached(S, T, n)
           V == SUBSET R
           F == FoldLeft(AfterTrade, {start}, trades)
<1>1. start \in R
  <2>1. Follows(S, T, n, <<>>, a)
    BY LeadsNowhere DEF Follows
  <2> QED BY <2>1 DEF Reached
<1>2. ASSUME NEW v \in V, NEW t \in Trade, NEW c \in AfterTrade(v, t)
      PROVE  c \in R /\ Len(c.events) > 2
  <2>1. PICK x \in v : \E r \in on_trade(x.adapter, t) :
           c = [adapter |-> r.adapter, events |-> x.events \o r.events]
    BY <1>2 DEF AfterTrade
  <2>2. PICK r \in on_trade(x.adapter, t) :
           c = [adapter |-> r.adapter, events |-> x.events \o r.events]
    BY <2>1
  <2>3. x \in R
    OBVIOUS
  <2> QED BY <2>2, <2>3, ReachedOn
<1> HIDE DEF R
<1>3. {start} \in V /\ \A v \in V, t \in Trade : AfterTrade(v, t) \in V
  BY <1>1, <1>2
<1>4. trades # <<>> => LastMade(V, Trade, F)
  <2> HIDE DEF V
  <2> QED BY <1>3, AfterTradeFold
<1>5. ASSUME trades = <<>> PROVE F = {start}
  <2> DEFINE U == {{start}}
             E == {}
  <2>1. trades \in Seq(E) /\ {start} \in U /\ \A v \in U, w \in E : AfterTrade(v, w) \in U
    BY <1>5
  <2> HIDE DEF U, E
  <2>2. F \in U
    BY <2>1, AfterTradeFold
  <2> QED BY <2>2 DEF U
<1>6. ASSUME trades = <<>> PROVE o = start
  BY <1>5, <1>6
<1>7. ASSUME trades # <<>> PROVE o \in R /\ Len(o.events) > 2
  <2>1. PICK v \in V, t \in Trade : F = AfterTrade(v, t)
    BY <1>4, <1>7 DEF LastMade
  <2>2. o \in AfterTrade(v, t)
    BY <2>1
  <2> QED BY <1>2, <2>2
<1> QED BY <1>6, <1>7 DEF R

-----------------------------------------------------------------------------
(* The inductive invariant of live mode *)

(* The first i events of the tape are behind the pipeline.                 *)
Passed(i) == feed.last_sequence # None /\ i <= feed.last_sequence

(* The batch is the end of the tape, the ring holds older events in order, *)
(* and all of them are new to the pipeline.                                *)
UnderWay(S, n) ==
    /\ batch \in Seq(TapeEvent) /\ ring \in Seq(TapeEvent)
    /\ Len(batch) <= n
    /\ \A j \in 1 .. Len(batch) : batch[j] = S[n - Len(batch) + j]
    /\ \A j \in 1 .. Len(ring) :
          /\ ring[j].sequence \in 1 .. (n - Len(batch))
          /\ ring[j] = S[ring[j].sequence]
          /\ ~Passed(ring[j].sequence)
    /\ \A i, j \in 1 .. Len(ring) : i < j => ring[i].sequence < ring[j].sequence
    /\ feed.last_sequence # None => feed.last_sequence \in 1 .. (n - Len(batch))

(* Every event is counted where it is; without drops the ring's numbers    *)
(* are those that follow the events processed.                             *)
Counted(n) ==
    /\ events_processed \in Nat /\ dropped \in Nat
    /\ dropped_before \in Nat /\ dropped_before <= dropped
    /\ n = events_processed + dropped + Len(ring) + Len(batch)
    /\ dropped = 0 =>
          /\ \A j \in 1 .. Len(ring) : ring[j].sequence = events_processed + j
          /\ feed.last_sequence = IF events_processed = 0 THEN None ELSE events_processed

(* The book holds no more than the overlay after the last event applied.   *)
BookFollows(T) ==
    /\ feed.last_sequence = None => \A s \in Sides : Levels(book, s) = {}
    /\ feed.last_sequence # None =>
          \A s \in Sides : Levels(book, s) \subseteq {T[feed.last_sequence][s]}

(* The i-th event is not lost.                                             *)
NotLost(n, i) ==
    \/ i > n - Len(batch)
    \/ \E j \in 1 .. Len(ring) : ring[j].sequence = i
    \/ Passed(i)

(* Nothing was dropped since the last trades arrived: the quotes that end  *)
(* the tape are kept, and what was applied of them is in the book.         *)
Repairs(S, n) ==
    dropped = dropped_before /\ n > 0 =>
        /\ NotLost(n, n - 1) /\ NotLost(n, n)
        /\ feed.last_sequence = n - 1 =>
              /\ adapter.bid \in Prices => adapter.bid \in Levels(book, "Buy")
              /\ feed.last_event_ts = S[n - 1].timestamp
        /\ feed.last_sequence = n =>
              /\ adapter.bid \in Prices => adapter.bid \in Levels(book, "Buy")
              /\ adapter.ask \in Prices => adapter.ask \in Levels(book, "Sell")

LiveState(S, T, n) ==
    /\ Script(S, T, n) /\ EndsWith(S, T, n, adapter)
    /\ UnderWay(S, n) /\ Counted(n) /\ BookFollows(T) /\ Repairs(S, n)

LiveTypes ==
    /\ book \in Book /\ adapter \in Adapter
    /\ DOMAIN feed = {"last_sequence", "last_event_ts", "market_data_stale"}

LiveInv == LiveTypes /\ \E n \in Nat : \E S, T : LiveState(S, T, n)

(* Before the first message the tape is empty.                             *)
LEMMA InitLiveInv == LiveInit => LiveInv
<1> SUFFICES ASSUME LiveInit PROVE LiveInv
  OBVIOUS
<1> DEFINE S == [i \in 1 .. 0 |-> 0]
<1>1. 1 .. 0 = {}
  OBVIOUS
<1>2. /\ book = EmptyBook /\ feed.last_sequence = None /\ adapter = NewAdapter
      /\ batch = <<>> /\ ring = <<>> /\ dropped = 0 /\ dropped_before = 0
      /\ events_processed = 0
      /\ DOMAIN feed = {"last_sequence", "last_event_ts", "market_data_stale"}
  BY DEF LiveInit, Init
<1>3. Script(S, S, 0)
  BY <1>1 DEF Script
<1>4. EndsWith(S, S, 0, adapter)
  BY <1>2 DEF EndsWith, NewAdapter, OverlayAt, NoOverlay, Sides
<1>5. UnderWay(S, 0)
  BY <1>2 DEF UnderWay
<1>6. Counted(0)
  BY <1>2 DEF Counted
<1>7. BookFollows(S)
  BY <1>2 DEF BookFollows, Levels, EmptyBook, NoLevels
<1>8. Repairs(S, 0)
  BY DEF Repairs
<1>9. LiveState(S, S, 0)
  BY <1>3, <1>4, <1>5, <1>6, <1>7, <1>8 DEF LiveState
<1>10. LiveTypes
  BY <1>2, EmptyBookType DEF LiveTypes, NewAdapter, Adapter
<1> QED BY <1>9, <1>10 DEF LiveInv

(* What happens when nothing but the book's time or the counters changes.  *)
LEMMA LiveUnchanged ==
    ASSUME NEW n \in Nat, NEW S, NEW T, LiveState(S, T, n), LiveTypes, UNCHANGED liveVars,
           book' = book, feed'.last_sequence = feed.last_sequence,
           feed'.last_event_ts = feed.last_event_ts, DOMAIN feed' = DOMAIN feed
    PROVE  LiveInv'
<1>1. /\ adapter' = adapter /\ batch' = batch /\ ring' = ring /\ dropped' = dropped
      /\ dropped_before' = dropped_before /\ events_processed' = events_processed
  BY DEF liveVars
<1>2. LiveTypes'
  BY <1>1 DEF LiveTypes
<1>3. UnderWay(S, n)'
  BY <1>1 DEF LiveState, UnderWay, Passed
<1>4. Counted(n)'
  BY <1>1 DEF LiveState, Counted
<1>5. BookFollows(T)'
  BY <1>1 DEF LiveState, BookFollows
<1>6. Repairs(S, n)'
  BY <1>1 DEF LiveState, Repairs, NotLost, Passed
<1>7. LiveState(S, T, n)'
  BY <1>1, <1>3, <1>4, <1>5, <1>6 DEF LiveState
<1> QED BY <1>2, <1>7 DEF LiveInv

(* A message continues the tape; one without trades changes nothing.       *)
LEMMA ReceiveLiveInv ==
    ASSUME NEW n \in Nat, NEW S, NEW T, LiveState(S, T, n), LiveTypes,
           NEW f \in Frames, Receive(f)
    PROVE  LiveInv'
<1> DEFINE trades == parse_finnhub_message(f).trades
           start == [adapter |-> adapter, events |-> <<>>]
<1>1. trades \in Seq(Trade)
  BY TradesOfFrame
<1>2. PICK o \in FoldLeft(AfterTrade, {start}, trades) :
         adapter' = o.adapter /\ batch' = o.events
  BY DEF Receive
<1>3. /\ batch = <<>> /\ UNCHANGED <<ring, dropped, events_processed, vars>>
      /\ dropped_before' = IF trades = <<>> THEN dropped_before ELSE dropped
  BY DEF Receive
<1>4. /\ ring' = ring /\ dropped' = dropped /\ events_processed' = events_processed
      /\ book' = book /\ feed' = feed
  BY <1>3 DEF vars
<1>5. /\ trades = <<>> => o = start
      /\ trades # <<>> => o \in Reached(S, T, n) /\ Len(o.events) > 2
  <2>1. Script(S, T, n) /\ EndsWith(S, T, n, adapter) /\ adapter \in Adapter
    BY DEF LiveState, LiveTypes
  <2> HIDE DEF trades
  <2>2. start = [adapter |-> adapter, events |-> <<>>]
    OBVIOUS
  <2> HIDE DEF start
  <2> QED BY <1>1, <2>1, <2>2, MessageFollows
<1> HIDE DEF trades
<1>6. CASE trades = <<>>
  <2>1. adapter' = adapter /\ batch' = batch /\ dropped_before' = dropped_before
    BY <1>2, <1>3, <1>5, <1>6
  <2> QED BY <1>4, <2>1, LiveUnchanged DEF liveVars
<1>7. CASE trades # <<>>
  <2> DEFINE e == o.events
             m == Len(e)
  <2>1. /\ e \in Seq(TapeEvent) /\ o.adapter \in Adapter
        /\ Follows(S, T, n, e, o.adapter) /\ m > 2 /\ m \in Nat
        /\ \A j \in 1 .. m : e[j].sequence = n + j
    BY <1>5, <1>7 DEF Reached
  <2> HIDE DEF e
  <2>2. PICK n2, S2, T2 : /\ n2 \in Nat /\ Leads(S, T, n, e, S2, T2, n2)
                          /\ EndsWith(S2, T2, n2, o.adapter)
    BY <2>1 DEF Follows
  <2>3. /\ Script(S2, T2, n2) /\ n2 = n + m
        /\ \A i \in 1 .. n : S2[i] = S[i] /\ T2[i] = T[i]
        /\ \A j \in 1 .. m : S2[n + j] = [e[j] EXCEPT !.sequence = n + j]
    BY <2>2 DEF Leads
  <2>4. \A j \in 1 .. m : S2[n + j] = e[j]
    <3> TAKE j \in 1 .. m
    <3>1. e[j] \in TapeEvent /\ e[j].sequence = n + j
      BY <2>1
    <3>2. [e[j] EXCEPT !.sequence = n + j] = e[j]
      BY <3>1 DEF TapeEvent
    <3> QED BY <2>3, <3>2
  <2>5. adapter' = o.adapter /\ batch' = e /\ dropped_before' = dropped /\ Len(batch) = 0
    BY <1>2, <1>3, <1>7 DEF e
  <2> HIDE DEF m
  <2>6. n2 - m = n /\ \A j : n2 - m + j = n + j
    BY <2>1, <2>3
  <2>7. /\ ring \in Seq(TapeEvent)
        /\ \A j \in 1 .. Len(ring) :
              /\ ring[j].sequence \in 1 .. n
              /\ ring[j] = S[ring[j].sequence]
              /\ ~Passed(ring[j].sequence)
        /\ \A i, j \in 1 .. Len(ring) : i < j => ring[i].sequence < ring[j].sequence
        /\ feed.last_sequence # None => feed.last_sequence \in 1 .. n
    BY <2>5 DEF LiveState, UnderWay
  <2>8. UnderWay(S2, n2)'
    <3>1. /\ batch' \in Seq(TapeEvent) /\ Len(batch') = m /\ m <= n2
          /\ \A j \in 1 .. m : batch'[j] = S2[n2 - m + j]
      BY <2>1, <2>3, <2>4, <2>5, <2>6 DEF m
    <3>2. \A i : Passed(i)' <=> Passed(i)
      BY <1>4 DEF Passed
    <3> QED BY <1>4, <2>3, <2>6, <2>7, <3>1, <3>2 DEF UnderWay
  <2>9. Counted(n2)'
    <3>1. /\ events_processed \in Nat /\ dropped \in Nat /\ Len(ring) \in Nat
          /\ n = events_processed + dropped + Len(ring) + Len(batch)
      BY <2>7 DEF LiveState, Counted
    <3>2. Len(batch') = m /\ n2 = events_processed + dropped + Len(ring) + m
      BY <2>1, <2>3, <2>5, <3>1 DEF m
    <3> QED BY <1>4, <2>5, <3>1, <3>2 DEF LiveState, Counted
  <2>10. BookFollows(T2)'
    BY <1>4, <2>3, <2>7 DEF LiveState, BookFollows
  <2>11. Repairs(S2, n2)'
    <3>1. NotLost(n2, n2 - 1)' /\ NotLost(n2, n2)'
      BY <2>1, <2>3, <2>5 DEF NotLost, m
    <3>2. feed.last_sequence # n2 - 1 /\ feed.last_sequence # n2
      BY <2>1, <2>3, <2>7, PipelineAssumption
    <3> QED BY <1>4, <3>1, <3>2 DEF Repairs
  <2>12. LiveState(S2, T2, n2)'
    BY <2>2, <2>3, <2>5, <2>8, <2>9, <2>10, <2>11 DEF LiveState
  <2>13. LiveTypes'
    BY <1>4, <2>1, <2>5 DEF LiveTypes
  <2> QED BY <2>2, <2>12, <2>13 DEF LiveInv
<1> QED BY <1>6, <1>7

(* The callback moves the oldest event of the batch to the ring, or counts *)
(* it as dropped.                                                          *)
LEMMA CallbackLiveInv ==
    ASSUME NEW n \in Nat, NEW S, NEW T, LiveState(S, T, n), LiveTypes, Callback
    PROVE  LiveInv'
<1> DEFINE m == Len(batch)
           l == Len(ring)
           e == Head(batch)
<1>1. /\ Script(S, T, n) /\ EndsWith(S, T, n, adapter)
      /\ UnderWay(S, n) /\ Counted(n) /\ BookFollows(T) /\ Repairs(S, n)
  BY DEF LiveState
<1>2. /\ batch \in Seq(TapeEvent) /\ ring \in Seq(TapeEvent) /\ m <= n
      /\ \A j \in 1 .. m : batch[j] = S[n - m + j]
      /\ \A j \in 1 .. l : /\ ring[j].sequence \in 1 .. (n - m)
                           /\ ring[j] = S[ring[j].sequence]
                           /\ ~Passed(ring[j].sequence)
      /\ \A i, j \in 1 .. l : i < j => ring[i].sequence < ring[j].sequence
      /\ feed.last_sequence # None => feed.last_sequence \in 1 .. (n - m)
  BY <1>1 DEF UnderWay
<1>3. /\ batch # <<>> /\ batch' = Tail(batch)
      /\ IF l < RingCapacity THEN ring' = Append(ring, e) /\ dropped' = dropped
         ELSE dropped' = dropped + 1 /\ ring' = ring
      /\ adapter' = adapter /\ dropped_before' = dropped_before
      /\ events_processed' = events_processed /\ book' = book /\ feed' = feed
  BY DEF Callback, vars
<1>4. m \in Nat /\ m > 0 /\ l \in Nat /\ n - m + 1 \in 1 .. n
  BY <1>2, <1>3
<1>5. /\ batch' \in Seq(TapeEvent) /\ Len(batch') = m - 1
      /\ \A j \in 1 .. (m - 1) : batch'[j] = batch[j + 1]
      /\ e \in TapeEvent /\ e = batch[1]
  BY <1>2, <1>3, HeadTailProperties
<1> HIDE DEF m, l
<1>6. e = S[n - m + 1] /\ e.sequence = n - m + 1
  <2>1. e = S[n - m + 1]
    <3> HIDE DEF e
    <3>1. 1 \in 1 .. m
      BY <1>4
    <3>2. batch[1] = S[n - m + 1]
      BY <1>2, <3>1
    <3> QED BY <1>5, <3>2
  <2> QED BY <1>1, <1>4, <2>1 DEF Script
<1> HIDE DEF e
<1>7. \A i : Passed(i)' <=> Passed(i)
  BY <1>3 DEF Passed
<1>8. /\ m - 1 <= n /\ n - (m - 1) = n - m + 1
      /\ \A j \in 1 .. (m - 1) : batch'[j] = S[n - (m - 1) + j]
  <2>1. \A j \in 1 .. (m - 1) : j + 1 \in 1 .. m /\ n - m + (j + 1) = n - (m - 1) + j
    BY <1>4
  <2>2. m - 1 <= n /\ n - (m - 1) = n - m + 1
    BY <1>2, <1>4
  <2> QED BY <1>2, <1>5, <2>1, <2>2
<1>9. feed.last_sequence # None => feed.last_sequence \in 1 .. (n - (m - 1))
  BY <1>2, <1>4
<1>10. BookFollows(T)'
  BY <1>1, <1>3 DEF BookFollows
<1>11. LiveTypes'
  BY <1>3 DEF LiveTypes
<1>12. CASE l < RingCapacity
  <2>1. ring' = Append(ring, e) /\ dropped' = dropped
    BY <1>3, <1>12
  <2>2. /\ ring' \in Seq(TapeEvent) /\ Len(ring') = l + 1
        /\ \A j \in 1 .. l : ring'[j] = ring[j]
        /\ ring'[l + 1] = e
    BY <1>2, <1>5, <2>1, AppendProperties DEF l
  <2>3. \A j \in 1 .. (l + 1) : j \in 1 .. l \/ j = l + 1
    BY <1>4
  <2>4. ~Passed(e.sequence)
    BY <1>2, <1>4, <1>6 DEF Passed
  <2>5. UnderWay(S, n)'
    <3>1. ASSUME NEW j \in 1 .. (l + 1)
          PROVE  /\ ring'[j].sequence \in 1 .. (n - (m - 1))
                 /\ ring'[j] = S[ring'[j].sequence]
                 /\ ~Passed(ring'[j].sequence)
      <4>1. CASE j \in 1 .. l
        BY <1>2, <1>4, <2>2, <4>1
      <4>2. CASE j = l + 1
        BY <1>4, <1>6, <1>8, <2>2, <2>4, <4>2
      <4> QED BY <2>3, <4>1, <4>2
    <3>2. ASSUME NEW i \in 1 .. (l + 1), NEW j \in 1 .. (l + 1), i < j
          PROVE  ring'[i].sequence < ring'[j].sequence
      <4>1. i \in 1 .. l
        BY <1>4, <3>2
      <4>2. CASE j \in 1 .. l
        BY <1>2, <2>2, <3>2, <4>1, <4>2
      <4>3. CASE j = l + 1
        <5>1. ring[i].sequence \in 1 .. (n - m) /\ ring'[i] = ring[i] /\ ring'[j] = e
          BY <1>2, <2>2, <4>1, <4>3
        <5> QED BY <1>4, <1>6, <5>1
      <4> QED BY <2>3, <4>2, <4>3
    <3> QED BY <1>3, <1>5, <1>7, <1>8, <1>9, <2>2, <3>1, <3>2 DEF UnderWay
  <2>6. Counted(n)'
    <3>1. /\ events_processed \in Nat /\ dropped \in Nat
          /\ dropped_before \in Nat /\ dropped_before <= dropped
          /\ n = events_processed + dropped + l + m
          /\ dropped = 0 =>
                /\ \A j \in 1 .. l : ring[j].sequence = events_processed + j
                /\ feed.last_sequence = IF events_processed = 0 THEN None ELSE events_processed
      BY <1>1 DEF Counted, l, m
    <3>2. n = events_processed + dropped + (l + 1) + (m - 1)
      BY <1>4, <3>1
    <3>3. ASSUME dropped = 0, NEW j \in 1 .. (l + 1)
          PROVE  ring'[j].sequence = events_processed + j
      <4>1. CASE j \in 1 .. l
        BY <2>2, <3>1, <3>3, <4>1
      <4>2. CASE j = l + 1
        BY <1>4, <1>6, <2>2, <3>1, <3>3, <4>2
      <4> QED BY <2>3, <4>1, <4>2
    <3> QED BY <1>3, <1>5, <2>1, <2>2, <3>1, <3>2, <3>3 DEF Counted
  <2>7. Repairs(S, n)'
    <3>1. ASSUME NEW i \in Nat, NotLost(n, i) PROVE NotLost(n, i)'
      <4>1. CASE i > n - m
        <5>1. i > n - (m - 1) \/ i = n - m + 1
          BY <1>4, <4>1
        <5>2. i = n - m + 1 => l + 1 \in 1 .. (l + 1) /\ ring'[l + 1].sequence = i
          BY <1>4, <1>6, <2>2
        <5> QED BY <1>5, <2>2, <5>1, <5>2 DEF NotLost
      <4>2. CASE \E j \in 1 .. l : ring[j].sequence = i
        <5>1. PICK j \in 1 .. l : ring[j].sequence = i
          BY <4>2
        <5>2. j \in 1 .. (l + 1) /\ ring'[j].sequence = i
          BY <1>4, <2>2, <5>1
        <5> QED BY <2>2, <5>2 DEF NotLost
      <4>3. CASE Passed(i)
        BY <1>7, <4>3 DEF NotLost
      <4> QED BY <3>1, <4>1, <4>2, <4>3 DEF NotLost, l, m
    <3>2. n > 0 => n - 1 \in Nat
      OBVIOUS
    <3> QED BY <1>1, <1>3, <2>1, <3>1, <3>2 DEF Repairs
  <2>8. LiveState(S, T, n)'
    BY <1>1, <1>3, <1>10, <2>5, <2>6, <2>7 DEF LiveState
  <2> QED BY <1>11, <2>8 DEF LiveInv
<1>13. CASE ~ (l < RingCapacity)
  <2>1. ring' = ring /\ dropped' = dropped + 1
    BY <1>3, <1>13
  <2>2. UnderWay(S, n)'
    <3>1. \A j \in 1 .. l : ring[j].sequence \in 1 .. (n - (m - 1))
      BY <1>2, <1>4
    <3> QED BY <1>2, <1>3, <1>5, <1>7, <1>8, <1>9, <2>1, <3>1 DEF UnderWay, l
  <2>3. Counted(n)' /\ dropped' # dropped_before'
    <3>1. /\ events_processed \in Nat /\ dropped \in Nat
          /\ dropped_before \in Nat /\ dropped_before <= dropped
          /\ n = events_processed + dropped + l + m
      BY <1>1 DEF Counted, l, m
    <3>2. /\ dropped + 1 \in Nat /\ dropped_before <= dropped + 1
          /\ dropped_before # dropped + 1 /\ dropped + 1 # 0
          /\ n = events_processed + (dropped + 1) + l + (m - 1)
      BY <1>4, <3>1
    <3> QED BY <1>3, <1>5, <2>1, <3>1, <3>2 DEF Counted, l
  <2>4. LiveState(S, T, n)'
    BY <1>1, <1>3, <1>10, <2>2, <2>3 DEF LiveState, Repairs
  <2> QED BY <1>11, <2>4 DEF LiveInv
<1> QED BY <1>12, <1>13

(* An event that turns the overlay keeps the book within it.               *)
LEMMA LevelsFollow ==
    ASSUME NEW b \in Book, NEW ev \in TapeEvent, NEW x \in Overlay, NEW y \in Overlay,
           Turns(x, ev, y), \A s \in Sides : Levels(b, s) \subseteq {x[s]}, NEW s \in Sides
    PROVE  Levels(apply(b, ev), s) \subseteq {y[s]}
<1> SUFFICES ASSUME NEW p \in Prices, apply(b, ev).level[s][p] > 0 PROVE p = y[s]
  BY DEF Levels
<1>1. ev.side \in Sides /\ ev.type \in {"Trade", "Quote", "BookDelete"} /\ ev.price \in Int
  BY DEF TapeEvent
<1>2. apply(b, ev).level[s][p] = LevelAfter(ev, s, p, b.level[s][p])
  BY <1>1, ApplyLevel
<1>3. b.level[s][p] > 0 => p = x[s]
  BY DEF Levels
<1>4. p # None
  BY FeedAssumption, PipelineAssumption
<1> QED BY <1>1, <1>2, <1>3, <1>4 DEF LevelAfter, Turns

(* A quote makes a level of its price.                                     *)
LEMMA QuoteMakesLevel ==
    ASSUME NEW b \in Book, NEW ev \in TapeEvent, ev.type = "Quote", ev.quantity > 0
    PROVE  /\ ev.price \in Prices => ev.price \in Levels(apply(b, ev), ev.side)
           /\ \A s \in Sides : s # ev.side => Levels(b, s) \subseteq Levels(apply(b, ev), s)
<1>1. ev.side \in Sides
  BY DEF TapeEvent
<1>2. \A s \in Sides, p \in Prices :
         apply(b, ev).level[s][p] = LevelAfter(ev, s, p, b.level[s][p])
  BY <1>1, ApplyLevel
<1> QED BY <1>1, <1>2 DEF Levels, LevelAfter

(* The pipeline takes the oldest event of the ring.                        *)
LEMMA ConsumeLiveInv ==
    ASSUME NEW n \in Nat, NEW S, NEW T, LiveState(S, T, n), LiveTypes, Consume
    PROVE  LiveInv'
<1> DEFINE m == Len(batch)
           l == Len(ring)
           e == Head(ring)
           q == e.sequence
           k == n - m
           resync == Gap(e) \/ StaleSince(e.timestamp)
           start == IF resync THEN clear(book) ELSE book
<1>1. /\ Script(S, T, n) /\ EndsWith(S, T, n, adapter)
      /\ UnderWay(S, n) /\ Counted(n) /\ BookFollows(T) /\ Repairs(S, n)
  BY DEF LiveState
<1>2. /\ batch \in Seq(TapeEvent) /\ ring \in Seq(TapeEvent) /\ m <= n
      /\ \A j \in 1 .. m : batch[j] = S[n - m + j]
      /\ \A j \in 1 .. l : /\ ring[j].sequence \in 1 .. k
                           /\ ring[j] = S[ring[j].sequence]
                           /\ ~Passed(ring[j].sequence)
      /\ \A i, j \in 1 .. l : i < j => ring[i].sequence < ring[j].sequence
      /\ feed.last_sequence # None => feed.last_sequence \in 1 .. k
  BY <1>1 DEF UnderWay
<1>3. /\ ring # <<>> /\ ring' = Tail(ring) /\ events_processed' = events_processed + 1
      /\ process(e) /\ adapter' = adapter /\ batch' = batch /\ dropped' = dropped
      /\ dropped_before' = dropped_before
  BY DEF Consume
<1>4. m \in Nat /\ l \in Nat /\ l > 0 /\ k \in Nat /\ k <= n
  BY <1>2, <1>3
<1>5. /\ ring' \in Seq(TapeEvent) /\ Len(ring') = l - 1
      /\ \A j \in 1 .. (l - 1) : ring'[j] = ring[j + 1]
      /\ e \in TapeEvent /\ e = ring[1]
  BY <1>2, <1>3, HeadTailProperties
<1> HIDE DEF m, l, e
<1>6. q \in 1 .. k /\ q \in 1 .. n /\ e = S[q] /\ ~Passed(q) /\ q # None
  <2>1. 1 \in 1 .. l
    BY <1>4
  <2>2. q \in 1 .. k /\ e = S[q] /\ ~Passed(q)
    BY <1>2, <1>5, <2>1
  <2> QED BY <1>4, <2>2, PipelineAssumption
<1>7. /\ ~OutOfOrder(e)
      /\ feed' = [last_sequence |-> q, last_event_ts |-> e.timestamp,
                  market_data_stale |-> FALSE]
      /\ book' = apply(start, e)
  BY <1>3, <1>6 DEF process, Drop, Accept, OutOfOrder, Passed
<1>8. /\ feed'.last_sequence = q /\ feed'.last_event_ts = e.timestamp
      /\ DOMAIN feed' = {"last_sequence", "last_event_ts", "market_data_stale"}
  BY <1>7
<1> HIDE DEF k, q
<1>9. \A i : Passed(i)' <=> i <= q
  BY <1>6, <1>8 DEF Passed
<1>10. book \in Book /\ start \in Book /\ book' \in Book
  <2>1. book \in Book /\ start \in Book
    BY ClearOK DEF LiveTypes
  <2>2. e.side \in Sides /\ e.quantity \in Nat /\ e.timestamp \in Int
    BY <1>5, FeedAssumption DEF TapeEvent
  <2> QED BY <1>7, <2>1, <2>2, ApplyOK
<1>11. LiveTypes'
  BY <1>3, <1>8, <1>10 DEF LiveTypes
<1>12. \A j \in 1 .. (l - 1) : j + 1 \in 1 .. l /\ 1 \in 1 .. l /\ 1 < j + 1
  BY <1>4
<1>13. UnderWay(S, n)'
  <2>1. ASSUME NEW j \in 1 .. (l - 1)
        PROVE  /\ ring'[j].sequence \in 1 .. k
               /\ ring'[j] = S[ring'[j].sequence]
               /\ ~ (ring'[j].sequence <= q)
    <3>1. ring'[j] = ring[j + 1] /\ j + 1 \in 1 .. l /\ 1 \in 1 .. l /\ 1 < j + 1
      BY <1>5, <1>12
    <3>2. q < ring[j + 1].sequence
      BY <1>2, <1>5, <3>1 DEF q
    <3>3. ring[j + 1].sequence \in 1 .. k
      BY <1>2, <3>1
    <3>4. ~ (ring[j + 1].sequence <= q)
      BY <1>6, <3>2, <3>3
    <3> QED BY <1>2, <3>1, <3>3, <3>4
  <2>2. ASSUME NEW i \in 1 .. (l - 1), NEW j \in 1 .. (l - 1), i < j
        PROVE  ring'[i].sequence < ring'[j].sequence
    <3>1. i + 1 \in 1 .. l /\ j + 1 \in 1 .. l /\ i + 1 < j + 1
      BY <1>4, <2>2
    <3> QED BY <1>2, <1>5, <3>1
  <2> QED BY <1>2, <1>3, <1>5, <1>6, <1>8, <2>1, <2>2 DEF UnderWay, Passed, k, m
<1>14. Counted(n)'
  <2>1. /\ events_processed \in Nat /\ dropped \in Nat
        /\ dropped_before \in Nat /\ dropped_before <= dropped
        /\ n = events_processed + dropped + l + m
        /\ dropped = 0 => \A j \in 1 .. l : ring[j].sequence = events_processed + j
    BY <1>1 DEF Counted, l, m
  <2>2. /\ events_processed + 1 \in Nat /\ events_processed + 1 # 0
        /\ n = (events_processed + 1) + dropped + (l - 1) + m
    BY <1>4, <2>1
  <2>3. ASSUME dropped = 0 PROVE q = events_processed + 1
    <3>1. 1 \in 1 .. l
      BY <1>4
    <3> QED BY <1>5, <2>1, <2>3, <3>1 DEF q
  <2>4. ASSUME dropped = 0, NEW j \in 1 .. (l - 1)
        PROVE  ring'[j].sequence = (events_processed + 1) + j
    <3>1. ring[j + 1].sequence = events_processed + (j + 1)
      BY <1>12, <2>1, <2>4
    <3> QED BY <1>5, <2>1, <3>1
  <2> QED BY <1>3, <1>5, <1>8, <2>1, <2>2, <2>3, <2>4 DEF Counted, m
<1>15. ASSUME NEW s \in Sides PROVE Levels(book', s) \subseteq {T[q][s]}
  <2> DEFINE x == OverlayAt(T, q - 1)
  <2>1. T[q] \in Overlay /\ Turns(x, e, T[q])
    BY <1>1, <1>6 DEF Script
  <2>2. x \in Overlay
    <3>1. q - 1 = 0 \/ q - 1 \in 1 .. n
      BY <1>6
    <3> QED BY <1>1, <3>1 DEF Script, OverlayAt, NoOverlay, Overlay
  <2>3. ASSUME NEW z \in Sides PROVE Levels(start, z) \subseteq {x[z]}
    <3>1. CASE resync
      <4>1. start.level = NoLevels
        BY <1>10, <3>1 DEF clear, Book
      <4> QED BY <4>1 DEF Levels, NoLevels
    <3>2. CASE ~resync /\ feed.last_sequence = None
      BY <1>1, <3>2 DEF BookFollows
    <3>3. CASE ~resync /\ feed.last_sequence # None
      <4>1. q = feed.last_sequence + 1 /\ feed.last_sequence \in 1 .. k
        BY <1>2, <3>3 DEF Gap, q
      <4>2. q - 1 = feed.last_sequence /\ q - 1 # 0
        BY <4>1
      <4>3. x = T[feed.last_sequence]
        BY <4>2 DEF OverlayAt
      <4> QED BY <1>1, <3>3, <4>3 DEF BookFollows
    <3> QED BY <3>1, <3>2, <3>3
  <2> HIDE DEF start, x
  <2>4. Levels(apply(start, e), s) \subseteq {T[q][s]}
    BY <1>5, <1>10, <2>1, <2>2, <2>3, LevelsFollow
  <2> QED BY <1>7, <2>4 DEF start
<1>16. BookFollows(T)'
  BY <1>6, <1>8, <1>15 DEF BookFollows
<1>17. Repairs(S, n)'
  <2> SUFFICES ASSUME dropped = dropped_before, n > 0
               PROVE  /\ NotLost(n, n - 1)' /\ NotLost(n, n)'
                      /\ q = n - 1 =>
                            /\ adapter.bid \in Prices => adapter.bid \in Levels(book', "Buy")
                            /\ e.timestamp = S[n - 1].timestamp
                      /\ q = n =>
                            /\ adapter.bid \in Prices => adapter.bid \in Levels(book', "Buy")
                            /\ adapter.ask \in Prices => adapter.ask \in Levels(book', "Sell")
    BY <1>3, <1>8 DEF Repairs
  <2>1. /\ NotLost(n, n - 1) /\ NotLost(n, n)
        /\ feed.last_sequence = n - 1 =>
              /\ adapter.bid \in Prices => adapter.bid \in Levels(book, "Buy")
              /\ feed.last_event_ts = S[n - 1].timestamp
    BY <1>1 DEF Repairs
  <2>2. /\ n > 2 /\ S[n - 1].timestamp = S[n].timestamp
        /\ S[n - 1].type = "Quote" /\ S[n - 1].side = "Buy"
        /\ S[n - 1].price = adapter.bid /\ S[n - 1].quantity > 0
        /\ S[n].type = "Quote" /\ S[n].side = "Sell"
        /\ S[n].price = adapter.ask /\ S[n].quantity > 0
    BY <1>1 DEF EndsWith
  <2>3. ASSUME NEW i \in Nat, NotLost(n, i) PROVE NotLost(n, i)'
    <3>1. CASE i > n - m
      BY <1>3, <3>1 DEF NotLost, m
    <3>2. CASE \E j \in 1 .. l : ring[j].sequence = i
      <4>1. PICK j \in 1 .. l : ring[j].sequence = i
        BY <3>2
      <4>2. CASE j = 1
        <5>1. i <= q
          BY <1>5, <1>6, <4>1, <4>2 DEF q
        <5> QED BY <1>9, <5>1 DEF NotLost
      <4>3. CASE j # 1
        <5>1. j - 1 \in 1 .. (l - 1) /\ (j - 1) + 1 = j
          BY <1>4, <4>3
        <5>2. ring'[j - 1] = ring[j]
          BY <1>5, <5>1
        <5> QED BY <1>5, <4>1, <5>1, <5>2 DEF NotLost
      <4> QED BY <4>2, <4>3
    <3>3. CASE Passed(i)
      <4>1. feed.last_sequence \in 1 .. k /\ i <= feed.last_sequence /\ ~ (q <= feed.last_sequence)
        BY <1>2, <1>6, <3>3 DEF Passed
      <4>2. i <= q
        BY <1>6, <4>1
      <4> QED BY <1>9, <4>2 DEF NotLost
    <3> QED BY <2>3, <3>1, <3>2, <3>3 DEF NotLost, l, m
  <2>4. NotLost(n, n - 1)' /\ NotLost(n, n)'
    <3>1. n - 1 \in Nat
      BY <2>2
    <3> QED BY <2>1, <2>3, <3>1
  <2>5. ASSUME q = n - 1
        PROVE  /\ adapter.bid \in Prices => adapter.bid \in Levels(book', "Buy")
               /\ e.timestamp = S[n - 1].timestamp
    <3>1. e = S[n - 1]
      BY <1>6, <2>5
    <3>2. e.type = "Quote" /\ e.side = "Buy" /\ e.price = adapter.bid /\ e.quantity > 0
      BY <2>2, <3>1
    <3> HIDE DEF start
    <3>3. e.price \in Prices => e.price \in Levels(apply(start, e), e.side)
      BY <1>5, <1>10, <3>2, QuoteMakesLevel
    <3> QED BY <1>7, <3>1, <3>2, <3>3
  <2>6. ASSUME q = n
        PROVE  /\ adapter.bid \in Prices => adapter.bid \in Levels(book', "Buy")
               /\ adapter.ask \in Prices => adapter.ask \in Levels(book', "Sell")
    <3>1. e = S[n]
      BY <1>6, <2>6
    <3>2. e.type = "Quote" /\ e.side = "Sell" /\ e.price = adapter.ask /\ e.quantity > 0
      BY <2>2, <3>1
    <3>3. Passed(n - 1)
      <4>1. ~ (n - 1 > n - m)
        BY <1>4, <1>6, <2>6 DEF k
      <4>2. ASSUME NEW j \in 1 .. l PROVE ring[j].sequence # n - 1
        <5>1. CASE j = 1
          BY <1>5, <2>6, <5>1 DEF q
        <5>2. CASE j # 1
          <6>1. 1 \in 1 .. l /\ 1 < j
            BY <1>4, <5>2
          <6>2. ring[1].sequence < ring[j].sequence /\ ring[j].sequence \in 1 .. k
            BY <1>2, <6>1
          <6> QED BY <1>5, <2>6, <6>2 DEF q
        <5> QED BY <5>1, <5>2
      <4> QED BY <2>1, <4>1, <4>2 DEF NotLost, l, m
    <3>4. feed.last_sequence = n - 1
      <4>1. feed.last_sequence \in 1 .. k /\ n - 1 <= feed.last_sequence
            /\ ~ (n <= feed.last_sequence)
        BY <1>2, <1>6, <2>6, <3>3 DEF Passed
      <4> QED BY <1>4, <4>1
    <3>5. ~resync
      <4>1. ~Gap(e)
        BY <2>6, <3>4 DEF Gap, q
      <4>2. e.timestamp = feed.last_event_ts /\ e.timestamp \in Int
        BY <1>5, <2>1, <2>2, <3>1, <3>4, FeedAssumption DEF TapeEvent
      <4>3. ~StaleSince(e.timestamp)
        BY <4>2, StrategyAssumption DEF StaleSince
      <4> QED BY <4>1, <4>3
    <3>6. book' = apply(book, e)
      BY <1>7, <3>5
    <3> HIDE DEF start
    <3>7. /\ e.price \in Prices => e.price \in Levels(apply(book, e), e.side)
          /\ \A s \in Sides : s # e.side => Levels(book, s) \subseteq Levels(apply(book, e), s)
      BY <1>5, <1>10, <3>2, QuoteMakesLevel
    <3>8. adapter.bid \in Prices => adapter.bid \in Levels(book', "Buy")
      BY <2>1, <3>2, <3>4, <3>6, <3>7 DEF Sides
    <3>9. adapter.ask \in Prices => adapter.ask \in Levels(book', "Sell")
      BY <3>2, <3>6, <3>7
    <3> QED BY <3>8, <3>9
  <2> QED BY <2>4, <2>5, <2>6
<1>18. LiveState(S, T, n)'
  BY <1>1, <1>3, <1>13, <1>14, <1>16, <1>17 DEF LiveState
<1> QED BY <1>11, <1>18 DEF LiveInv

(* Every step of the two threads.                                          *)
LEMMA NextLiveInv == LiveInv /\ [LiveNext]_<<vars, liveVars>> => LiveInv'
<1> SUFFICES ASSUME LiveInv, [LiveNext]_<<vars, liveVars>> PROVE LiveInv'
  OBVIOUS
<1>1. PICK n, S, T : n \in Nat /\ LiveState(S, T, n)
  BY DEF LiveInv
<1>2. LiveTypes
  BY DEF LiveInv
<1>3. ASSUME NEW f \in Frames, Receive(f) PROVE LiveInv'
  BY <1>1, <1>2, <1>3, ReceiveLiveInv
<1>4. CASE Callback
  BY <1>1, <1>2, <1>4, CallbackLiveInv
<1>5. CASE Consume
  BY <1>1, <1>2, <1>5, ConsumeLiveInv
<1>6. ASSUME NEW now \in Timestamps, LookAtClock(now) PROVE LiveInv'
  <2>1. /\ book' = book /\ feed' = [feed EXCEPT !.market_data_stale = TRUE]
        /\ UNCHANGED liveVars
    BY <1>6 DEF LookAtClock, OnClock
  <2>2. /\ feed'.last_sequence = feed.last_sequence
        /\ feed'.last_event_ts = feed.last_event_ts /\ DOMAIN feed' = DOMAIN feed
    BY <1>2, <2>1 DEF LiveTypes
  <2> QED BY <1>1, <1>2, <2>1, <2>2, LiveUnchanged
<1>7. CASE UNCHANGED <<vars, liveVars>>
  BY <1>1, <1>2, <1>7, LiveUnchanged DEF vars
<1> QED BY <1>3, <1>4, <1>5, <1>6, <1>7 DEF LiveNext

(* LiveInv in every reachable state.                                       *)
LEMMA LiveInvariance == LiveSpec => []LiveInv
BY InitLiveInv, NextLiveInv, PTL DEF LiveSpec

-----------------------------------------------------------------------------
(* The results *)

(* The report's counters add up: every event that the adapter numbered is  *)
(* processed, counted as dropped, in the ring or in the client's batch.    *)
THEOREM LiveEventsAccountedFor == LiveSpec => []EventsAccountedFor
<1>1. LiveInv => EventsAccountedFor
  <2> SUFFICES ASSUME LiveInv PROVE EventsAccountedFor
    OBVIOUS
  <2>1. PICK n, S, T : n \in Nat /\ LiveState(S, T, n)
    BY DEF LiveInv
  <2>2. /\ adapter.seq = n + 1
        /\ n = events_processed + dropped + Len(ring) + Len(batch)
    BY <2>1 DEF LiveState, EndsWith, Counted
  <2>3. adapter.seq - 1 = n
    BY <2>2
  <2> QED BY <2>2, <2>3 DEF EventsAccountedFor
<1> QED BY <1>1, LiveInvariance, PTL

(* While the ring drops nothing, the event the pipeline takes next is the  *)
(* successor of the last one, whatever frames and ticks were ignored.      *)
THEOREM LiveLosslessFeedHasNoGap == LiveSpec => []LosslessFeedHasNoGap
<1>1. LiveInv => LosslessFeedHasNoGap
  <2> SUFFICES ASSUME LiveInv, dropped = 0, ring # <<>>
               PROVE  ~Gap(Head(ring)) /\ ~OutOfOrder(Head(ring))
    BY DEF LosslessFeedHasNoGap
  <2>1. PICK n, S, T : n \in Nat /\ LiveState(S, T, n)
    BY DEF LiveInv
  <2>2. /\ ring \in Seq(TapeEvent) /\ events_processed \in Nat
        /\ \A j \in 1 .. Len(ring) : ring[j].sequence = events_processed + j
        /\ feed.last_sequence = IF events_processed = 0 THEN None ELSE events_processed
    BY <2>1 DEF LiveState, UnderWay, Counted
  <2>3. 1 \in 1 .. Len(ring) /\ Head(ring) = ring[1]
    BY <2>2
  <2>4. Head(ring).sequence = events_processed + 1
    BY <2>2, <2>3
  <2> QED BY <2>2, <2>4 DEF Gap, OutOfOrder
<1> QED BY <1>1, LiveInvariance, PTL

(* Whatever the full ring dropped, the book holds at most one synthetic    *)
(* level per side, and with a spread of two ticks or more, so that         *)
(* rounding cannot bring bid and ask together, it is not crossed.          *)
THEOREM LiveOneLevelPerSide ==
    ASSUME Spread >= 2
    PROVE  LiveSpec => []OneLevelPerSide
<1>1. LiveInv => OneLevelPerSide
  <2> SUFFICES ASSUME LiveInv PROVE OneLevelPerSide
    OBVIOUS
  <2>1. PICK n, S, T : n \in Nat /\ LiveState(S, T, n)
    BY DEF LiveInv
  <2>2. CASE feed.last_sequence = None
    <3>1. \A s \in Sides : Levels(book, s) = {}
      BY <2>1, <2>2 DEF LiveState, BookFollows
    <3> QED BY <3>1 DEF OneLevelPerSide, crossed, Sides
  <2>3. CASE feed.last_sequence # None
    <3> DEFINE y == T[feed.last_sequence]
    <3>1. \A s \in Sides : Levels(book, s) \subseteq {y[s]}
      BY <2>1, <2>3 DEF LiveState, BookFollows
    <3>2. Proper(y)
      <4>1. feed.last_sequence \in 1 .. n
        <5>1. Len(batch) \in Nat /\ feed.last_sequence \in 1 .. (n - Len(batch))
          BY <2>1, <2>3 DEF LiveState, UnderWay
        <5> QED BY <2>1, <5>1
      <4> QED BY <2>1, <4>1 DEF LiveState, Script
    <3> HIDE DEF y
    <3>3. \A p, q : p \in Levels(book, "Buy") /\ q \in Levels(book, "Sell") =>
             p \in Int /\ q \in Int /\ p < q
      <4> SUFFICES ASSUME NEW p \in Levels(book, "Buy"), NEW q \in Levels(book, "Sell")
                   PROVE  p \in Int /\ q \in Int /\ p < q
        OBVIOUS
      <4>1. p = y["Buy"] /\ q = y["Sell"]
        BY <3>1 DEF Sides
      <4>2. p \in Int /\ q \in Int /\ p # None /\ q # None
        BY FeedAssumption, PipelineAssumption DEF Levels
      <4> QED BY <3>2, <4>1, <4>2 DEF Proper
    <3>4. ~crossed(book)
      BY <3>3 DEF crossed
    <3> QED BY <3>1, <3>4 DEF OneLevelPerSide
  <2> QED BY <2>2, <2>3
<1> QED BY <1>1, LiveInvariance, PTL

(* One message that gets through whole repairs whatever was lost before    *)
(* it: once it is consumed, the book is the adapter's overlay.  The        *)
(* hypothesis says that the tape's synthetic prices are prices of the      *)
(* model's book, which in the code holds any int64.                        *)
THEOREM LiveRepairedByOneMessage ==
    ASSUME TapeInRange
    PROVE  LiveSpec => []RepairedByOneMessage
<1>1. LiveInv => RepairedByOneMessage
  <2> SUFFICES ASSUME LiveInv, batch = <<>>, ring = <<>>, adapter.bid # None,
                      dropped = dropped_before
               PROVE  /\ Levels(book, "Buy") = {adapter.bid}
                      /\ Levels(book, "Sell") = {adapter.ask}
    BY DEF RepairedByOneMessage
  <2>1. PICK n, S, T : n \in Nat /\ LiveState(S, T, n)
    BY DEF LiveInv
  <2>2. /\ n > 2 /\ OverlayAt(T, n)["Buy"] = adapter.bid
        /\ OverlayAt(T, n)["Sell"] = adapter.ask
        /\ adapter.bid \in Prices \cup {None} /\ adapter.ask \in Prices \cup {None}
        /\ S[n].price = adapter.ask
    BY <2>1 DEF LiveState, EndsWith
  <2>3. adapter.bid \in Prices /\ adapter.ask \in Prices
    <3>1. n \in 1 .. n
      BY <2>1, <2>2
    <3>2. S[n] \in TapeEvent
      BY <2>1, <3>1 DEF LiveState, Script
    <3>3. adapter.ask \in Int
      BY <2>2, <3>2 DEF TapeEvent
    <3> QED BY <2>2, <3>3, PipelineAssumption
  <2>4. Len(batch) = 0 /\ Len(ring) = 0
    OBVIOUS
  <2>5. feed.last_sequence = n
    <3>1. NotLost(n, n) /\ (feed.last_sequence # None => feed.last_sequence \in 1 .. n)
      BY <2>1, <2>2, <2>4 DEF LiveState, Repairs, UnderWay
    <3> QED BY <2>1, <2>4, <3>1 DEF NotLost, Passed
  <2>6. adapter.bid \in Levels(book, "Buy") /\ adapter.ask \in Levels(book, "Sell")
    BY <2>1, <2>2, <2>3, <2>5 DEF LiveState, Repairs
  <2>7. feed.last_sequence # None /\ OverlayAt(T, n) = T[n]
    BY <2>1, <2>2, <2>5, PipelineAssumption DEF OverlayAt
  <2>8. \A s \in Sides : Levels(book, s) \subseteq {T[n][s]}
    BY <2>1, <2>5, <2>7 DEF LiveState, BookFollows
  <2> QED BY <2>2, <2>6, <2>7, <2>8 DEF Sides
<1> QED BY <1>1, LiveInvariance, PTL
=============================================================================
