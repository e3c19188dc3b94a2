--------------------------- MODULE PipelineProofs ---------------------------
(***************************************************************************)
(* Proofs about Pipeline, for every value of its constants.                *)
(*                                                                         *)
(* The inductive invariant IInv says that the desk is in order (DeskOK):   *)
(* slots and open orders describe each other, and the position stays in    *)
(* range now and after any one complete fill.  It is shown for each        *)
(* operation on the desk in turn (cancel, submit, requote, fill reports),  *)
(* and the actions are chains of those operations.                         *)
(***************************************************************************)
EXTENDS Pipeline, DataTheorems

-----------------------------------------------------------------------------
(* Best prices *)

(* Twice the mid price is a natural number.                                *)
LEMMA Mid2Type == ASSUME NEW b \in Book PROVE mid2(b) \in Nat
<1>1. \A s \in Sides : Levels(b, s) \in SUBSET (1 .. MaxPrice)
  BY FeedAssumption DEF Levels
<1>2. CASE TwoSided(b)
  <2>1. Levels(b, "Buy") # {} /\ Levels(b, "Sell") # {}
    BY <1>2 DEF TwoSided, Sides
  <2>2. best_bid(b) \in Nat
    <3>1. Levels(b, "Buy") \in SUBSET (1 .. MaxPrice) /\ MaxPrice \in Nat
      BY <1>1, FeedAssumption DEF Sides
    <3>2. Max(Levels(b, "Buy")) \in Levels(b, "Buy")
      BY <2>1, <3>1, MaxOfNaturals
    <3> QED BY <3>1, <3>2 DEF best_bid
  <2>3. best_ask(b) \in Nat
    <3>1. Levels(b, "Sell") \in SUBSET Nat
      BY <1>1 DEF Sides
    <3> QED BY <2>1, <3>1, MinOfNaturals DEF best_ask
  <2> QED BY <1>2, <2>2, <2>3 DEF mid2
<1> QED BY <1>2 DEF mid2

-----------------------------------------------------------------------------
(* What every operation on the desk preserves *)

(* Open orders and slots describe each other, at most one order per side.  *)
Tracked(d) ==
    /\ \A o \in d.open_orders :
          /\ d.resting[o.side] = [id |-> o.id, price |-> o.price, size |-> o.quantity]
          /\ o.filled < o.quantity
          /\ o.id < d.next_order_id
    /\ \A o, p \in d.open_orders : o.side = p.side \/ o.id = p.id => o = p
    /\ \A s \in Sides : d.resting[s] # None => \E o \in d.open_orders : o.side = s

(* The position and the position after any one complete fill are in range. *)
Within(limit, open, position) ==
    /\ position \in (-limit) .. limit
    /\ \A o \in open :
          resulting_position(o.side, remaining_quantity(o), position) \in (-limit) .. limit

Bounded(open, position) == Within(MaxPosition, open, position)

DeskOK(d, position) == d \in Desk /\ Tracked(d) /\ Bounded(d.open_orders, position)

(* The fields of the desk after cancel_side.                               *)
LEMMA CancelFields ==
    ASSUME NEW d \in Desk, NEW s \in Sides, d.resting[s] # None
    PROVE  /\ cancel_side(d, s) \in Desk
           /\ cancel_side(d, s).open_orders = {o \in d.open_orders : o.id # d.resting[s].id}
           /\ cancel_side(d, s).resting = [d.resting EXCEPT ![s] = None]
           /\ cancel_side(d, s).next_order_id = d.next_order_id
           /\ cancel_side(d, s).submitted = d.submitted
           /\ cancel_side(d, s).canceled = d.canceled + 1
<1> DEFINE open == {o \in d.open_orders : o.id # d.resting[s].id}
           slots == [d.resting EXCEPT ![s] = None]
           e == [d EXCEPT !.open_orders = open, !.resting = slots, !.canceled = @ + 1]
<1>1. cancel_side(d, s) = e
  BY DEF cancel_side, cancel, Desk
<1>2. open \in SUBSET Order /\ slots \in [Sides -> RestingQuote \cup {None}]
  BY DEF Desk
<1> HIDE DEF open, slots
<1>3. /\ e.open_orders = open /\ e.resting = slots /\ e.next_order_id = d.next_order_id
      /\ e.submitted = d.submitted /\ e.canceled = d.canceled + 1
  BY DEF Desk
<1>4. e \in Desk
  <2> DEFINE c == d.canceled + 1
  <2>1. c \in Nat /\ e = [d EXCEPT !.open_orders = open, !.resting = slots, !.canceled = c]
    BY DEF Desk
  <2> HIDE DEF c
  <2> QED BY <1>2, <2>1 DEF Desk
<1> QED BY <1>1, <1>3, <1>4 DEF open, slots

(* cancel_side keeps the desk in order, empties the slot and leaves no     *)
(* order on that side and every order on the other one.                    *)
LEMMA CancelSideOK ==
    ASSUME NEW d, NEW s \in Sides, NEW position, DeskOK(d, position)
    PROVE  /\ DeskOK(cancel_side(d, s), position)
           /\ cancel_side(d, s).resting[s] = None
           /\ cancel_side(d, s).open_orders = {o \in d.open_orders : o.side # s}
<1> USE DEF DeskOK
<1>1. CASE d.resting[s] = None
  <2>1. ASSUME NEW o \in d.open_orders, o.side = s PROVE FALSE
    <3>1. None = [id |-> o.id, price |-> o.price, size |-> o.quantity]
      BY <1>1, <2>1 DEF Tracked
    <3>2. o \in Order
      BY DEF Desk
    <3> QED BY <3>1, <3>2, PipelineAssumption DEF Order
  <2> QED BY <1>1, <2>1 DEF cancel_side
<1>2. CASE d.resting[s] # None
  <2> DEFINE e == cancel_side(d, s)
  <2>0. /\ e \in Desk
        /\ e.open_orders = {o \in d.open_orders : o.id # d.resting[s].id}
        /\ e.resting = [d.resting EXCEPT ![s] = None]
        /\ e.next_order_id = d.next_order_id
    BY <1>2, CancelFields
  <2> HIDE DEF e
  <2>1. PICK q \in d.open_orders : q.side = s
    BY <1>2 DEF Tracked
  <2>2. d.resting[s].id = q.id
    <3>1. d.resting[s] = [id |-> q.id, price |-> q.price, size |-> q.quantity]
      BY <2>1 DEF Tracked
    <3> QED BY <3>1
  <2>3. \A o \in d.open_orders : o.id # q.id <=> o.side # s
    BY <2>1 DEF Tracked
  <2>4. e.open_orders = {o \in d.open_orders : o.side # s}
    BY <2>0, <2>2, <2>3
  <2>5. e.resting[s] = None /\ \A t \in Sides : t # s => e.resting[t] = d.resting[t]
    BY <2>0 DEF Desk
  <2>6. \A o \in d.open_orders : o.side \in Sides
    BY DEF Desk, Order
  <2>7. Tracked(e)
    <3>1. \A o \in e.open_orders :
             /\ e.resting[o.side] = [id |-> o.id, price |-> o.price, size |-> o.quantity]
             /\ o.filled < o.quantity /\ o.id < e.next_order_id
      BY <2>0, <2>4, <2>5, <2>6 DEF Tracked
    <3>2. \A o, p \in e.open_orders : o.side = p.side \/ o.id = p.id => o = p
      BY <2>4 DEF Tracked
    <3>3. \A t \in Sides : e.resting[t] # None => \E o \in e.open_orders : o.side = t
      BY <2>4, <2>5 DEF Tracked
    <3> QED BY <3>1, <3>2, <3>3 DEF Tracked
  <2>8. Bounded(e.open_orders, position)
    BY <2>4 DEF Bounded, Within
  <2> QED BY <2>0, <2>4, <2>5, <2>7, <2>8 DEF e
<1> QED BY <1>1, <1>2

(* Canceling both quotes leaves no open order at all.                      *)
LEMMA CancelAllOK ==
    ASSUME NEW d, NEW position, DeskOK(d, position)
    PROVE  /\ DeskOK(cancel_resting_quotes(d), position)
           /\ cancel_resting_quotes(d).open_orders = {}
<1> DEFINE e == cancel_side(d, "Buy")
           g == cancel_side(e, "Sell")
<1>1. DeskOK(e, position) /\ e.open_orders = {o \in d.open_orders : o.side # "Buy"}
  BY CancelSideOK DEF Sides
<1>2. DeskOK(g, position) /\ g.open_orders = {o \in e.open_orders : o.side # "Sell"}
  BY <1>1, CancelSideOK DEF Sides
<1>3. \A o \in d.open_orders : o.side \in {"Buy", "Sell"}
  BY DEF DeskOK, Desk, Order, Sides
<1>4. g.open_orders = {}
  BY <1>1, <1>2, <1>3
<1> QED BY <1>2, <1>4 DEF cancel_resting_quotes

(* Removing a side's quote when the strategy no longer wants it.           *)
LEMMA CancelUnquotedOK ==
    ASSUME NEW d, NEW qd, NEW s \in Sides, NEW position, DeskOK(d, position)
    PROVE  DeskOK(cancel_unquoted(d, qd, s), position)
BY CancelSideOK DEF cancel_unquoted

(* The fields of the desk after an approved submission.                    *)
LEMMA SubmitFields ==
    ASSUME NEW d \in Desk, NEW s \in Sides, NEW price \in Int, NEW size \in Nat,
           NEW reference2, NEW pf, NEW stale, NEW ties,
           check(s, size, reference2, pf.position, pf.total_pnl2,
                 Cardinality(d.open_orders), stale, ties) = "Approved"
    PROVE  LET e == submit(d, s, price, size, reference2, pf, stale, ties)
           IN  /\ e \in Desk
               /\ e.open_orders = {o \in d.open_orders : o.id # d.next_order_id} \cup
                      {[id |-> d.next_order_id, side |-> s, price |-> price,
                        quantity |-> size, filled |-> 0]}
               /\ e.resting = [d.resting EXCEPT ![s] =
                      [id |-> d.next_order_id, price |-> price, size |-> size]]
               /\ e.next_order_id = d.next_order_id + 1
               /\ e.submitted = d.submitted + 1 /\ e.canceled = d.canceled
<1> DEFINE o == [id |-> d.next_order_id, side |-> s, price |-> price,
                 quantity |-> size, filled |-> 0]
           r == [id |-> d.next_order_id, price |-> price, size |-> size]
<1>1. o \in Order /\ r \in RestingQuote
  BY DEF Desk, Order, RestingQuote
<1> HIDE DEF o, r
<1>2. submit(d, s, price, size, reference2, pf, stale, ties)
        = [d EXCEPT !.open_orders = {x \in d.open_orders : x.id # d.next_order_id} \cup {o},
                    !.resting[s] = r,
                    !.next_order_id = @ + 1,
                    !.submitted = @ + 1]
  BY DEF submit, submit_limit, o, r
<1> DEFINE e == submit(d, s, price, size, reference2, pf, stale, ties)
           open == {x \in d.open_orders : x.id # d.next_order_id} \cup {o}
           slots == [d.resting EXCEPT ![s] = r]
<1>3. e = [d EXCEPT !.open_orders = open, !.resting = slots,
                    !.next_order_id = @ + 1, !.submitted = @ + 1]
  BY <1>2 DEF Desk
<1>4. open \in SUBSET Order /\ slots \in [Sides -> RestingQuote \cup {None}]
  BY <1>1 DEF Desk
<1> HIDE DEF e, open, slots
<1>5. /\ e.open_orders = open /\ e.resting = slots
      /\ e.next_order_id = d.next_order_id + 1
      /\ e.submitted = d.submitted + 1 /\ e.canceled = d.canceled
  BY <1>3 DEF Desk
<1>6. e \in Desk
  <2> DEFINE n == d.next_order_id + 1
             c == d.submitted + 1
  <2>1. /\ n \in Nat /\ c \in Nat
        /\ e = [d EXCEPT !.open_orders = open, !.resting = slots,
                         !.next_order_id = n, !.submitted = c]
    BY <1>3 DEF Desk
  <2> HIDE DEF n, c
  <2> QED BY <1>4, <2>1 DEF Desk
<1> QED BY <1>5, <1>6 DEF e, o, r, open, slots

(* What an approval guarantees.                                            *)
LEMMA ApprovedMeans ==
    ASSUME NEW s, NEW size \in Nat, NEW reference2, NEW position, NEW pnl2,
           NEW open_orders, NEW stale, NEW ties,
           check(s, size, reference2, position, pnl2, open_orders, stale, ties) = "Approved"
    PROVE  /\ ~stale
           /\ size > 0 /\ size <= MaxOrderSize
           /\ ~(open_orders >= MaxOpenOrders)
           /\ ~(-pnl2 > 2 * MaxDailyLoss)
           /\ resulting_position(s, size, position) \in (-MaxPosition) .. MaxPosition
BY RiskAssumption DEF check, Above

(* Submitting on a side without a quote keeps the desk in order.           *)
LEMMA SubmitOK ==
    ASSUME NEW d, NEW s \in Sides, NEW price \in Int, NEW size \in Nat,
           NEW reference2, NEW pf, NEW stale, NEW ties,
           DeskOK(d, pf.position), d.resting[s] = None
    PROVE  DeskOK(submit(d, s, price, size, reference2, pf, stale, ties), pf.position)
<1> USE DEF DeskOK
<1> DEFINE e == submit(d, s, price, size, reference2, pf, stale, ties)
           new == [id |-> d.next_order_id, side |-> s, price |-> price,
                   quantity |-> size, filled |-> 0]
           approved == check(s, size, reference2, pf.position, pf.total_pnl2,
                             Cardinality(d.open_orders), stale, ties) = "Approved"
<1>1. CASE ~approved
  BY <1>1 DEF submit
<1>2. CASE approved
  <2>0. /\ e \in Desk
        /\ e.open_orders = {o \in d.open_orders : o.id # d.next_order_id} \cup {new}
        /\ e.resting = [d.resting EXCEPT ![s] =
               [id |-> d.next_order_id, price |-> price, size |-> size]]
        /\ e.next_order_id = d.next_order_id + 1
    BY <1>2, SubmitFields
  <2>1. /\ size > 0
        /\ resulting_position(s, size, pf.position) \in (-MaxPosition) .. MaxPosition
    BY <1>2, ApprovedMeans
  <2>2. \A o \in d.open_orders :
           o \in Order /\ o.side # s /\ o.id < d.next_order_id /\ o.id # d.next_order_id
    <3> SUFFICES ASSUME NEW o \in d.open_orders
                 PROVE  o \in Order /\ o.side # s /\ o.id < d.next_order_id /\ o.id # d.next_order_id
      OBVIOUS
    <3>1. o \in Order /\ o.id \in Nat /\ d.next_order_id \in Nat
      BY DEF Desk, Order
    <3>2. d.resting[o.side] = [id |-> o.id, price |-> o.price, size |-> o.quantity]
          /\ o.id < d.next_order_id
      BY DEF Tracked
    <3>3. d.resting[o.side] # None
      BY <3>1, <3>2, PipelineAssumption DEF Order
    <3> QED BY <3>1, <3>2, <3>3
  <2>3. /\ new.id = d.next_order_id /\ new.side = s /\ new.price = price
        /\ new.quantity = size /\ new.filled = 0
    OBVIOUS
  <2> HIDE DEF e, new, approved
  <2>4. e.open_orders = d.open_orders \cup {new}
    BY <2>0, <2>2
  <2>5. /\ e.resting[s] = [id |-> d.next_order_id, price |-> price, size |-> size]
        /\ \A t \in Sides : t # s => e.resting[t] = d.resting[t]
    BY <2>0 DEF Desk
  <2>6. Tracked(e)
    <3>1. \A o \in e.open_orders :
             /\ e.resting[o.side] = [id |-> o.id, price |-> o.price, size |-> o.quantity]
             /\ o.filled < o.quantity /\ o.id < e.next_order_id
      <4> SUFFICES ASSUME NEW o \in e.open_orders
                   PROVE  /\ e.resting[o.side] = [id |-> o.id, price |-> o.price, size |-> o.quantity]
                          /\ o.filled < o.quantity /\ o.id < e.next_order_id
        OBVIOUS
      <4>1. CASE o = new
        BY <2>0, <2>1, <2>3, <2>5, <4>1 DEF Desk
      <4>2. CASE o \in d.open_orders
        <5>1. o.side \in Sides /\ o.side # s /\ o.id \in Nat /\ d.next_order_id \in Nat
          BY <2>2, <4>2 DEF Order, Desk
        <5>2. e.resting[o.side] = d.resting[o.side] /\ o.id < e.next_order_id
          BY <2>0, <2>2, <2>5, <4>2, <5>1
        <5> QED BY <4>2, <5>2 DEF Tracked
      <4> QED BY <2>4, <4>1, <4>2
    <3>2. \A o, p \in e.open_orders : o.side = p.side \/ o.id = p.id => o = p
      BY <2>2, <2>3, <2>4 DEF Tracked
    <3>3. \A t \in Sides : e.resting[t] # None => \E o \in e.open_orders : o.side = t
      BY <2>3, <2>4, <2>5 DEF Tracked
    <3> QED BY <3>1, <3>2, <3>3 DEF Tracked
  <2>7. Bounded(e.open_orders, pf.position)
    <3>1. remaining_quantity(new) = size
      BY <2>3 DEF remaining_quantity
    <3> QED BY <2>1, <2>3, <2>4, <3>1 DEF Bounded, Within
  <2> QED BY <2>0, <2>6, <2>7 DEF e
<1> QED BY <1>1, <1>2

QuoteDecision == [price : [Sides -> Int], size : [Sides -> Nat]]

(* Replacing or keeping the quote of one side keeps the desk in order.     *)
LEMMA QuoteSideOK ==
    ASSUME NEW d, NEW qd \in QuoteDecision, NEW s \in Sides, NEW threshold,
           NEW reference2, NEW pf, NEW stale, NEW ties, DeskOK(d, pf.position)
    PROVE  DeskOK(quote_side(d, qd, s, threshold, reference2, pf, stale, ties), pf.position)
<1>1. qd.price[s] \in Int /\ qd.size[s] \in Nat
  BY DEF QuoteDecision
<1>2. DeskOK(cancel_side(d, s), pf.position) /\ cancel_side(d, s).resting[s] = None
  BY CancelSideOK
<1>3. DeskOK(submit(cancel_side(d, s), s, qd.price[s], qd.size[s], reference2, pf, stale, ties),
             pf.position)
  BY <1>1, <1>2, SubmitOK
<1> QED BY <1>3 DEF quote_side

(* A whole requote keeps the desk in order, and when the strategy wants    *)
(* neither side it leaves no open order.                                   *)
LEMMA RequoteOK ==
    ASSUME NEW d, NEW qd \in QuoteDecision, NEW threshold,
           NEW reference2, NEW pf, NEW stale, NEW ties, DeskOK(d, pf.position)
    PROVE  /\ DeskOK(requote(d, qd, threshold, reference2, pf, stale, ties), pf.position)
           /\ qd = NoQuotes =>
                requote(d, qd, threshold, reference2, pf, stale, ties).open_orders = {}
<1> DEFINE w1 == cancel_unquoted(d, qd, "Buy")
           w2 == cancel_unquoted(w1, qd, "Sell")
           q1 == quote_side(w2, qd, "Buy", threshold, reference2, pf, stale, ties)
           q2 == quote_side(q1, qd, "Sell", threshold, reference2, pf, stale, ties)
<1>1. "Buy" \in Sides /\ "Sell" \in Sides
  BY DEF Sides
<1>2. DeskOK(w1, pf.position)
  BY <1>1, CancelUnquotedOK
<1>3. DeskOK(w2, pf.position)
  BY <1>1, <1>2, CancelUnquotedOK
<1>4. DeskOK(q1, pf.position)
  BY <1>1, <1>3, QuoteSideOK
<1>5. DeskOK(q2, pf.position)
  BY <1>1, <1>4, QuoteSideOK
<1>6. ASSUME qd = NoQuotes PROVE q2.open_orders = {}
  <2>1. qd.size["Buy"] = 0 /\ qd.size["Sell"] = 0
    BY <1>6 DEF NoQuotes, Sides
  <2>2. w1 = cancel_side(d, "Buy") /\ w2 = cancel_side(w1, "Sell")
    BY <2>1 DEF cancel_unquoted
  <2>3. q1 = w2 /\ q2 = q1
    BY <2>1 DEF quote_side
  <2> QED BY <2>2, <2>3, CancelAllOK DEF cancel_resting_quotes
<1> QED BY <1>5, <1>6 DEF requote

-----------------------------------------------------------------------------
(* The strategy *)

(* Truncating a nonnegative quotient gives a natural number.               *)
LEMMA TruncatedType ==
    ASSUME NEW num \in Nat, NEW den \in Nat, den > 0
    PROVE  Truncated(num, den) \subseteq Nat
<1>1. num \div den \in Nat
  OBVIOUS
<1>2. num > 0 /\ num % den = 0 => num \div den > 0
  <2> DEFINE q == num \div den
             r == num % den
  <2>1. num = den * q + r /\ q \in Nat
    OBVIOUS
  <2> HIDE DEF q, r
  <2>2. num > 0 /\ r = 0 => q > 0
    BY <2>1
  <2> QED BY <2>2 DEF q, r
<1> QED BY <1>1, <1>2 DEF Truncated

(* Tapered quote sizes are natural numbers.                                *)
LEMMA TaperType ==
    ASSUME NEW i \in Int, i <= MaxInventory
    PROVE  TaperedSizes(i) \subseteq Nat
<1>1. CASE i > 0
  <2>1. MaxInventory \in Nat /\ MaxInventory > 0 /\ MaxInventory - i \in Nat /\ QuoteSize \in Nat
    BY <1>1, StrategyAssumption
  <2>2. QuoteSize * (MaxInventory - i) \in Nat
    BY <2>1
  <2> QED BY <1>1, <2>1, <2>2, TruncatedType DEF TaperedSizes
<1>2. CASE ~(i > 0)
  BY <1>2, StrategyAssumption DEF TaperedSizes
<1> QED BY <1>1, <1>2

(* Every decision has an integer price and a natural size on each side.    *)
LEMMA DecideType ==
    ASSUME NEW b \in Book, NEW returns, NEW inventory \in Int, NEW now
    PROVE  decide(b, returns, inventory, now) \subseteq QuoteDecision
<1> DEFINE i == clamped_inventory(inventory)
<1>1. NoQuotes \in QuoteDecision
  BY DEF NoQuotes, QuoteDecision
<1>2. i \in Int /\ i <= MaxInventory /\ -i \in Int /\ -i <= MaxInventory
  BY StrategyAssumption DEF clamped_inventory
<1> HIDE DEF i
<1>3. ASSUME NEW m2 \in Nat, NEW hs \in Nat
      PROVE  QuotesAround(m2, hs, i) \subseteq QuoteDecision
  <2> SUFFICES ASSUME NEW qd \in QuotesAround(m2, hs, i), qd # NoQuotes
               PROVE  qd \in QuoteDecision
    BY <1>1
  <2> DEFINE bid == m2 * (10000 - hs - SkewBpsPerUnit * i)
             ask == m2 * (10000 + hs - SkewBpsPerUnit * i)
  <2>1. PICK pb \in from_double(bid, 20000), pa \in from_double(ask, 20000),
             sb \in TaperedSizes(i), sa \in TaperedSizes(-i) :
             qd = [price |-> [s \in Sides |-> IF s = "Buy" THEN pb ELSE pa],
                   size  |-> [s \in Sides |-> IF s = "Buy" THEN sb ELSE sa]]
    <3>1. ~(bid <= 0 \/ ask <= bid)
      BY DEF QuotesAround
    <3>2. qd \in RoundedQuotes(bid, ask, i)
      BY <3>1 DEF QuotesAround
    <3> HIDE DEF bid, ask
    <3> QED BY <3>2 DEF RoundedQuotes
  <2>2. pb \in Int /\ pa \in Int
    BY DEF from_double
  <2>3. sb \in Nat /\ sa \in Nat
    BY <1>2, TaperType
  <2> QED BY <2>1, <2>2, <2>3 DEF QuoteDecision
<1>4. HalfSpreads(returns) \subseteq Nat
  BY StrategyAssumption DEF HalfSpreads
<1> QED BY <1>1, <1>3, <1>4, Mid2Type DEF decide, i

(* Without a two-sided market the strategy quotes neither side.            *)
LEMMA DecideOneSided ==
    ASSUME NEW b, NEW returns, NEW inventory, NEW now, ~TwoSided(b)
    PROVE  decide(b, returns, inventory, now) = {NoQuotes}
BY DEF decide

-----------------------------------------------------------------------------
(* Fills *)

(* Min of three integers.                                                  *)
LEMMA MinOfThree ==
    \A a, b, c \in Int :
        /\ Min({a, b, c}) \in {a, b, c}
        /\ Min({a, b, c}) <= a /\ Min({a, b, c}) <= b /\ Min({a, b, c}) <= c
<1> TAKE a, b, c \in Int
<1>1. \E x \in {a, b, c} : \A y \in {a, b, c} : x <= y
  <2>1. CASE a <= b /\ a <= c
    BY <2>1
  <2>2. CASE b <= a /\ b <= c
    BY <2>2
  <2>3. CASE c <= a /\ c <= b
    BY <2>3
  <2> QED BY <2>1, <2>2, <2>3
<1> QED BY <1>1 DEF Min

(* The fields of a market event.                                           *)
LEMMA EventFields ==
    ASSUME NEW ev \in MarketEvent
    PROVE  /\ ev.side \in Sides /\ ev.quantity \in Nat
           /\ ev.sequence \in Sequences /\ ev.timestamp \in Timestamps
           /\ ev.type \in {"Quote", "BookDelete"} => ev.price \in Prices
<1>1. ASSUME NEW type, NEW sides, NEW prices, NEW quantities, NEW own,
             ev \in Events(type, sides, prices, quantities, own)
      PROVE  /\ ev.type = type /\ ev.side \in sides /\ ev.price \in prices
             /\ ev.quantity \in quantities
             /\ ev.sequence \in Sequences /\ ev.timestamp \in Timestamps
  BY <1>1 DEF Events
<1> USE FeedAssumption DEF Sides
<1>2. CASE ev \in Events("Trade", {"Buy"}, Prices, TradeQuantities, BOOLEAN)
  BY <1>1, <1>2
<1>3. CASE ev \in Events("Quote", Sides, Prices, QuoteQuantities, {TRUE})
  BY <1>1, <1>3
<1>4. CASE ev \in Events("BookDelete", Sides, Prices, {0}, {TRUE})
  BY <1>1, <1>4
<1>5. CASE ev \in Events("Snapshot", {"Buy"}, {0}, {0}, {TRUE})
  BY <1>1, <1>5
<1>6. CASE ev \in Events("Heartbeat", {"Buy"}, {0}, {0}, {TRUE})
  BY <1>1, <1>6
<1> QED BY <1>2, <1>3, <1>4, <1>5, <1>6 DEF MarketEvent

(* A fill takes at least nothing and at most what remains, whatever the    *)
(* random draws are, and never more than the trade's quantity.             *)
LEMMA FillRange ==
    ASSUME NEW o \in Order, o.filled < o.quantity, NEW ev \in MarketEvent,
           NEW q \in FillQuantities(o, ev)
    PROVE  q \in 0 .. remaining_quantity(o) /\ q <= ev.quantity
<1>1. ev.quantity \in Nat
  BY EventFields
<1>2. remaining_quantity(o) \in Nat /\ remaining_quantity(o) > 0
  BY DEF Order, remaining_quantity
<1>3. CASE ev.type = "Trade" /\ ev.own /\ crosses(o, ev)
  <2> DEFINE r == remaining_quantity(o)
  <2>1. PICK w \in DrawnQuantities(r) : q = Min({w, ev.quantity, r})
    BY <1>3 DEF FillQuantities
  <2> HIDE DEF r
  <2>2. w \in Int /\ w >= 1
    <3>0. r \in Nat /\ r > 0
      BY <1>2 DEF r
    <3>1. CASE w = r
      BY <3>0, <3>1
    <3>2. CASE w # r
      <4> DEFINE lo == (r * MinPartialPct) \div 100
                 hi == (r * MaxPartialPct) \div 100
      <4>1. lo \in Int /\ hi \in Int
        BY <3>0, FillAssumption
      <4>2. w \in Max({1, lo}) .. Max({1, hi})
        BY <3>2 DEF DrawnQuantities
      <4> HIDE DEF lo, hi
      <4>3. Max({1, lo}) \in Int /\ Max({1, lo}) >= 1 /\ Max({1, hi}) \in Int
        <5>1. 1 \in Int
          OBVIOUS
        <5>2. /\ Max({1, lo}) \in {1, lo} /\ Max({1, lo}) >= 1
              /\ Max({1, hi}) \in {1, hi}
          <6>1. Max({1, lo}) = IF 1 >= lo THEN 1 ELSE lo
            BY <4>1, <5>1, MaxOfTwo
          <6>2. Max({1, hi}) = IF 1 >= hi THEN 1 ELSE hi
            BY <4>1, <5>1, MaxOfTwo
          <6> QED BY <4>1, <6>1, <6>2
        <5> QED BY <4>1, <5>2
      <4> QED BY <4>2, <4>3
    <3> QED BY <3>1, <3>2
  <2>3. r \in Int /\ r > 0 /\ ev.quantity \in Int /\ ev.quantity >= 0
    BY <1>1, <1>2 DEF r
  <2>4. q \in {w, ev.quantity, r} /\ q <= ev.quantity /\ q <= r
    BY <2>1, <2>2, <2>3, MinOfThree
  <2> QED BY <2>2, <2>3, <2>4 DEF r
<1>4. CASE ~(ev.type = "Trade" /\ ev.own /\ crosses(o, ev))
  <2>1. q = 0
    BY <1>4 DEF FillQuantities
  <2> QED BY <1>1, <1>2, <2>1
<1> QED BY <1>3, <1>4

(* The orders of a side, and any sum over them, reduce to one order or     *)
(* none.                                                                   *)
LEMMA SumOverSide ==
    ASSUME NEW d, d \in Desk, Tracked(d), NEW s \in Sides, NEW g,
           \A o \in d.open_orders : g[o] \in Int
    PROVE  \/ /\ \A o \in d.open_orders : o.side # s
              /\ SumFunctionOnSet(g, {o \in d.open_orders : o.side = s}) = 0
           \/ \E x \in d.open_orders :
                 /\ x.side = s
                 /\ \A o \in d.open_orders : o.side = s => o = x
                 /\ SumFunctionOnSet(g, {o \in d.open_orders : o.side = s}) = g[x]
<1> DEFINE O == {o \in d.open_orders : o.side = s}
<1>1. CASE O = {}
  BY <1>1, SumEmpty
<1>2. CASE O # {}
  <2>1. PICK x \in O : TRUE
    BY <1>2
  <2>2. O = {x} /\ x \in d.open_orders /\ x.side = s
    BY <2>1 DEF Tracked
  <2>3. SumFunctionOnSet(g, {x}) = g[x]
    BY <2>2, SumSingleton
  <2> QED BY <2>2, <2>3
<1> QED BY <1>1, <1>2

(* At most one order rests per side, so the open orders are finite.        *)
LEMMA OpenOrdersFinite ==
    ASSUME NEW d, d \in Desk, Tracked(d)
    PROVE  IsFiniteSet(d.open_orders)
<1> DEFINE O(s) == {o \in d.open_orders : o.side = s}
<1>1. ASSUME NEW s \in Sides PROVE IsFiniteSet(O(s))
  <2>1. CASE O(s) = {}
    BY <2>1, FS_EmptySet
  <2>2. CASE O(s) # {}
    <3>1. PICK x \in O(s) : TRUE
      BY <2>2
    <3>2. O(s) = {x}
      BY <3>1 DEF Tracked
    <3> QED BY <3>2, FS_Singleton
  <2> QED BY <2>1, <2>2
<1>2. d.open_orders = O("Buy") \cup O("Sell")
  BY DEF Desk, Order, Sides
<1>3. IsFiniteSet(O("Buy") \cup O("Sell"))
  <2>1. IsFiniteSet(O("Buy")) /\ IsFiniteSet(O("Sell"))
    BY <1>1 DEF Sides
  <2> HIDE DEF O
  <2> QED BY <2>1, FS_Union
<1> QED BY <1>2, <1>3

(* What the outcomes of one event can be.                                  *)
LEMMA FillsRange ==
    ASSUME NEW d, d \in Desk, Tracked(d), NEW ev \in MarketEvent,
           NEW f \in Fills(d.open_orders, ev)
    PROVE  \A o \in d.open_orders : f[o] \in 0 .. remaining_quantity(o)
<1> TAKE o \in d.open_orders
<1>1. o \in Order /\ o.filled < o.quantity
  BY DEF Desk, Tracked
<1>2. f[o] \in FillQuantities(o, ev)
  BY DEF Fills
<1> QED BY <1>1, <1>2, FillRange

(* The fields of the desk after the reports of an event.                   *)
LEMMA ReportFields ==
    ASSUME NEW d, d \in Desk, Tracked(d), NEW f,
           \A o \in d.open_orders : f[o] \in 0 .. remaining_quantity(o)
    PROVE  LET e == apply_reports(d, f)
               completed == {o.id : o \in FilledCompletely(d.open_orders, f)}
           IN  /\ e \in Desk
               /\ e.open_orders = after_fills(d.open_orders, f)
               /\ \A s \in Sides :
                     e.resting[s] = IF d.resting[s] # None /\ d.resting[s].id \in completed
                                    THEN None ELSE d.resting[s]
               /\ e.next_order_id = d.next_order_id
               /\ e.submitted = d.submitted /\ e.canceled = d.canceled
<1> DEFINE completed == {o.id : o \in FilledCompletely(d.open_orders, f)}
           slots == [s \in Sides |->
                       IF d.resting[s] # None /\ d.resting[s].id \in completed
                       THEN None ELSE d.resting[s]]
           open == after_fills(d.open_orders, f)
           e == [d EXCEPT !.open_orders = open, !.resting = slots]
<1>1. apply_reports(d, f) = e
  BY DEF apply_reports
<1>2. slots \in [Sides -> RestingQuote \cup {None}]
  BY DEF Desk
<1>3. open \in SUBSET Order
  <2> SUFFICES ASSUME NEW o \in d.open_orders
               PROVE  [o EXCEPT !.filled = @ + f[o]] \in Order
    BY DEF after_fills
  <2> DEFINE n == o.filled + f[o]
  <2>1. o \in Order /\ n \in Nat
    BY DEF Desk, Order, remaining_quantity
  <2> HIDE DEF n
  <2>2. [o EXCEPT !.filled = n] \in Order
    BY <2>1 DEF Order
  <2> QED BY <2>2 DEF n
<1>4. /\ \A s \in Sides : slots[s] = IF d.resting[s] # None /\ d.resting[s].id \in completed
                                     THEN None ELSE d.resting[s]
  OBVIOUS
<1> HIDE DEF slots, open
<1>5. e \in Desk /\ e.open_orders = open /\ e.resting = slots
      /\ e.next_order_id = d.next_order_id
      /\ e.submitted = d.submitted /\ e.canceled = d.canceled
  BY <1>2, <1>3 DEF Desk
<1> QED BY <1>1, <1>4, <1>5 DEF open

(* The reports of an event keep slots and orders in step.                  *)
LEMMA ReportsTracked ==
    ASSUME NEW d, d \in Desk, Tracked(d), NEW f,
           \A o \in d.open_orders : f[o] \in 0 .. remaining_quantity(o)
    PROVE  Tracked(apply_reports(d, f))
<1> DEFINE e == apply_reports(d, f)
           After(o) == [o EXCEPT !.filled = @ + f[o]]
           done == FilledCompletely(d.open_orders, f)
           completed == {o.id : o \in done}
<1>1. /\ e.open_orders = {After(o) : o \in d.open_orders \ done}
      /\ \A s \in Sides :
            e.resting[s] = IF d.resting[s] # None /\ d.resting[s].id \in completed
                           THEN None ELSE d.resting[s]
      /\ e.next_order_id = d.next_order_id
  BY ReportFields DEF after_fills
<1>2. ASSUME NEW o \in d.open_orders \ done
      PROVE  /\ After(o).id = o.id /\ After(o).side = o.side /\ After(o).price = o.price
             /\ After(o).quantity = o.quantity
             /\ After(o).filled < o.quantity
             /\ o.side \in Sides /\ o.id \notin completed
             /\ d.resting[o.side] = [id |-> o.id, price |-> o.price, size |-> o.quantity]
             /\ o.id < d.next_order_id
             /\ e.resting[o.side] = d.resting[o.side]
  <2>1. /\ o \in Order /\ o.filled < o.quantity /\ f[o] \in 0 .. remaining_quantity(o)
        /\ ~(f[o] > 0 /\ f[o] = remaining_quantity(o))
    BY <1>2 DEF Desk, Tracked, FilledCompletely
  <2>2. /\ After(o).id = o.id /\ After(o).side = o.side /\ After(o).price = o.price
        /\ After(o).quantity = o.quantity /\ After(o).filled = o.filled + f[o]
    BY <2>1 DEF Order
  <2>3. o.filled + f[o] < o.quantity
    BY <2>1 DEF Order, remaining_quantity
  <2>4. o.id \notin completed
    <3> SUFFICES ASSUME NEW q \in done, q.id = o.id PROVE FALSE
      OBVIOUS
    <3>1. q \in d.open_orders
      BY DEF FilledCompletely
    <3> QED BY <1>2, <3>1 DEF Tracked
  <2>5. /\ d.resting[o.side] = [id |-> o.id, price |-> o.price, size |-> o.quantity]
        /\ o.id < d.next_order_id
    BY <1>2 DEF Tracked
  <2>6. o.side \in Sides /\ d.resting[o.side].id = o.id
    BY <2>1, <2>5 DEF Order
  <2>7. e.resting[o.side] = d.resting[o.side]
    <3> HIDE DEF e, completed
    <3> QED BY <1>1, <2>4, <2>6
  <2> QED BY <2>2, <2>3, <2>4, <2>5, <2>6, <2>7
<1> HIDE DEF e, After, completed, done
<1>3. \A p \in e.open_orders :
         /\ e.resting[p.side] = [id |-> p.id, price |-> p.price, size |-> p.quantity]
         /\ p.filled < p.quantity /\ p.id < e.next_order_id
  <2> TAKE p \in e.open_orders
  <2>1. PICK o \in d.open_orders \ done : p = After(o)
    BY <1>1
  <2> QED BY <1>1, <1>2, <2>1
<1>4. \A p, q \in e.open_orders : p.side = q.side \/ p.id = q.id => p = q
  <2> TAKE p, q \in e.open_orders
  <2>1. PICK o1 \in d.open_orders \ done, o2 \in d.open_orders \ done :
           p = After(o1) /\ q = After(o2)
    BY <1>1
  <2>2. o1.side = o2.side \/ o1.id = o2.id => o1 = o2
    BY DEF Tracked
  <2> QED BY <1>2, <2>1, <2>2
<1>5. \A s \in Sides : e.resting[s] # None => \E p \in e.open_orders : p.side = s
  <2> SUFFICES ASSUME NEW s \in Sides, e.resting[s] # None
               PROVE  \E p \in e.open_orders : p.side = s
    OBVIOUS
  <2>1. d.resting[s] # None /\ d.resting[s].id \notin completed
    BY <1>1
  <2>2. PICK o \in d.open_orders : o.side = s
    BY <2>1 DEF Tracked
  <2>3. d.resting[s].id = o.id
    <3>1. d.resting[s] = [id |-> o.id, price |-> o.price, size |-> o.quantity]
      BY <2>2 DEF Tracked
    <3> QED BY <3>1
  <2>4. o \notin done
    BY <2>1, <2>3 DEF completed
  <2>5. After(o) \in e.open_orders /\ After(o).side = s
    BY <1>1, <1>2, <2>2, <2>4
  <2> QED BY <2>5
<1> QED BY <1>3, <1>4, <1>5 DEF Tracked, e

(* The reports of an event keep the position in range, and in range for    *)
(* every fill still to come.                                               *)
LEMMA ReportsWithin ==
    ASSUME NEW limit \in Nat, NEW d, d \in Desk, Tracked(d), NEW position \in Int,
           Within(limit, d.open_orders, position), NEW f,
           \A o \in d.open_orders : f[o] \in 0 .. remaining_quantity(o)
    PROVE  Within(limit, after_fills(d.open_orders, f),
                  position + Filled(d.open_orders, f, "Buy")
                           - Filled(d.open_orders, f, "Sell"))
<1> DEFINE fb == Filled(d.open_orders, f, "Buy")
           fs == Filled(d.open_orders, f, "Sell")
           R(o) == remaining_quantity(o)
<1>0. \A o \in d.open_orders : /\ f[o] \in Int /\ f[o] >= 0 /\ f[o] <= R(o) /\ R(o) \in Int
                               /\ o.side \in {"Buy", "Sell"}
  BY DEF Desk, Order, Sides, remaining_quantity
<1>1. \/ fb = 0 /\ \A o \in d.open_orders : o.side # "Buy"
      \/ \E x \in d.open_orders : /\ x.side = "Buy" /\ fb = f[x]
                                  /\ \A o \in d.open_orders : o.side = "Buy" => o = x
  BY <1>0, SumOverSide DEF Filled, Sides
<1>2. \/ fs = 0 /\ \A o \in d.open_orders : o.side # "Sell"
      \/ \E x \in d.open_orders : /\ x.side = "Sell" /\ fs = f[x]
                                  /\ \A o \in d.open_orders : o.side = "Sell" => o = x
  BY <1>0, SumOverSide DEF Filled, Sides
<1> HIDE DEF fb, fs
<1>3. /\ fb \in Int /\ fb >= 0 /\ position + fb <= limit
      /\ \A o \in d.open_orders : o.side = "Buy" =>
            fb = f[o] /\ position + R(o) <= limit
  BY <1>0, <1>1 DEF Within, resulting_position
<1>4. /\ fs \in Int /\ fs >= 0 /\ position - fs >= -limit
      /\ \A o \in d.open_orders : o.side = "Sell" =>
            fs = f[o] /\ position - R(o) >= -limit
  BY <1>0, <1>2 DEF Within, resulting_position
<1>5. position + fb - fs \in (-limit) .. limit
  BY <1>3, <1>4
<1>6. ASSUME NEW o \in d.open_orders
      PROVE  LET p == [o EXCEPT !.filled = @ + f[o]]
             IN  resulting_position(p.side, remaining_quantity(p), position + fb - fs)
                    \in (-limit) .. limit
  <2> DEFINE p == [o EXCEPT !.filled = @ + f[o]]
  <2>1. p.side = o.side /\ p.quantity = o.quantity /\ p.filled = o.filled + f[o]
    BY DEF Desk, Order
  <2>2. o.quantity \in Int /\ o.filled \in Int /\ R(o) = o.quantity - o.filled
    BY DEF Desk, Order, remaining_quantity
  <2> HIDE DEF p
  <2>3. remaining_quantity(p) = R(o) - f[o]
    BY <1>0, <2>1, <2>2 DEF remaining_quantity
  <2> HIDE DEF R
  <2>4. CASE o.side = "Buy"
    BY <1>0, <1>3, <1>4, <2>1, <2>3, <2>4 DEF resulting_position, p
  <2>5. CASE o.side = "Sell"
    BY <1>0, <1>3, <1>4, <2>1, <2>3, <2>5 DEF resulting_position, p
  <2> QED BY <1>0, <2>4, <2>5
<1> QED BY <1>5, <1>6 DEF Within, after_fills, fb, fs

(* The orders an event fills, completely or in part.                       *)
Hit(open, f) == {o \in open : f[o] > 0}

(* The account after the fills of an event and the mark that follows.      *)
LEMMA AccountAfter ==
    ASSUME NEW d, d \in Desk, Tracked(d), NEW f,
           \A o \in d.open_orders : f[o] \in 0 .. remaining_quantity(o),
           NEW pf \in Account, NEW b \in Book
    PROVE  LET after == mark_to_market(on_fills(pf, d.open_orders, f), b)
           IN  /\ after \in Account
               /\ after.position = pf.position + Filled(d.open_orders, f, "Buy")
                                               - Filled(d.open_orders, f, "Sell")
               /\ after.fills = pf.fills + Cardinality(Hit(d.open_orders, f))
               /\ after.partial_fills = pf.partial_fills
                                        + Cardinality(FilledPartially(d.open_orders, f))
               /\ TwoSided(b) =>
                     after.total_pnl2 = 2 * after.cash + after.position * mid2(b)
<1> DEFINE open == d.open_orders
           n == pf.position + Filled(open, f, "Buy") - Filled(open, f, "Sell")
           c == pf.cash + Paid(open, f, "Sell") - Paid(open, f, "Buy")
           k == pf.fills + Cardinality(Hit(open, f))
           l == pf.partial_fills + Cardinality(FilledPartially(open, f))
           e == on_fills(pf, open, f)
<1>1. \A o \in open : f[o] \in Int /\ o.price \in Int
  BY DEF Desk, Order, remaining_quantity
<1>2. ASSUME NEW s \in Sides PROVE Filled(open, f, s) \in Int
  BY <1>1, SumOverSide DEF Filled
<1>3. ASSUME NEW s \in Sides PROVE Paid(open, f, s) \in Int
  <2> DEFINE g == [o \in open |-> o.price * f[o]]
  <2>1. \A o \in open : g[o] \in Int
    BY <1>1
  <2> HIDE DEF g
  <2>2. SumFunctionOnSet(g, {o \in open : o.side = s}) \in Int
    BY <2>1, SumOverSide
  <2> QED BY <2>2 DEF Paid, g
<1>4. IsFiniteSet(open)
  BY OpenOrdersFinite
<1>5. /\ Cardinality(Hit(open, f)) \in Nat
      /\ Cardinality(FilledPartially(open, f)) \in Nat
  <2>1. Hit(open, f) \subseteq open /\ FilledPartially(open, f) \subseteq open
    BY DEF Hit, FilledPartially
  <2>2. IsFiniteSet(Hit(open, f)) /\ IsFiniteSet(FilledPartially(open, f))
    BY <1>4, <2>1, FS_Subset
  <2> QED BY <2>2, FS_CardinalityType
<1>6. n \in Int /\ c \in Int
  BY <1>2, <1>3 DEF Sides, Account
<1>7. k \in Nat /\ l \in Nat
  BY <1>5 DEF Account
<1>8. e = [pf EXCEPT !.position = n, !.cash = c, !.fills = k, !.partial_fills = l]
  BY DEF on_fills, Account, Hit
<1> HIDE DEF n, c, k, l, e
<1>9. e \in Account /\ e.position = n /\ e.fills = k /\ e.partial_fills = l
  BY <1>6, <1>7, <1>8 DEF Account
<1>10. LET after == mark_to_market(e, b)
       IN  /\ after \in Account
           /\ after.position = n /\ after.fills = k /\ after.partial_fills = l
           /\ TwoSided(b) => after.total_pnl2 = 2 * after.cash + after.position * mid2(b)
  <2> DEFINE v == 2 * e.cash + e.position * mid2(b)
  <2>1. v \in Int
    BY <1>9, Mid2Type DEF Account
  <2>2. mark_to_market(e, b) = IF TwoSided(b) THEN [e EXCEPT !.total_pnl2 = v] ELSE e
    BY DEF mark_to_market
  <2> DEFINE after == [e EXCEPT !.total_pnl2 = v]
  <2>3. after.cash = e.cash /\ after.position = e.position /\ after.total_pnl2 = v
    BY <1>9 DEF Account
  <2>4. after.total_pnl2 = 2 * after.cash + after.position * mid2(b)
    BY <2>3
  <2> HIDE DEF v
  <2>5. /\ after \in Account
        /\ after.position = n /\ after.fills = k /\ after.partial_fills = l
    BY <1>9, <2>1 DEF Account
  <2> QED BY <1>9, <2>2, <2>4, <2>5
<1> QED BY <1>10 DEF e, n, k, l

-----------------------------------------------------------------------------
(* The book *)

(* Applying an event keeps a book a book; a trade or a heartbeat changes   *)
(* no level.                                                               *)
LEMMA ApplyOK ==
    ASSUME NEW b \in Book, NEW ev,
           ev.side \in Sides, ev.quantity \in Nat, ev.timestamp \in Int
    PROVE  /\ apply(b, ev) \in Book
           /\ ev.type \notin {"Quote", "BookDelete", "Snapshot"} =>
                apply(b, ev).level = b.level
<1> DEFINE stamped == [b EXCEPT !.last_update = ev.timestamp]
<1>1. stamped \in Book /\ stamped.level = b.level
  BY DEF Book
<1> HIDE DEF stamped
<1>2. ASSUME NEW q \in Nat
      PROVE  [stamped EXCEPT !.level[ev.side][ev.price] = q] \in Book
  <2> DEFINE row == [stamped.level[ev.side] EXCEPT ![ev.price] = q]
             levels == [stamped.level EXCEPT ![ev.side] = row]
  <2>1. row \in [Prices -> Nat]
    BY <1>1 DEF Book
  <2> HIDE DEF row
  <2>2. levels \in [Sides -> [Prices -> Nat]]
    BY <1>1, <2>1 DEF Book
  <2>3. [stamped EXCEPT !.level[ev.side][ev.price] = q] = [stamped EXCEPT !.level = levels]
    BY <1>1 DEF Book, row
  <2> HIDE DEF levels
  <2> QED BY <1>1, <2>2, <2>3 DEF Book
<1>3. CASE ev.type = "Quote"
  <2>1. apply(b, ev) = [stamped EXCEPT !.level[ev.side][ev.price] = ev.quantity]
    BY <1>3 DEF apply, upsert, stamped
  <2> QED BY <1>2, <1>3, <2>1
<1>4. CASE ev.type = "BookDelete"
  <2>1. apply(b, ev) = [stamped EXCEPT !.level[ev.side][ev.price] = 0]
    BY <1>4 DEF apply, erase, stamped
  <2> QED BY <1>2, <1>4, <2>1
<1>5. CASE ev.type = "Snapshot"
  <2>1. apply(b, ev) = [stamped EXCEPT !.level = NoLevels]
    BY <1>5 DEF apply, clear, stamped
  <2>2. NoLevels \in [Sides -> [Prices -> Nat]]
    BY DEF NoLevels
  <2> QED BY <1>1, <1>5, <2>1, <2>2 DEF Book
<1>6. CASE ev.type \notin {"Quote", "BookDelete", "Snapshot"}
  <2>1. apply(b, ev) = stamped
    BY <1>6 DEF apply, stamped
  <2> QED BY <1>1, <2>1
<1> QED BY <1>3, <1>4, <1>5, <1>6

(* A cleared book is a book, and without levels it is not two-sided.       *)
LEMMA ClearOK ==
    ASSUME NEW b \in Book
    PROVE  clear(b) \in Book /\ ~TwoSided(clear(b))
<1>1. NoLevels \in [Sides -> [Prices -> Nat]]
  BY DEF NoLevels
<1>2. clear(b) \in Book /\ clear(b).level = NoLevels
  BY <1>1 DEF clear, Book
<1>3. Levels(clear(b), "Buy") = {}
  BY <1>2 DEF Levels, NoLevels, Sides
<1> QED BY <1>2, <1>3 DEF TwoSided, Sides

(* Whether a book has two sides depends on its levels only.                *)
LEMMA TwoSidedByLevels ==
    ASSUME NEW b, NEW c, b.level = c.level
    PROVE  TwoSided(b) <=> TwoSided(c)
BY DEF TwoSided, Levels

-----------------------------------------------------------------------------
(* The inductive invariant *)

IInv ==
    /\ TypeOK
    /\ DeskOK(desk, portfolio.position)
    /\ QuietWhenUntrusted

(* The invariant holds initially.                                          *)
LEMMA InitIInv == Init => IInv
<1> SUFFICES ASSUME Init PROVE IInv
  OBVIOUS
<1>1. NoLevels \in [Sides -> [Prices -> Nat]]
  BY DEF NoLevels
<1>2. book \in Book
  BY <1>1 DEF Init, EmptyBook, Book
<1>3. desk \in Desk /\ desk.open_orders = {} /\ \A s \in Sides : desk.resting[s] = None
  <2>1. [s \in Sides |-> None] \in [Sides -> RestingQuote \cup {None}]
    OBVIOUS
  <2> QED BY <2>1 DEF Init, Desk
<1>4. DeskOK(desk, portfolio.position)
  <2>1. portfolio.position = 0
    BY DEF Init
  <2> QED BY <1>3, <2>1, RiskAssumption DEF DeskOK, Tracked, Bounded, Within
<1>5. TypeOK
  BY <1>2, <1>3, PipelineAssumption DEF TypeOK, Init, Account
<1> QED BY <1>3, <1>4, <1>5 DEF IInv, QuietWhenUntrusted

(* An event without a requote leaves a desk without orders without orders. *)
LEMMA NoOrdersNoFills ==
    ASSUME NEW d, d \in Desk, Tracked(d), d.open_orders = {}, NEW f
    PROVE  apply_reports(d, f).open_orders = {}
<1>1. after_fills(d.open_orders, f) = {}
  BY DEF after_fills
<1>2. \A o \in d.open_orders : f[o] \in 0 .. remaining_quantity(o)
  OBVIOUS
<1> QED BY <1>1, <1>2, ReportFields

(* process() keeps the invariant: the resync, the fills, and each of the   *)
(* three ways in which it ends.                                            *)
LEMMA AcceptIInv ==
    ASSUME IInv, NEW ev \in MarketEvent, Accept(ev)
    PROVE  IInv'
<1> DEFINE resync == Gap(ev) \/ StaleSince(ev.timestamp)
           held == IF resync THEN cancel_resting_quotes(desk) ELSE desk
           start == IF resync THEN clear(book) ELSE book
           b == apply(start, ev)
           m == on_book_update(IF resync THEN reset_price_history ELSE micro, b)
<1>1. /\ feed' = [last_sequence |-> ev.sequence, last_event_ts |-> ev.timestamp,
                  market_data_stale |-> FALSE]
      /\ book' = b /\ micro' = m
  BY DEF Accept
<1>2. PICK f \in Fills(held.open_orders, ev) :
         LET d  == apply_reports(held, f)
             pf == mark_to_market(on_fills(portfolio, held.open_orders, f), b)
         IN
         /\ portfolio' = pf
         /\ \/ /\ crossed(b)
               /\ desk' = cancel_resting_quotes(d)
            \/ /\ ~crossed(b)
               /\ ev.type \notin {"Quote", "BookDelete", "Snapshot"}
               /\ desk' = d
            \/ /\ ~crossed(b)
               /\ ev.type \in {"Quote", "BookDelete", "Snapshot"}
               /\ \E qd \in decide(b, m.returns, pf.position, ev.timestamp),
                     threshold \in Thresholds(mid2(b)),
                     ties \in Ties(mid2(b), pf.total_pnl2) :
                     desk' = requote(d, qd, threshold, mid2(b), pf, FALSE, ties)
  BY DEF Accept
<1> DEFINE d == apply_reports(held, f)
           pf == mark_to_market(on_fills(portfolio, held.open_orders, f), b)
<1>3. /\ book \in Book /\ desk \in Desk /\ portfolio \in Account
      /\ micro \in [has_mid : BOOLEAN, returns : 0..VolatilityWindow]
      /\ DeskOK(desk, portfolio.position) /\ portfolio.position \in Int
  BY DEF IInv, TypeOK, Account
<1>4. start \in Book /\ (resync => ~TwoSided(start))
  BY <1>3, ClearOK
<1>5. b \in Book /\ (ev.type \notin {"Quote", "BookDelete", "Snapshot"} => b.level = start.level)
  BY <1>4, EventFields, FeedAssumption, ApplyOK
<1>6. DeskOK(held, portfolio.position) /\ (resync => held.open_orders = {})
  BY <1>3, CancelAllOK
<1>7. \A o \in held.open_orders : f[o] \in 0 .. remaining_quantity(o)
  BY <1>6, FillsRange DEF DeskOK
<1>8. /\ pf \in Account
      /\ pf.position = portfolio.position + Filled(held.open_orders, f, "Buy")
                                          - Filled(held.open_orders, f, "Sell")
  BY <1>3, <1>5, <1>6, <1>7, AccountAfter DEF DeskOK
<1>9. DeskOK(d, pf.position)
  <2>1. d \in Desk /\ d.open_orders = after_fills(held.open_orders, f)
    BY <1>6, <1>7, ReportFields DEF DeskOK
  <2>2. Tracked(d)
    BY <1>6, <1>7, ReportsTracked DEF DeskOK
  <2>3. Bounded(after_fills(held.open_orders, f), pf.position)
    <3> HIDE DEF held, pf
    <3> QED BY <1>3, <1>6, <1>7, <1>8, ReportsWithin, RiskAssumption DEF DeskOK, Bounded
  <2> QED BY <2>1, <2>2, <2>3 DEF DeskOK
<1>10. held.open_orders = {} => d.open_orders = {}
  BY <1>6, NoOrdersNoFills DEF DeskOK
<1>11. m \in [has_mid : BOOLEAN, returns : 0..VolatilityWindow]
  <2> DEFINE m0 == IF resync THEN reset_price_history ELSE micro
  <2>1. m0 \in [has_mid : BOOLEAN, returns : 0..VolatilityWindow]
    BY <1>3, PipelineAssumption DEF reset_price_history
  <2> HIDE DEF m0
  <2> DEFINE r == IF m0.has_mid /\ m0.returns < VolatilityWindow
                  THEN m0.returns + 1 ELSE m0.returns
  <2>2. r \in 0..VolatilityWindow
    BY <2>1, PipelineAssumption
  <2>3. on_book_update(m0, b) = IF ~TwoSided(b) THEN m0 ELSE [has_mid |-> TRUE, returns |-> r]
    BY DEF on_book_update
  <2> HIDE DEF r, b
  <2>4. on_book_update(m0, b) \in [has_mid : BOOLEAN, returns : 0..VolatilityWindow]
    BY <2>1, <2>2, <2>3
  <2> QED BY <2>4 DEF m0
<1>12. feed' \in [last_sequence : Sequences \cup {None},
                  last_event_ts : Timestamps \cup {None}, market_data_stale : BOOLEAN]
  BY <1>1, EventFields
<1>13. portfolio' = pf
  BY <1>2
<1> HIDE DEF held, b, m, d, pf
<1>14. /\ DeskOK(desk', pf.position)
       /\ (crossed(b) \/ ~TwoSided(b)) => desk'.open_orders = {}
  <2>1. CASE crossed(b) /\ desk' = cancel_resting_quotes(d)
    BY <1>9, <2>1, CancelAllOK
  <2>2. CASE /\ ~crossed(b)
             /\ ev.type \notin {"Quote", "BookDelete", "Snapshot"}
             /\ desk' = d
    <3>1. ASSUME ~TwoSided(b) PROVE d.open_orders = {}
      <4>1. ~TwoSided(start)
        BY <1>5, <2>2, <3>1, TwoSidedByLevels
      <4>2. CASE resync
        BY <1>6, <1>10, <4>2
      <4>3. CASE ~resync
        <5>1. desk.open_orders = {}
          BY <4>1, <4>3 DEF IInv, QuietWhenUntrusted
        <5> QED BY <1>10, <4>3, <5>1 DEF held
      <4> QED BY <4>2, <4>3
    <3> QED BY <1>9, <2>2, <3>1
  <2>3. CASE /\ ~crossed(b)
             /\ \E qd \in decide(b, m.returns, pf.position, ev.timestamp),
                   threshold \in Thresholds(mid2(b)),
                   ties \in Ties(mid2(b), pf.total_pnl2) :
                   desk' = requote(d, qd, threshold, mid2(b), pf, FALSE, ties)
    <3>1. PICK qd \in decide(b, m.returns, pf.position, ev.timestamp),
               threshold \in Thresholds(mid2(b)),
               ties \in Ties(mid2(b), pf.total_pnl2) :
               desk' = requote(d, qd, threshold, mid2(b), pf, FALSE, ties)
      BY <2>3
    <3>2. qd \in QuoteDecision
      <4>1. pf.position \in Int
        BY <1>8 DEF Account
      <4> QED BY <1>5, <4>1, DecideType
    <3>3. ~TwoSided(b) => qd = NoQuotes
      BY DecideOneSided
    <3> QED BY <1>9, <2>3, <3>1, <3>2, <3>3, RequoteOK
  <2> QED BY <1>2, <2>1, <2>2, <2>3 DEF d, pf
<1>15. TypeOK'
  <2>1. desk' \in Desk
    BY <1>14 DEF DeskOK
  <2> QED BY <1>1, <1>5, <1>8, <1>11, <1>12, <1>13, <2>1 DEF TypeOK
<1>16. QuietWhenUntrusted'
  BY <1>1, <1>14 DEF QuietWhenUntrusted
<1> QED BY <1>13, <1>14, <1>15, <1>16 DEF IInv

(* on_clock() keeps the invariant: it cancels both quotes.                 *)
LEMMA OnClockIInv ==
    ASSUME IInv, NEW now \in Timestamps, OnClock(now)
    PROVE  IInv'
<1>1. DeskOK(desk, portfolio.position) /\ TypeOK
  BY DEF IInv
<1>2. DeskOK(desk', portfolio.position) /\ desk'.open_orders = {}
  BY <1>1, CancelAllOK DEF OnClock
<1>3. TypeOK'
  BY <1>1, <1>2 DEF OnClock, TypeOK, DeskOK
<1>4. QuietWhenUntrusted'
  BY <1>2 DEF QuietWhenUntrusted
<1>5. portfolio' = portfolio
  BY DEF OnClock
<1> QED BY <1>2, <1>3, <1>4, <1>5 DEF IInv

(* Every step keeps the invariant.                                         *)
LEMMA NextIInv == IInv /\ [Next]_vars => IInv'
<1> SUFFICES ASSUME IInv, [Next]_vars PROVE IInv'
  OBVIOUS
<1>1. ASSUME UNCHANGED vars PROVE IInv'
  <2>1. book' = book /\ feed' = feed /\ micro' = micro /\ desk' = desk
        /\ portfolio' = portfolio
    BY <1>1 DEF vars
  <2> QED BY <2>1 DEF IInv, TypeOK, QuietWhenUntrusted
<1>2. ASSUME NEW ev \in MarketEvent, Drop(ev) PROVE IInv'
  BY <1>1, <1>2 DEF Drop
<1>3. ASSUME NEW ev \in MarketEvent, Accept(ev) PROVE IInv'
  BY <1>3, AcceptIInv
<1>4. ASSUME NEW now \in Timestamps, OnClock(now) PROVE IInv'
  BY <1>4, OnClockIInv
<1> QED BY <1>1, <1>2, <1>3, <1>4 DEF Next, process

(* The invariant holds throughout.                                         *)
LEMMA Invariance == Spec => []IInv
<1>1. Init => IInv
  BY InitIInv
<1>2. IInv /\ [Next]_vars => IInv'
  BY NextIInv
<1> QED BY <1>1, <1>2, PTL DEF Spec

-----------------------------------------------------------------------------
(* Every variable keeps its type: for every feed, the operations of        *)
(* process() and on_clock() never leave the ranges the code declares, and  *)
(* the volatility window never holds more than its capacity.               *)
THEOREM PipelineTypeCorrect == Spec => []TypeOK
<1>1. IInv => TypeOK
  BY DEF IInv
<1> QED BY <1>1, Invariance, PTL

(* No order is ever orphaned: what cancel_side can cancel is exactly what  *)
(* rests at the venue.                                                     *)
THEOREM PipelineNoOrphans == Spec => []NoOrphanOrders
<1>1. ASSUME DeskOK(desk, portfolio.position) PROVE NoOrphanOrders
  <2>0. desk \in Desk /\ Tracked(desk)
    BY <1>1 DEF DeskOK
  <2>1. ASSUME NEW o \in desk.open_orders
        PROVE  /\ desk.resting[o.side] # None
               /\ desk.resting[o.side].id = o.id
               /\ desk.resting[o.side].price = o.price
               /\ desk.resting[o.side].size = o.quantity
               /\ o.id < desk.next_order_id
               /\ o.filled < o.quantity
    <3>1. o \in Order /\ o.filled < o.quantity /\ o.id < desk.next_order_id
      BY <2>0 DEF Desk, Tracked
    <3>2. desk.resting[o.side] = [id |-> o.id, price |-> o.price, size |-> o.quantity]
      BY <2>0 DEF Tracked
    <3>3. desk.resting[o.side] # None
      BY <3>1, <3>2, PipelineAssumption DEF Order
    <3> QED BY <3>1, <3>2, <3>3
  <2>2. ASSUME NEW s \in Sides, desk.resting[s] # None
        PROVE  \E o \in desk.open_orders :
                  /\ o.side = s /\ o.id = desk.resting[s].id
                  /\ o.price = desk.resting[s].price
                  /\ o.quantity = desk.resting[s].size
    <3>1. PICK o \in desk.open_orders : o.side = s
      BY <2>0, <2>2 DEF Tracked
    <3> QED BY <2>1, <3>1
  <2> QED BY <2>1, <2>2 DEF NoOrphanOrders
<1>2. IInv => NoOrphanOrders
  BY <1>1 DEF IInv
<1> QED BY <1>2, Invariance, PTL

(* The position limit holds however the fills arrive, although the risk    *)
(* check saw only one order and an earlier position.                       *)
THEOREM PipelineWithinPositionLimit == Spec => []ExposureWithinLimit
<1>1. IInv => ExposureWithinLimit
  BY DEF IInv, DeskOK, Bounded, Within, ExposureWithinLimit
<1> QED BY <1>1, Invariance, PTL

(* Nothing rests while the feed is stale or the book is unusable.          *)
THEOREM PipelineQuiet == Spec => []QuietWhenUntrusted
<1>1. IInv => QuietWhenUntrusted
  BY DEF IInv
<1> QED BY <1>1, Invariance, PTL

-----------------------------------------------------------------------------
(* What an accepted event does to the desk, as a chain of operations: the  *)
(* resync leaves held, the fills f leave apply_reports(held, f), and        *)
(* process() ends in one of three ways.                                     *)
Settled(held, f, ev) ==
    LET d == apply_reports(held, f)
    IN
    /\ held \in {desk, cancel_resting_quotes(desk)}
    /\ DeskOK(held, portfolio.position)
    /\ \A o \in held.open_orders : f[o] \in 0 .. remaining_quantity(o)
    /\ portfolio' = mark_to_market(on_fills(portfolio, held.open_orders, f), book')
    /\ DeskOK(d, portfolio'.position)
    /\ \/ desk' = cancel_resting_quotes(d)
       \/ desk' = d
       \/ \E qd \in decide(book', micro'.returns, portfolio'.position, ev.timestamp),
             threshold \in Thresholds(mid2(book')),
             ties \in Ties(mid2(book'), portfolio'.total_pnl2) :
             desk' = requote(d, qd, threshold, mid2(book'), portfolio', FALSE, ties)

(* Every accepted event is such a chain.                                   *)
LEMMA AcceptChain ==
    ASSUME IInv, NEW ev \in MarketEvent, Accept(ev)
    PROVE  \E held, f : Settled(held, f, ev)
<1> DEFINE resync == Gap(ev) \/ StaleSince(ev.timestamp)
           held == IF resync THEN cancel_resting_quotes(desk) ELSE desk
<1>1. PICK f \in Fills(held.open_orders, ev) :
         LET d == apply_reports(held, f)
         IN
         /\ portfolio' = mark_to_market(on_fills(portfolio, held.open_orders, f), book')
         /\ \/ desk' = cancel_resting_quotes(d)
            \/ desk' = d
            \/ \E qd \in decide(book', micro'.returns, portfolio'.position, ev.timestamp),
                  threshold \in Thresholds(mid2(book')),
                  ties \in Ties(mid2(book'), portfolio'.total_pnl2) :
                  desk' = requote(d, qd, threshold, mid2(book'), portfolio', FALSE, ties)
  BY DEF Accept
<1> DEFINE d == apply_reports(held, f)
<1>2. /\ DeskOK(desk, portfolio.position) /\ portfolio.position \in Int
      /\ portfolio \in Account
  BY DEF IInv, TypeOK, Account
<1>3. held \in {desk, cancel_resting_quotes(desk)} /\ DeskOK(held, portfolio.position)
  BY <1>2, CancelAllOK
<1> HIDE DEF held
<1>4. \A o \in held.open_orders : f[o] \in 0 .. remaining_quantity(o)
  BY <1>3, FillsRange DEF DeskOK
<1>5. book' \in Book
  BY AcceptIInv DEF IInv, TypeOK
<1>6. portfolio'.position = portfolio.position + Filled(held.open_orders, f, "Buy")
                                               - Filled(held.open_orders, f, "Sell")
  BY <1>1, <1>2, <1>3, <1>4, <1>5, AccountAfter DEF DeskOK
<1>7. DeskOK(d, portfolio'.position)
  <2>1. d \in Desk /\ d.open_orders = after_fills(held.open_orders, f)
    BY <1>3, <1>4, ReportFields DEF DeskOK
  <2>2. Tracked(d)
    BY <1>3, <1>4, ReportsTracked DEF DeskOK
  <2>3. Bounded(after_fills(held.open_orders, f), portfolio'.position)
    BY <1>2, <1>3, <1>4, <1>6, ReportsWithin, RiskAssumption DEF DeskOK, Bounded
  <2> QED BY <2>1, <2>2, <2>3 DEF DeskOK
<1> HIDE DEF d
<1>8. /\ portfolio' = mark_to_market(on_fills(portfolio, held.open_orders, f), book')
      /\ \/ desk' = cancel_resting_quotes(d)
         \/ desk' = d
         \/ \E qd \in decide(book', micro'.returns, portfolio'.position, ev.timestamp),
               threshold \in Thresholds(mid2(book')),
               ties \in Ties(mid2(book'), portfolio'.total_pnl2) :
               desk' = requote(d, qd, threshold, mid2(book'), portfolio', FALSE, ties)
  BY <1>1, Zenon DEF d
<1>9. Settled(held, f, ev)
  BY <1>3, <1>4, <1>7, <1>8, Zenon DEF Settled, d
<1> QED BY <1>9

(* The account at the end of such a chain.                                 *)
LEMMA SettledAccount ==
    ASSUME NEW held, NEW f, NEW ev, Settled(held, f, ev),
           portfolio \in Account, book' \in Book
    PROVE  /\ portfolio' \in Account
           /\ portfolio'.position = portfolio.position
                                     + Filled(held.open_orders, f, "Buy")
                                     - Filled(held.open_orders, f, "Sell")
           /\ portfolio'.fills = portfolio.fills + Cardinality(Hit(held.open_orders, f))
           /\ portfolio'.partial_fills
                 = portfolio.partial_fills
                   + Cardinality(FilledPartially(held.open_orders, f))
           /\ TwoSided(book') =>
                 portfolio'.total_pnl2
                    = 2 * portfolio'.cash + portfolio'.position * mid2(book')
<1> DEFINE after == mark_to_market(on_fills(portfolio, held.open_orders, f), book')
<1>1. /\ held \in Desk /\ Tracked(held)
      /\ \A o \in held.open_orders : f[o] \in 0 .. remaining_quantity(o)
  BY DEF Settled, DeskOK
<1>2. /\ after \in Account
      /\ after.position = portfolio.position + Filled(held.open_orders, f, "Buy")
                                             - Filled(held.open_orders, f, "Sell")
      /\ after.fills = portfolio.fills + Cardinality(Hit(held.open_orders, f))
      /\ after.partial_fills
            = portfolio.partial_fills
              + Cardinality(FilledPartially(held.open_orders, f))
      /\ TwoSided(book') =>
            after.total_pnl2 = 2 * after.cash + after.position * mid2(book')
  BY <1>1, AccountAfter
<1>3. portfolio' = after
  BY DEF Settled
<1> HIDE DEF after
<1> QED BY <1>2, <1>3

-----------------------------------------------------------------------------
(* Counting quotes *)

(* The counters of the desk add up, given the number of completed orders.  *)
Balanced(d, completed) ==
    d.submitted = d.canceled + Cardinality(d.open_orders) + completed

(* cancel_side counts the order it removes and sends none.                 *)
LEMMA CancelSideCounts ==
    ASSUME NEW d, NEW s \in Sides, NEW position, DeskOK(d, position)
    PROVE  /\ cancel_side(d, s).submitted = d.submitted
           /\ \A n \in Int : Balanced(d, n) => Balanced(cancel_side(d, s), n)
<1> USE DEF DeskOK
<1>1. CASE d.resting[s] = None
  BY <1>1 DEF cancel_side
<1>2. CASE d.resting[s] # None
  <2> DEFINE e == cancel_side(d, s)
  <2>1. e.submitted = d.submitted /\ e.canceled = d.canceled + 1
    BY <1>2, CancelFields
  <2>2. PICK q \in d.open_orders : q.side = s
    BY <1>2 DEF Tracked
  <2>3. e.open_orders = {o \in d.open_orders : o.side # s}
    BY CancelSideOK
  <2>4. e.open_orders = d.open_orders \ {q}
    BY <2>2, <2>3 DEF Tracked
  <2>5. IsFiniteSet(d.open_orders) /\ Cardinality(d.open_orders) \in Nat
    BY OpenOrdersFinite, FS_CardinalityType
  <2>6. Cardinality(e.open_orders) = Cardinality(d.open_orders) - 1
    BY <2>2, <2>4, <2>5, FS_RemoveElement
  <2>7. d.submitted \in Int /\ d.canceled \in Int
    BY DEF Desk
  <2> HIDE DEF e
  <2>8. \A n \in Int : Balanced(d, n) => Balanced(e, n)
    BY <2>1, <2>5, <2>6, <2>7 DEF Balanced
  <2> QED BY <2>1, <2>8 DEF e
<1> QED BY <1>1, <1>2

(* Neither does canceling both sides.                                      *)
LEMMA CancelAllCounts ==
    ASSUME NEW d, NEW position, DeskOK(d, position)
    PROVE  /\ cancel_resting_quotes(d).submitted = d.submitted
           /\ \A n \in Int : Balanced(d, n) => Balanced(cancel_resting_quotes(d), n)
<1> DEFINE e == cancel_side(d, "Buy")
<1>1. "Buy" \in Sides /\ "Sell" \in Sides
  BY DEF Sides
<1>2. DeskOK(e, position) /\ e.submitted = d.submitted
      /\ \A n \in Int : Balanced(d, n) => Balanced(e, n)
  BY <1>1, CancelSideOK, CancelSideCounts
<1> HIDE DEF e
<1>3. /\ cancel_side(e, "Sell").submitted = e.submitted
      /\ \A n \in Int : Balanced(e, n) => Balanced(cancel_side(e, "Sell"), n)
  BY <1>1, <1>2, CancelSideCounts
<1> QED BY <1>2, <1>3 DEF e, cancel_resting_quotes

(* An approved submission is counted once, and was approved at a P&L not   *)
(* below the loss limit.                                                   *)
LEMMA SubmitCounts ==
    ASSUME NEW d, NEW s \in Sides, NEW price \in Int, NEW size \in Nat,
           NEW reference2, NEW pf, NEW stale, NEW ties, DeskOK(d, pf.position)
    PROVE  LET e == submit(d, s, price, size, reference2, pf, stale, ties)
           IN  /\ e.submitted # d.submitted => ~(-pf.total_pnl2 > 2 * MaxDailyLoss)
               /\ \A n \in Int : Balanced(d, n) => Balanced(e, n)
<1> USE DEF DeskOK
<1> DEFINE e == submit(d, s, price, size, reference2, pf, stale, ties)
           new == [id |-> d.next_order_id, side |-> s, price |-> price,
                   quantity |-> size, filled |-> 0]
           approved == check(s, size, reference2, pf.position, pf.total_pnl2,
                             Cardinality(d.open_orders), stale, ties) = "Approved"
<1>1. CASE ~approved
  BY <1>1 DEF submit
<1>2. CASE approved
  <2>1. ~(-pf.total_pnl2 > 2 * MaxDailyLoss)
    BY <1>2, ApprovedMeans
  <2>2. /\ e.submitted = d.submitted + 1 /\ e.canceled = d.canceled
        /\ e.open_orders = {o \in d.open_orders : o.id # d.next_order_id} \cup {new}
    <3>1. /\ e \in Desk
          /\ e.open_orders = {o \in d.open_orders : o.id # d.next_order_id} \cup {new}
          /\ e.resting = [d.resting EXCEPT ![s] =
                 [id |-> d.next_order_id, price |-> price, size |-> size]]
          /\ e.next_order_id = d.next_order_id + 1
          /\ e.submitted = d.submitted + 1 /\ e.canceled = d.canceled
      BY <1>2, SubmitFields
    <3> HIDE DEF e, new
    <3> QED BY <3>1
  <2>3. \A o \in d.open_orders : o.id # d.next_order_id
    <3>1. \A o \in d.open_orders :
             o.id < d.next_order_id /\ o.id \in Nat /\ d.next_order_id \in Nat
      BY DEF Tracked, Desk, Order
    <3> QED BY <3>1
  <2>4. new \notin d.open_orders
    BY <2>3
  <2>5. IsFiniteSet(d.open_orders) /\ Cardinality(d.open_orders) \in Nat
    BY OpenOrdersFinite, FS_CardinalityType
  <2> HIDE DEF e, new
  <2>6. e.open_orders = d.open_orders \cup {new}
    BY <2>2, <2>3
  <2>7. Cardinality(e.open_orders) = Cardinality(d.open_orders) + 1
    BY <2>4, <2>5, <2>6, FS_AddElement
  <2>8. d.submitted \in Int /\ d.canceled \in Int
    BY DEF Desk
  <2>9. \A n \in Int : Balanced(d, n) => Balanced(e, n)
    BY <2>2, <2>5, <2>7, <2>8 DEF Balanced
  <2> QED BY <2>1, <2>9 DEF e
<1> QED BY <1>1, <1>2

(* The same for one side of a requote, ...                                 *)
LEMMA QuoteSideCounts ==
    ASSUME NEW d, NEW qd \in QuoteDecision, NEW s \in Sides, NEW threshold,
           NEW reference2, NEW pf, NEW stale, NEW ties, DeskOK(d, pf.position)
    PROVE  LET e == quote_side(d, qd, s, threshold, reference2, pf, stale, ties)
           IN  /\ e.submitted # d.submitted =>
                     qd.size[s] > 0 /\ ~(-pf.total_pnl2 > 2 * MaxDailyLoss)
               /\ \A n \in Int : Balanced(d, n) => Balanced(e, n)
<1> DEFINE c == cancel_side(d, s)
           t == submit(c, s, qd.price[s], qd.size[s], reference2, pf, stale, ties)
<1>1. qd.price[s] \in Int /\ qd.size[s] \in Nat
  BY DEF QuoteDecision
<1>2. DeskOK(c, pf.position)
  BY CancelSideOK
<1>3. c.submitted = d.submitted /\ \A n \in Int : Balanced(d, n) => Balanced(c, n)
  BY CancelSideCounts
<1> HIDE DEF c
<1>4. /\ t.submitted # c.submitted => ~(-pf.total_pnl2 > 2 * MaxDailyLoss)
      /\ \A n \in Int : Balanced(c, n) => Balanced(t, n)
  BY <1>1, <1>2, SubmitCounts
<1> HIDE DEF t
<1>5. LET e == quote_side(d, qd, s, threshold, reference2, pf, stale, ties)
      IN  e = d \/ (e = t /\ qd.size[s] > 0)
  BY DEF quote_side, c, t
<1> QED BY <1>3, <1>4, <1>5

(* ... for the withdrawal of a side, ...                                   *)
LEMMA CancelUnquotedCounts ==
    ASSUME NEW d, NEW qd, NEW s \in Sides, NEW position, DeskOK(d, position)
    PROVE  /\ cancel_unquoted(d, qd, s).submitted = d.submitted
           /\ \A n \in Int : Balanced(d, n) => Balanced(cancel_unquoted(d, qd, s), n)
BY CancelSideCounts DEF cancel_unquoted

(* ... and for a whole requote.                                            *)
LEMMA RequoteCounts ==
    ASSUME NEW d, NEW qd \in QuoteDecision, NEW threshold,
           NEW reference2, NEW pf, NEW stale, NEW ties, DeskOK(d, pf.position)
    PROVE  LET e == requote(d, qd, threshold, reference2, pf, stale, ties)
           IN  /\ e.submitted # d.submitted =>
                     qd # NoQuotes /\ ~(-pf.total_pnl2 > 2 * MaxDailyLoss)
               /\ \A n \in Int : Balanced(d, n) => Balanced(e, n)
<1> DEFINE w1 == cancel_unquoted(d, qd, "Buy")
           w2 == cancel_unquoted(w1, qd, "Sell")
           q1 == quote_side(w2, qd, "Buy", threshold, reference2, pf, stale, ties)
           q2 == quote_side(q1, qd, "Sell", threshold, reference2, pf, stale, ties)
           lossOK == ~(-pf.total_pnl2 > 2 * MaxDailyLoss)
<1>1. "Buy" \in Sides /\ "Sell" \in Sides
  BY DEF Sides
<1>2. /\ DeskOK(w1, pf.position) /\ w1.submitted = d.submitted
      /\ \A n \in Int : Balanced(d, n) => Balanced(w1, n)
  BY <1>1, CancelUnquotedOK, CancelUnquotedCounts
<1> HIDE DEF w1
<1>3. /\ DeskOK(w2, pf.position) /\ w2.submitted = w1.submitted
      /\ \A n \in Int : Balanced(w1, n) => Balanced(w2, n)
  BY <1>1, <1>2, CancelUnquotedOK, CancelUnquotedCounts
<1> HIDE DEF w2
<1>4. /\ DeskOK(q1, pf.position)
      /\ q1.submitted # w2.submitted => qd.size["Buy"] > 0 /\ lossOK
      /\ \A n \in Int : Balanced(w2, n) => Balanced(q1, n)
  BY <1>1, <1>3, QuoteSideOK, QuoteSideCounts
<1> HIDE DEF q1
<1>5. /\ q2.submitted # q1.submitted => qd.size["Sell"] > 0 /\ lossOK
      /\ \A n \in Int : Balanced(q1, n) => Balanced(q2, n)
  BY <1>1, <1>4, QuoteSideCounts
<1> HIDE DEF q2, lossOK
<1>6. qd = NoQuotes => qd.size["Buy"] = 0 /\ qd.size["Sell"] = 0
  BY <1>1 DEF NoQuotes
<1>7. /\ q2.submitted # d.submitted => qd # NoQuotes /\ lossOK
      /\ \A n \in Int : Balanced(d, n) => Balanced(q2, n)
  BY <1>2, <1>3, <1>4, <1>5, <1>6
<1>8. q2 = requote(d, qd, threshold, reference2, pf, stale, ties)
  BY DEF requote, q2, q1, w2, w1
<1> QED BY <1>7, <1>8 DEF lossOK

(* The reports of an event: each complete fill takes one order off the     *)
(* open ones, and the fills that are not partial are the complete ones.    *)
LEMMA ReportsCounts ==
    ASSUME NEW d, d \in Desk, Tracked(d), NEW f,
           \A o \in d.open_orders : f[o] \in 0 .. remaining_quantity(o),
           NEW n \in Int, Balanced(d, n)
    PROVE  Balanced(apply_reports(d, f),
                    n + Cardinality(Hit(d.open_orders, f))
                      - Cardinality(FilledPartially(d.open_orders, f)))
<1> DEFINE open == d.open_orders
           hit == Hit(open, f)
           part == FilledPartially(open, f)
           done == FilledCompletely(open, f)
           rest == open \ done
           After(o) == [o EXCEPT !.filled = @ + f[o]]
           e == apply_reports(d, f)
<1>1. e.submitted = d.submitted /\ e.canceled = d.canceled /\ e.open_orders = after_fills(open, f)
  BY ReportFields
<1>2. IsFiniteSet(open)
  BY OpenOrdersFinite
<1>3. Cardinality(done) = Cardinality(hit) - Cardinality(part)
  <2>1. done = hit \ part /\ hit \cap part = part /\ hit \subseteq open
    BY DEF Hit, FilledCompletely, FilledPartially
  <2>2. IsFiniteSet(hit)
    BY <1>2, <2>1, FS_Subset
  <2> HIDE DEF done, hit, part
  <2>3. Cardinality(hit \ part) = Cardinality(hit) - Cardinality(hit \cap part)
    BY <2>2, FS_Difference
  <2> QED BY <2>1, <2>3, Zenon
<1>4. Cardinality(rest) = Cardinality(open) - Cardinality(done) /\ IsFiniteSet(rest)
  <2>1. open \cap done = done
    BY DEF FilledCompletely
  <2> HIDE DEF done
  <2> QED BY <1>2, <2>1, FS_Difference
<1>5. Cardinality(after_fills(open, f)) = Cardinality(rest)
  <2> DEFINE T == after_fills(open, f)
             h == [o \in rest |-> After(o)]
  <2>1. T = {After(o) : o \in rest}
    BY DEF after_fills
  <2>2. \A o, p \in rest : After(o) = After(p) => o = p
    <3> SUFFICES ASSUME NEW o \in rest, NEW p \in rest, After(o) = After(p)
                 PROVE  o = p
      OBVIOUS
    <3>1. After(o).id = o.id /\ After(p).id = p.id
      BY DEF Desk, Order
    <3>2. o.id = p.id /\ o \in open /\ p \in open
      BY <3>1
    <3> QED BY <3>2 DEF Tracked
  <2> HIDE DEF rest, After, T
  <2>3. h \in [rest -> T] /\ (\A o, p \in rest : h[o] = h[p] => o = p)
        /\ \A x \in T : \E o \in rest : h[o] = x
    BY <2>1, <2>2
  <2>4. ExistsBijection(rest, T)
    BY <2>3 DEF ExistsBijection, Bijection, Injection, Surjection, IsInjective
  <2> QED BY <1>4, <2>4, FS_Bijection DEF T
<1>6. /\ Cardinality(open) \in Nat /\ Cardinality(hit) \in Nat /\ Cardinality(part) \in Nat
      /\ d.submitted \in Int /\ d.canceled \in Int
  <2>1. hit \subseteq open /\ part \subseteq open
    BY DEF Hit, FilledPartially
  <2>2. IsFiniteSet(hit) /\ IsFiniteSet(part)
    BY <1>2, <2>1, FS_Subset
  <2>3. d.submitted \in Int /\ d.canceled \in Int
    BY DEF Desk
  <2> QED BY <1>2, <2>2, <2>3, FS_CardinalityType
<1> HIDE DEF hit, part, done, rest, e
<1>7. e.submitted = e.canceled + Cardinality(e.open_orders)
                    + (n + Cardinality(hit) - Cardinality(part))
  BY <1>1, <1>3, <1>4, <1>5, <1>6 DEF Balanced
<1> QED BY <1>7 DEF Balanced, e, hit, part

(* Every submitted quote is open, canceled once or completely filled once. *)
(* The counters are kept by four different functions of Pipeline; none of  *)
(* them compares them.  The invariant is inductive next to IInv, which     *)
(* supplies that an occupied slot names exactly one open order.            *)
THEOREM PipelineQuotesAccountedFor == Spec => []QuotesAccountedFor
<1>1. Init => QuotesAccountedFor
  <2>1. Cardinality({}) = 0
    BY FS_EmptySet
  <2> QED BY <2>1 DEF Init, QuotesAccountedFor
<1>2. IInv /\ QuotesAccountedFor /\ [Next]_vars => QuotesAccountedFor'
  <2> SUFFICES ASSUME IInv, QuotesAccountedFor, [Next]_vars
               PROVE  QuotesAccountedFor'
    OBVIOUS
  <2> DEFINE n == portfolio.fills - portfolio.partial_fills
  <2>1. DeskOK(desk, portfolio.position) /\ portfolio \in Account /\ n \in Int
        /\ Balanced(desk, n)
    BY DEF IInv, TypeOK, Account, QuotesAccountedFor, Balanced
  <2>2. ASSUME NEW ev \in MarketEvent, Accept(ev)
        PROVE  QuotesAccountedFor'
    <3>1. PICK held, f : Settled(held, f, ev)
      BY <2>2, AcceptChain
    <3> DEFINE d == apply_reports(held, f)
               k == n + Cardinality(Hit(held.open_orders, f))
                      - Cardinality(FilledPartially(held.open_orders, f))
    <3>2. Balanced(held, n)
      BY <2>1, <3>1, CancelAllCounts DEF Settled
    <3>3. held \in Desk /\ Tracked(held)
          /\ \A o \in held.open_orders : f[o] \in 0 .. remaining_quantity(o)
      BY <3>1 DEF Settled, DeskOK
    <3> HIDE DEF n
    <3>4. Balanced(d, k)
      BY <2>1, <3>2, <3>3, ReportsCounts
    <3>5. book' \in Book
      BY <2>2, AcceptIInv DEF IInv, TypeOK
    <3>6. /\ portfolio' \in Account
          /\ portfolio'.fills = portfolio.fills + Cardinality(Hit(held.open_orders, f))
          /\ portfolio'.partial_fills
                = portfolio.partial_fills
                  + Cardinality(FilledPartially(held.open_orders, f))
      BY <2>1, <3>1, <3>5, SettledAccount
    <3>7. k = portfolio'.fills - portfolio'.partial_fills /\ k \in Int
      <4>1. IsFiniteSet(held.open_orders)
        BY <3>3, OpenOrdersFinite
      <4>2. /\ Hit(held.open_orders, f) \subseteq held.open_orders
            /\ FilledPartially(held.open_orders, f) \subseteq held.open_orders
        BY DEF Hit, FilledPartially
      <4>3. /\ Cardinality(Hit(held.open_orders, f)) \in Nat
            /\ Cardinality(FilledPartially(held.open_orders, f)) \in Nat
        BY <4>1, <4>2, FS_Subset, FS_CardinalityType
      <4> QED BY <2>1, <3>6, <4>3 DEF n, Account
    <3> HIDE DEF k, d
    <3>8. Balanced(desk', k)
      <4>1. DeskOK(d, portfolio'.position)
        BY <3>1 DEF Settled, d
      <4>2. CASE desk' = cancel_resting_quotes(d)
        BY <3>4, <3>7, <4>1, <4>2, CancelAllCounts
      <4>3. CASE desk' = d
        BY <3>4, <4>3
      <4>4. CASE \E qd \in decide(book', micro'.returns, portfolio'.position, ev.timestamp),
                    threshold \in Thresholds(mid2(book')),
                    ties \in Ties(mid2(book'), portfolio'.total_pnl2) :
                    desk' = requote(d, qd, threshold, mid2(book'), portfolio', FALSE, ties)
        <5>1. PICK qd \in decide(book', micro'.returns, portfolio'.position, ev.timestamp),
                   threshold \in Thresholds(mid2(book')),
                   ties \in Ties(mid2(book'), portfolio'.total_pnl2) :
                   desk' = requote(d, qd, threshold, mid2(book'), portfolio', FALSE, ties)
          BY <4>4
        <5>2. portfolio'.position \in Int
          BY <3>6 DEF Account
        <5>3. qd \in QuoteDecision
          BY <3>5, <5>1, <5>2, DecideType
        <5> QED BY <3>4, <3>7, <4>1, <5>1, <5>3, RequoteCounts
      <4> QED BY <3>1, <4>2, <4>3, <4>4 DEF Settled, d
    <3> QED BY <3>7, <3>8 DEF Balanced, QuotesAccountedFor
  <2>3. ASSUME NEW now \in Timestamps, OnClock(now)
        PROVE  QuotesAccountedFor'
    BY <2>1, <2>3, CancelAllCounts DEF OnClock, Balanced, QuotesAccountedFor
  <2>4. CASE UNCHANGED vars
    BY <2>4 DEF vars, QuotesAccountedFor
  <2> QED BY <2>2, <2>3, <2>4 DEF Next, process, Drop
<1> QED BY <1>1, <1>2, Invariance, PTL DEF Spec

(* A new order is sent only while the account, valued at the mid of the    *)
(* book just updated and with every fill of that event in it, is not below *)
(* the loss limit: no path through process() reaches the risk check with a *)
(* P&L that an earlier event left behind.                                  *)
THEOREM PipelineLossLimit == Spec => LossLimitGatesSubmission
<1> DEFINE Sent == desk'.submitted > desk.submitted
           Value == 2 * portfolio'.cash + portfolio'.position * mid2(book')
           Gate == Sent => Value >= -(2 * MaxDailyLoss)
<1>1. IInv /\ [Next]_vars => [Gate]_vars
  <2> SUFFICES ASSUME IInv, Next, Sent
               PROVE  Value >= -(2 * MaxDailyLoss)
    OBVIOUS
  <2>0. /\ DeskOK(desk, portfolio.position) /\ portfolio \in Account
        /\ desk.submitted \in Int
    BY DEF IInv, TypeOK, DeskOK, Desk
  <2>1. ASSUME NEW ev \in MarketEvent, Accept(ev)
        PROVE  Value >= -(2 * MaxDailyLoss)
    <3>1. PICK held, f : Settled(held, f, ev)
      BY <2>1, AcceptChain
    <3> DEFINE d == apply_reports(held, f)
    <3>2. DeskOK(d, portfolio'.position) /\ d.submitted = desk.submitted
      <4>1. held.submitted = desk.submitted
        BY <2>0, <3>1, CancelAllCounts DEF Settled
      <4>2. held \in Desk /\ Tracked(held)
            /\ \A o \in held.open_orders : f[o] \in 0 .. remaining_quantity(o)
        BY <3>1 DEF Settled, DeskOK
      <4>3. d.submitted = held.submitted
        BY <4>2, ReportFields
      <4> QED BY <3>1, <4>1, <4>3 DEF Settled
    <3>3. desk'.submitted # d.submitted
      BY <2>0, <3>2
    <3> HIDE DEF d
    <3>4. PICK qd \in decide(book', micro'.returns, portfolio'.position, ev.timestamp),
               threshold \in Thresholds(mid2(book')),
               ties \in Ties(mid2(book'), portfolio'.total_pnl2) :
               desk' = requote(d, qd, threshold, mid2(book'), portfolio', FALSE, ties)
      <4>1. desk' # d /\ desk' # cancel_resting_quotes(d)
        BY <3>2, <3>3, CancelAllCounts
      <4> QED BY <3>1, <4>1 DEF Settled, d
    <3>5. book' \in Book
      BY <2>1, AcceptIInv DEF IInv, TypeOK
    <3>6. /\ portfolio' \in Account
          /\ TwoSided(book') =>
                portfolio'.total_pnl2
                   = 2 * portfolio'.cash + portfolio'.position * mid2(book')
      BY <2>0, <3>1, <3>5, SettledAccount
    <3>7. portfolio'.position \in Int /\ portfolio'.total_pnl2 \in Int
      BY <3>6 DEF Account
    <3>8. qd \in QuoteDecision
      BY <3>4, <3>5, <3>7, DecideType
    <3>9. qd # NoQuotes /\ ~(-portfolio'.total_pnl2 > 2 * MaxDailyLoss)
      <4> DEFINE e == requote(d, qd, threshold, mid2(book'), portfolio', FALSE, ties)
      <4>1. /\ e.submitted # d.submitted =>
                  qd # NoQuotes /\ ~(-portfolio'.total_pnl2 > 2 * MaxDailyLoss)
            /\ \A n \in Int : Balanced(d, n) => Balanced(e, n)
        BY <3>2, <3>8, RequoteCounts
      <4> HIDE DEF e
      <4> QED BY <3>3, <3>4, <4>1 DEF e
    <3>10. TwoSided(book')
      BY <3>4, <3>9, DecideOneSided
    <3> QED BY <3>6, <3>7, <3>9, <3>10, RiskAssumption
  <2>2. ASSUME NEW now \in Timestamps, OnClock(now)
        PROVE  FALSE
    BY <2>0, <2>2, CancelAllCounts DEF OnClock
  <2>3. ASSUME UNCHANGED vars
        PROVE  FALSE
    BY <2>0, <2>3 DEF vars
  <2> QED BY <2>1, <2>2, <2>3 DEF Next, process, Drop
<1> QED BY <1>1, Invariance, PTL DEF Spec, LossLimitGatesSubmission

-----------------------------------------------------------------------------
(* What rests after a requote *)

(* An order the decision qd leaves in place: of the decided size, and at a *)
(* price within the threshold of the decided one.                          *)
Kept(o, qd, threshold) ==
    /\ o.quantity = qd.size[o.side]
    /\ ~(o.price - qd.price[o.side] > threshold)
    /\ ~(qd.price[o.side] - o.price > threshold)

(* An order that qd asked for.                                             *)
Fresh(o, qd) ==
    /\ qd.size[o.side] > 0
    /\ o.quantity = qd.size[o.side]
    /\ o.price = qd.price[o.side]

(* A submission opens no other order than the one it was asked for.        *)
LEMMA SubmitOrders ==
    ASSUME NEW d \in Desk, NEW s \in Sides, NEW price \in Int, NEW size \in Nat,
           NEW reference2, NEW pf, NEW stale, NEW ties
    PROVE  \A o \in submit(d, s, price, size, reference2, pf, stale, ties).open_orders :
              \/ o \in d.open_orders
              \/ o.side = s /\ o.price = price /\ o.quantity = size
<1> DEFINE e == submit(d, s, price, size, reference2, pf, stale, ties)
           new == [id |-> d.next_order_id, side |-> s, price |-> price,
                   quantity |-> size, filled |-> 0]
           approved == check(s, size, reference2, pf.position, pf.total_pnl2,
                             Cardinality(d.open_orders), stale, ties) = "Approved"
<1>1. CASE ~approved
  BY <1>1 DEF submit
<1>2. CASE approved
  <2>1. /\ e \in Desk
        /\ e.open_orders = {o \in d.open_orders : o.id # d.next_order_id} \cup {new}
        /\ e.resting = [d.resting EXCEPT ![s] =
               [id |-> d.next_order_id, price |-> price, size |-> size]]
        /\ e.next_order_id = d.next_order_id + 1
        /\ e.submitted = d.submitted + 1 /\ e.canceled = d.canceled
    BY <1>2, SubmitFields
  <2>2. new.side = s /\ new.price = price /\ new.quantity = size
    OBVIOUS
  <2> HIDE DEF e, new
  <2>3. \A o \in e.open_orders :
           o \in d.open_orders \/ (o.side = s /\ o.price = price /\ o.quantity = size)
    BY <2>1, <2>2
  <2> QED BY <2>3 DEF e
<1> QED BY <1>1, <1>2

(* One side of a requote leaves the other side's orders alone.             *)
LEMMA QuoteSideOrders ==
    ASSUME NEW d, NEW qd \in QuoteDecision, NEW s \in Sides, NEW threshold,
           NEW reference2, NEW pf, NEW stale, NEW ties, DeskOK(d, pf.position)
    PROVE  \A o \in quote_side(d, qd, s, threshold, reference2, pf, stale, ties).open_orders :
              \/ o \in d.open_orders
                 /\ (o.side = s /\ qd.size[s] > 0 => Kept(o, qd, threshold))
              \/ o.side = s /\ Fresh(o, qd)
<1> DEFINE c == cancel_side(d, s)
           t == submit(c, s, qd.price[s], qd.size[s], reference2, pf, stale, ties)
           replace == /\ qd.size[s] > 0
                      /\ needs_replace(d.resting[s], qd.price[s], qd.size[s], threshold)
<1>1. qd.price[s] \in Int /\ qd.size[s] \in Nat
  BY DEF QuoteDecision
<1>2. CASE ~replace
  <2>1. quote_side(d, qd, s, threshold, reference2, pf, stale, ties) = d
    BY <1>2 DEF quote_side
  <2>2. ASSUME NEW o \in d.open_orders, o.side = s, qd.size[s] > 0
        PROVE  Kept(o, qd, threshold)
    <3>1. ~needs_replace(d.resting[s], qd.price[s], qd.size[s], threshold)
      BY <1>2, <2>2
    <3>2. d.resting[s] = [id |-> o.id, price |-> o.price, size |-> o.quantity]
      BY <2>2 DEF DeskOK, Tracked
    <3>3. d.resting[s].price = o.price /\ d.resting[s].size = o.quantity
      BY <3>2
    <3> QED BY <2>2, <3>1, <3>3 DEF needs_replace, Kept
  <2> QED BY <2>1, <2>2
<1>3. CASE replace
  <2>1. quote_side(d, qd, s, threshold, reference2, pf, stale, ties) = t
    BY <1>3 DEF quote_side
  <2>2. c \in Desk /\ c.open_orders = {o \in d.open_orders : o.side # s}
    BY CancelSideOK DEF DeskOK
  <2> HIDE DEF c
  <2>3. \A o \in t.open_orders :
           \/ o \in c.open_orders
           \/ o.side = s /\ o.price = qd.price[s] /\ o.quantity = qd.size[s]
    BY <1>1, <2>2, SubmitOrders
  <2> HIDE DEF t
  <2> QED BY <1>3, <2>1, <2>2, <2>3 DEF Fresh
<1> QED BY <1>2, <1>3

(* Every order open after a requote is one the decision asked for, or one  *)
(* that was open before and that the decision keeps.                       *)
LEMMA RequoteOrders ==
    ASSUME NEW d, NEW qd \in QuoteDecision, NEW threshold,
           NEW reference2, NEW pf, NEW stale, NEW ties, DeskOK(d, pf.position)
    PROVE  \A o \in requote(d, qd, threshold, reference2, pf, stale, ties).open_orders :
              /\ qd.size[o.side] > 0
              /\ Fresh(o, qd) \/ (o \in d.open_orders /\ Kept(o, qd, threshold))
<1> DEFINE w1 == cancel_unquoted(d, qd, "Buy")
           w2 == cancel_unquoted(w1, qd, "Sell")
           q1 == quote_side(w2, qd, "Buy", threshold, reference2, pf, stale, ties)
           q2 == quote_side(q1, qd, "Sell", threshold, reference2, pf, stale, ties)
<1>1. "Buy" \in Sides /\ "Sell" \in Sides
  BY DEF Sides
<1>2. ASSUME NEW e, NEW s \in Sides, DeskOK(e, pf.position)
      PROVE  \A o \in cancel_unquoted(e, qd, s).open_orders :
                o \in e.open_orders /\ (o.side = s => qd.size[s] > 0)
  <2>1. cancel_side(e, s).open_orders = {o \in e.open_orders : o.side # s}
    BY <1>2, CancelSideOK
  <2> QED BY <2>1 DEF cancel_unquoted
<1>3. /\ DeskOK(w1, pf.position)
      /\ \A o \in w1.open_orders : o \in d.open_orders /\ (o.side = "Buy" => qd.size["Buy"] > 0)
  BY <1>1, <1>2, CancelUnquotedOK
<1> HIDE DEF w1
<1>4. /\ DeskOK(w2, pf.position)
      /\ \A o \in w2.open_orders : o \in w1.open_orders /\ (o.side = "Sell" => qd.size["Sell"] > 0)
  BY <1>1, <1>2, <1>3, CancelUnquotedOK
<1> HIDE DEF w2
<1>5. /\ DeskOK(q1, pf.position)
      /\ \A o \in q1.open_orders :
            \/ o \in w2.open_orders
               /\ (o.side = "Buy" /\ qd.size["Buy"] > 0 => Kept(o, qd, threshold))
            \/ o.side = "Buy" /\ Fresh(o, qd)
  BY <1>1, <1>4, QuoteSideOK, QuoteSideOrders
<1> HIDE DEF q1
<1>6. /\ DeskOK(q2, pf.position)
      /\ \A o \in q2.open_orders :
            \/ o \in q1.open_orders
               /\ (o.side = "Sell" /\ qd.size["Sell"] > 0 => Kept(o, qd, threshold))
            \/ o.side = "Sell" /\ Fresh(o, qd)
  BY <1>1, <1>5, QuoteSideOK, QuoteSideOrders
<1> HIDE DEF q2
<1>7. \A o \in q2.open_orders : o.side \in {"Buy", "Sell"}
  BY <1>6 DEF DeskOK, Desk, Order, Sides
<1>8. ASSUME NEW o \in q2.open_orders
      PROVE  /\ qd.size[o.side] > 0
             /\ Fresh(o, qd) \/ (o \in d.open_orders /\ Kept(o, qd, threshold))
  <2>1. CASE Fresh(o, qd)
    BY <2>1 DEF Fresh
  <2>2. CASE ~Fresh(o, qd)
    <3>1. o \in q1.open_orders /\ o \in w2.open_orders /\ o \in w1.open_orders
          /\ o \in d.open_orders
      BY <1>3, <1>4, <1>5, <1>6, <2>2
    <3>2. CASE o.side = "Buy"
      BY <1>3, <1>5, <2>2, <3>1, <3>2
    <3>3. CASE o.side = "Sell"
      BY <1>4, <1>6, <2>2, <3>1, <3>3
    <3> QED BY <1>7, <3>1, <3>2, <3>3
  <2> QED BY <2>1, <2>2
<1>9. q2 = requote(d, qd, threshold, reference2, pf, stale, ties)
  BY DEF requote, q2, q1, w2, w1
<1> QED BY <1>8, <1>9

(* The prices and the sizes of a decision to quote around m2, with the     *)
(* half spread hs and the clamped inventory i.                             *)
Decided(qd, m2, hs, i) ==
    /\ qd.size["Buy"] \in TaperedSizes(i)
    /\ qd.size["Sell"] \in TaperedSizes(-i)
    /\ qd.price["Buy"] \in from_double(m2 * (10000 - hs - SkewBpsPerUnit * i), 20000)
    /\ qd.price["Sell"] \in from_double(m2 * (10000 + hs - SkewBpsPerUnit * i), 20000)

(* The strategy either quotes neither side or decides both.                *)
LEMMA DecideShape ==
    ASSUME NEW b \in Book, NEW returns, NEW inventory \in Int, NEW now,
           NEW qd \in decide(b, returns, inventory, now), qd # NoQuotes
    PROVE  /\ TwoSided(b)
           /\ \E hs \in HalfSpreads(returns) :
                 Decided(qd, mid2(b), hs, clamped_inventory(inventory))
<1> DEFINE i == clamped_inventory(inventory)
<1>1. TwoSided(b)
  BY DecideOneSided
<1>2. PICK hs \in HalfSpreads(returns) : qd \in QuotesAround(mid2(b), hs, i)
  BY <1>1 DEF decide
<1> DEFINE bid == mid2(b) * (10000 - hs - SkewBpsPerUnit * i)
           ask == mid2(b) * (10000 + hs - SkewBpsPerUnit * i)
<1>3. qd \in RoundedQuotes(bid, ask, i)
  <2>1. ~(bid <= 0 \/ ask <= bid)
    BY <1>2 DEF QuotesAround
  <2> QED BY <1>2, <2>1 DEF QuotesAround
<1> HIDE DEF bid, ask, i
<1>4. PICK pb \in from_double(bid, 20000), pa \in from_double(ask, 20000),
           sb \in TaperedSizes(i), sa \in TaperedSizes(-i) :
           qd = [price |-> [s \in Sides |-> IF s = "Buy" THEN pb ELSE pa],
                 size  |-> [s \in Sides |-> IF s = "Buy" THEN sb ELSE sa]]
  BY <1>3 DEF RoundedQuotes
<1>5. /\ qd.price["Buy"] = pb /\ qd.price["Sell"] = pa
      /\ qd.size["Buy"] = sb /\ qd.size["Sell"] = sa
  BY <1>4 DEF Sides
<1>6. /\ qd.size["Buy"] \in TaperedSizes(i) /\ qd.size["Sell"] \in TaperedSizes(-i)
      /\ qd.price["Buy"] \in from_double(bid, 20000)
      /\ qd.price["Sell"] \in from_double(ask, 20000)
  BY <1>4, <1>5
<1>7. Decided(qd, mid2(b), hs, i)
  BY <1>6 DEF Decided, bid, ask
<1> QED BY <1>1, <1>2, <1>7 DEF i

(* A quotient truncated from above stays under the quotient.               *)
LEMMA TruncatedBound ==
    ASSUME NEW num \in Nat, NEW den \in Nat, den > 0, NEW x \in Truncated(num, den)
    PROVE  x \in Nat /\ x <= num \div den
<1>1. x \in Nat
  BY TruncatedType
<1>2. num \div den \in Int
  OBVIOUS
<1> QED BY <1>1, <1>2 DEF Truncated

(* A quotient of a product is bounded by the other factor.                 *)
LEMMA QuotientBound ==
    ASSUME NEW a \in Nat, NEW n \in Nat, n > 0, NEW k \in Nat, a <= n * k
    PROVE  a \div n <= k
<1> DEFINE q == a \div n
           r == a % n
<1>1. q \in Nat /\ r \in Nat /\ a = n * q + r
  OBVIOUS
<1> HIDE DEF q, r
<1>2. n * q <= n * k
  BY <1>1
<1>3. ~(q >= k + 1)
  <2> SUFFICES ASSUME q >= k + 1 PROVE FALSE
    OBVIOUS
  <2>1. n * q >= n * (k + 1)
    BY <1>1
  <2>2. n * (k + 1) = n * k + n
    OBVIOUS
  <2> QED BY <1>1, <1>2, <2>1, <2>2
<1> QED BY <1>1, <1>3 DEF q

(* The taper leaves room for the size it gives: bought in full it takes    *)
(* the inventory to the limit at most.                                     *)
LEMMA TaperBound ==
    ASSUME QuoteSize <= MaxInventory, NEW i \in Int, i <= MaxInventory,
           NEW x \in TaperedSizes(i)
    PROVE  x \in Nat /\ i + x <= MaxInventory
<1>0. MaxInventory \in Nat /\ QuoteSize \in Nat
  BY StrategyAssumption
<1>1. CASE i > 0
  <2> DEFINE room == MaxInventory - i
             num == QuoteSize * room
  <2>1. room \in Nat /\ MaxInventory > 0
    BY <1>0, <1>1
  <2> HIDE DEF room
  <2>2. num \in Nat /\ num <= MaxInventory * room
    BY <1>0, <2>1
  <2>3. x \in Truncated(num, MaxInventory)
    BY <1>1 DEF TaperedSizes, room
  <2> HIDE DEF num
  <2>4. x \in Nat /\ x <= num \div MaxInventory /\ num \div MaxInventory <= room
    BY <1>0, <2>1, <2>2, <2>3, TruncatedBound, QuotientBound
  <2>5. num \div MaxInventory \in Int
    BY <1>0, <2>1, <2>2
  <2> QED BY <1>0, <2>1, <2>4, <2>5 DEF room
<1>2. CASE ~(i > 0)
  BY <1>0, <1>2 DEF TaperedSizes
<1> QED BY <1>1, <1>2

(* Rounded to the nearest tick, the two prices stay further apart than the *)
(* threshold.                                                              *)
LEMMA PriceDistance ==
    ASSUME NEW bid \in Int, NEW ask \in Int, NEW threshold \in Nat,
           ask - bid > 20000 * (1 + threshold),
           NEW pb \in from_double(bid, 20000), NEW pa \in from_double(ask, 20000)
    PROVE  pb \in Int /\ pa \in Int /\ pa - pb > threshold
<1>1. pb \in Int /\ 2 * (pb * 20000 - bid) <= 20000
  BY DEF from_double
<1>2. pa \in Int /\ 2 * (ask - pa * 20000) <= 20000
  BY DEF from_double
<1> QED BY <1>1, <1>2

-----------------------------------------------------------------------------
(* The strategy's own inventory limit *)

(* A requote leaves only orders that fit into the room the taper gives.    *)
LEMMA RequoteWithin ==
    ASSUME QuoteSize <= MaxInventory,
           NEW b \in Book, NEW returns, NEW now, NEW d, NEW pf \in Account,
           DeskOK(d, pf.position),
           pf.position \in (-MaxInventory) .. MaxInventory,
           NEW qd \in decide(b, returns, pf.position, now), NEW threshold,
           NEW reference2, NEW stale, NEW ties
    PROVE  Within(MaxInventory,
                  requote(d, qd, threshold, reference2, pf, stale, ties).open_orders,
                  pf.position)
<1> DEFINE e == requote(d, qd, threshold, reference2, pf, stale, ties)
           n == pf.position
<1>0. MaxInventory \in Nat /\ n \in Int /\ -MaxInventory <= n /\ n <= MaxInventory
  BY StrategyAssumption DEF Account
<1>1. qd \in QuoteDecision
  BY <1>0, DecideType
<1>2. DeskOK(e, n)
  BY <1>1, RequoteOK
<1>3. \A o \in e.open_orders : qd.size[o.side] > 0 /\ o.quantity = qd.size[o.side]
  <2>1. \A o \in e.open_orders :
           /\ qd.size[o.side] > 0
           /\ Fresh(o, qd) \/ (o \in d.open_orders /\ Kept(o, qd, threshold))
    BY <1>1, RequoteOrders
  <2> QED BY <2>1 DEF Fresh, Kept
<1> HIDE DEF e
<1>4. ASSUME NEW o \in e.open_orders
      PROVE  resulting_position(o.side, remaining_quantity(o), n)
                \in (-MaxInventory) .. MaxInventory
  <2>1. /\ o.side \in {"Buy", "Sell"} /\ o.quantity \in Nat /\ o.filled \in Nat
        /\ o.filled < o.quantity
    BY <1>2 DEF DeskOK, Tracked, Desk, Order, Sides
  <2>2. qd # NoQuotes
    BY <1>3, <2>1 DEF NoQuotes, Sides
  <2>3. clamped_inventory(n) = n
    BY <1>0 DEF clamped_inventory
  <2>4. qd.size["Buy"] \in TaperedSizes(n) /\ qd.size["Sell"] \in TaperedSizes(-n)
    BY <1>0, <2>2, <2>3, DecideShape DEF Decided
  <2>5. /\ qd.size["Buy"] \in Nat /\ n + qd.size["Buy"] <= MaxInventory
        /\ qd.size["Sell"] \in Nat /\ -n + qd.size["Sell"] <= MaxInventory
    BY <1>0, <2>4, TaperBound
  <2> HIDE DEF n
  <2>6. CASE o.side = "Buy"
    BY <1>0, <1>3, <2>1, <2>5, <2>6 DEF resulting_position, remaining_quantity
  <2>7. CASE o.side = "Sell"
    BY <1>0, <1>3, <2>1, <2>5, <2>7 DEF resulting_position, remaining_quantity
  <2> QED BY <2>1, <2>6, <2>7
<1> QED BY <1>0, <1>4 DEF Within, e

(* What makes the limit inductive: it holds for the position and for the   *)
(* position after any one complete fill of what rests.                     *)
SkewInv == QuoteSize <= MaxInventory =>
    Within(MaxInventory, desk.open_orders, portfolio.position)

(* With quote_size <= max_inventory_for_skew the position never passes the *)
(* strategy's own limit, for every sequence of events, fills and requotes: *)
(* a resting quote sized from an older inventory is never so old that its  *)
(* fill could break it.  The risk limits play no part in it.               *)
THEOREM PipelineWithinSkewLimit == Spec => []InventoryWithinSkewLimit
<1>0. MaxInventory \in Nat
  BY StrategyAssumption
<1>1. Init => SkewInv
  BY <1>0 DEF Init, SkewInv, Within
<1>2. IInv /\ SkewInv /\ [Next]_vars => SkewInv'
  <2> SUFFICES ASSUME IInv, SkewInv, [Next]_vars, QuoteSize <= MaxInventory
               PROVE  Within(MaxInventory, desk'.open_orders, portfolio'.position)
    BY DEF SkewInv
  <2>1. /\ DeskOK(desk, portfolio.position) /\ portfolio \in Account
        /\ portfolio.position \in Int
        /\ Within(MaxInventory, desk.open_orders, portfolio.position)
    BY DEF IInv, TypeOK, Account, SkewInv
  <2>2. Within(MaxInventory, cancel_resting_quotes(desk).open_orders, portfolio.position)
    BY <2>1, CancelAllOK DEF Within
  <2>3. ASSUME NEW ev \in MarketEvent, Accept(ev)
        PROVE  Within(MaxInventory, desk'.open_orders, portfolio'.position)
    <3>1. PICK held, f : Settled(held, f, ev)
      BY <2>3, AcceptChain
    <3> DEFINE d == apply_reports(held, f)
    <3>2. /\ held \in Desk /\ Tracked(held)
          /\ \A o \in held.open_orders : f[o] \in 0 .. remaining_quantity(o)
          /\ Within(MaxInventory, held.open_orders, portfolio.position)
      BY <2>1, <2>2, <3>1 DEF Settled, DeskOK
    <3>3. book' \in Book
      BY <2>3, AcceptIInv DEF IInv, TypeOK
    <3>4. /\ portfolio' \in Account
          /\ portfolio'.position = portfolio.position
                                    + Filled(held.open_orders, f, "Buy")
                                    - Filled(held.open_orders, f, "Sell")
      BY <2>1, <3>1, <3>3, SettledAccount
    <3>5. d.open_orders = after_fills(held.open_orders, f)
      BY <3>2, ReportFields
    <3>6. Within(MaxInventory, d.open_orders, portfolio'.position)
      BY <1>0, <2>1, <3>2, <3>4, <3>5, ReportsWithin
    <3>7. DeskOK(d, portfolio'.position)
      BY <3>1 DEF Settled
    <3> HIDE DEF d
    <3>8. CASE desk' = cancel_resting_quotes(d)
      BY <3>6, <3>7, <3>8, CancelAllOK DEF Within
    <3>9. CASE desk' = d
      BY <3>6, <3>9
    <3>10. CASE \E qd \in decide(book', micro'.returns, portfolio'.position, ev.timestamp),
                   threshold \in Thresholds(mid2(book')),
                   ties \in Ties(mid2(book'), portfolio'.total_pnl2) :
                   desk' = requote(d, qd, threshold, mid2(book'), portfolio', FALSE, ties)
      <4>1. portfolio'.position \in (-MaxInventory) .. MaxInventory
        BY <3>6 DEF Within
      <4> QED BY <3>3, <3>4, <3>7, <3>10, <4>1, RequoteWithin
    <3> QED BY <3>1, <3>8, <3>9, <3>10 DEF Settled, d
  <2>4. ASSUME NEW now \in Timestamps, OnClock(now)
        PROVE  Within(MaxInventory, desk'.open_orders, portfolio'.position)
    BY <2>2, <2>4 DEF OnClock
  <2>5. CASE UNCHANGED vars
    BY <2>1, <2>5 DEF vars
  <2> QED BY <2>3, <2>4, <2>5 DEF Next, process, Drop
<1>3. SkewInv => InventoryWithinSkewLimit
  BY DEF SkewInv, Within, InventoryWithinSkewLimit
<1> QED BY <1>1, <1>2, <1>3, Invariance, PTL DEF Spec

-----------------------------------------------------------------------------
(* The own bid and the own ask *)

(* At every mid price the feed can show, the configured half spread, after *)
(* rounding to ticks, is wider than the move a resting quote may lag       *)
(* behind.  The configuration does not check it.                           *)
SpreadAboveThreshold ==
    \A p, q \in Prices :
        (p + q) * HalfSpreadBps
           > 10000 * (1 + ((p + q) * RequoteThresholdBps) \div 20000)

Apart(open) ==
    \A o, p \in open : o.side = "Buy" /\ p.side = "Sell" => o.price < p.price

(* The mid of a two-sided book is that of two prices of the feed.          *)
LEMMA Mid2Prices ==
    ASSUME NEW b \in Book, TwoSided(b)
    PROVE  \E p, q \in Prices : mid2(b) = p + q
<1>1. \A s \in Sides : Levels(b, s) \in SUBSET (1 .. MaxPrice) /\ Levels(b, s) \subseteq Prices
  BY FeedAssumption DEF Levels
<1>2. Levels(b, "Buy") # {} /\ Levels(b, "Sell") # {}
  BY DEF TwoSided, Sides
<1>3. best_bid(b) \in Prices
  <2>1. Levels(b, "Buy") \in SUBSET (1 .. MaxPrice) /\ MaxPrice \in Nat
    BY <1>1, FeedAssumption DEF Sides
  <2>2. Max(Levels(b, "Buy")) \in Levels(b, "Buy")
    BY <1>2, <2>1, MaxOfNaturals
  <2> QED BY <1>1, <2>2 DEF best_bid, Sides
<1>4. best_ask(b) \in Prices
  <2>1. Levels(b, "Sell") \in SUBSET Nat
    BY <1>1 DEF Sides
  <2>2. Min(Levels(b, "Sell")) \in Levels(b, "Sell")
    BY <1>2, <2>1, MinOfNaturals
  <2> QED BY <1>1, <2>2 DEF best_ask, Sides
<1> QED BY <1>3, <1>4 DEF mid2

(* A decision to quote puts the ask more than the threshold above the bid. *)
LEMMA DecideApart ==
    ASSUME SpreadAboveThreshold,
           NEW b \in Book, NEW returns, NEW inventory \in Int, NEW now,
           NEW qd \in decide(b, returns, inventory, now), qd # NoQuotes,
           NEW threshold \in Thresholds(mid2(b))
    PROVE  /\ threshold \in Nat
           /\ qd.price["Buy"] \in Int /\ qd.price["Sell"] \in Int
           /\ qd.price["Sell"] - qd.price["Buy"] > threshold
<1> DEFINE m == mid2(b)
           i == clamped_inventory(inventory)
           skew == SkewBpsPerUnit * i
           limit == (m * RequoteThresholdBps) \div 20000
<1>1. TwoSided(b) /\ m \in Nat
  BY DecideShape, Mid2Type
<1>2. PICK hs \in HalfSpreads(returns) : Decided(qd, m, hs, i)
  BY DecideShape
<1>3. hs \in Nat /\ HalfSpreadBps \in Nat /\ hs >= HalfSpreadBps
  BY StrategyAssumption DEF HalfSpreads
<1>4. skew \in Int
  BY StrategyAssumption DEF clamped_inventory
<1>5. m * HalfSpreadBps > 10000 * (1 + limit)
  BY <1>1, Mid2Prices DEF SpreadAboveThreshold
<1> HIDE DEF m
<1>6. threshold \in Nat /\ threshold <= limit /\ limit \in Nat
  <2>1. m * RequoteThresholdBps \in Nat
    BY <1>1, PipelineAssumption
  <2>2. threshold \in Truncated(m * RequoteThresholdBps, 20000)
    BY DEF Thresholds, m
  <2> DEFINE num == m * RequoteThresholdBps
  <2> HIDE DEF num
  <2>3. threshold \in Nat /\ threshold <= num \div 20000
    BY <2>1, <2>2, TruncatedBound DEF num
  <2>4. num \div 20000 \in Nat
    BY <2>1 DEF num
  <2> QED BY <2>3, <2>4 DEF num
<1> HIDE DEF limit, skew
<1>7. m * hs >= m * HalfSpreadBps
  BY <1>1, <1>3
<1>8. m * hs > 10000 * (1 + threshold)
  <2> DEFINE x == m * hs
             y == m * HalfSpreadBps
  <2>1. x \in Int /\ y \in Int
    BY <1>1, <1>3
  <2>2. x >= y /\ y > 10000 * (1 + limit)
    BY <1>5, <1>7
  <2> HIDE DEF x, y
  <2>3. x > 10000 * (1 + threshold)
    BY <1>6, <2>1, <2>2
  <2> QED BY <2>3 DEF x
<1> DEFINE bid == m * (10000 - hs - skew)
           ask == m * (10000 + hs - skew)
<1>9. qd.price["Buy"] \in from_double(bid, 20000) /\ qd.price["Sell"] \in from_double(ask, 20000)
  <2> HIDE DEF i
  <2> QED BY <1>2 DEF Decided, skew
<1>10. bid \in Int /\ ask \in Int /\ ask - bid > 20000 * (1 + threshold)
  <2> DEFINE x == m * (10000 - skew)
             y == m * hs
  <2>1. bid = x - y /\ ask = x + y /\ x \in Int /\ y \in Int
    BY <1>1, <1>3, <1>4
  <2>2. y > 10000 * (1 + threshold)
    BY <1>8
  <2> HIDE DEF bid, ask, x, y
  <2> QED BY <1>6, <2>1, <2>2
<1> HIDE DEF bid, ask
<1> QED BY <1>6, <1>9, <1>10, PriceDistance

(* A requote keeps the own quotes apart: of two that were there already    *)
(* nothing changed, and a fresh one is further from the decided price of   *)
(* the other side than a kept quote may lag.                               *)
LEMMA RequoteApart ==
    ASSUME SpreadAboveThreshold,
           NEW b \in Book, NEW returns, NEW now, NEW d, NEW pf \in Account,
           DeskOK(d, pf.position), Apart(d.open_orders),
           NEW qd \in decide(b, returns, pf.position, now),
           NEW threshold \in Thresholds(mid2(b)), NEW reference2, NEW stale, NEW ties
    PROVE  Apart(requote(d, qd, threshold, reference2, pf, stale, ties).open_orders)
<1> DEFINE e == requote(d, qd, threshold, reference2, pf, stale, ties)
<1>0. pf.position \in Int
  BY DEF Account
<1>1. qd \in QuoteDecision
  BY <1>0, DecideType
<1>2. DeskOK(e, pf.position)
  BY <1>1, RequoteOK
<1>3. \A o \in e.open_orders :
         /\ qd.size[o.side] > 0
         /\ Fresh(o, qd) \/ (o \in d.open_orders /\ Kept(o, qd, threshold))
  BY <1>1, RequoteOrders
<1>4. \A o \in e.open_orders : o.price \in Int
  BY <1>2 DEF DeskOK, Desk, Order
<1> HIDE DEF e
<1>5. ASSUME NEW o \in e.open_orders, NEW p \in e.open_orders,
             o.side = "Buy", p.side = "Sell"
      PROVE  o.price < p.price
  <2>1. qd # NoQuotes
    BY <1>3, <1>5 DEF NoQuotes, Sides
  <2>2. /\ threshold \in Nat
        /\ qd.price["Buy"] \in Int /\ qd.price["Sell"] \in Int
        /\ qd.price["Sell"] - qd.price["Buy"] > threshold
    BY <1>0, <2>1, DecideApart
  <2>3. CASE o \in d.open_orders /\ p \in d.open_orders
    BY <1>5, <2>3 DEF Apart
  <2>4. CASE Fresh(o, qd)
    BY <1>3, <1>4, <1>5, <2>2, <2>4 DEF Fresh, Kept
  <2>5. CASE Fresh(p, qd)
    BY <1>3, <1>4, <1>5, <2>2, <2>5 DEF Fresh, Kept
  <2> QED BY <1>3, <2>3, <2>4, <2>5
<1> QED BY <1>5 DEF Apart, e

(* When the half spread is wider than the requote threshold the own bid    *)
(* rests below the own ask in every reachable state, through requotes that *)
(* replace one side only.                                                  *)
THEOREM PipelineQuotesNeverCross ==
    ASSUME SpreadAboveThreshold
    PROVE  Spec => []OwnQuotesNeverCross
<1>1. Init => OwnQuotesNeverCross
  BY DEF Init, OwnQuotesNeverCross
<1>2. IInv /\ OwnQuotesNeverCross /\ [Next]_vars => OwnQuotesNeverCross'
  <2> SUFFICES ASSUME IInv, OwnQuotesNeverCross, [Next]_vars
               PROVE  Apart(desk'.open_orders)
    BY DEF OwnQuotesNeverCross, Apart
  <2>1. /\ DeskOK(desk, portfolio.position) /\ portfolio \in Account
        /\ Apart(desk.open_orders)
    BY DEF IInv, TypeOK, OwnQuotesNeverCross, Apart
  <2>2. Apart(cancel_resting_quotes(desk).open_orders)
    BY <2>1, CancelAllOK DEF Apart
  <2>3. ASSUME NEW ev \in MarketEvent, Accept(ev)
        PROVE  Apart(desk'.open_orders)
    <3>1. PICK held, f : Settled(held, f, ev)
      BY <2>3, AcceptChain
    <3> DEFINE d == apply_reports(held, f)
    <3>2. /\ held \in Desk /\ Tracked(held)
          /\ \A o \in held.open_orders : f[o] \in 0 .. remaining_quantity(o)
          /\ Apart(held.open_orders)
      BY <2>1, <2>2, <3>1 DEF Settled, DeskOK
    <3>3. book' \in Book
      BY <2>3, AcceptIInv DEF IInv, TypeOK
    <3>4. portfolio' \in Account
      BY <2>1, <3>1, <3>3, SettledAccount
    <3>5. d.open_orders = after_fills(held.open_orders, f)
      BY <3>2, ReportFields
    <3>6. Apart(d.open_orders)
      <4>1. \A o \in d.open_orders :
               \E x \in held.open_orders : o.side = x.side /\ o.price = x.price
        <5> SUFFICES ASSUME NEW x \in held.open_orders
                     PROVE  LET o == [x EXCEPT !.filled = @ + f[x]]
                            IN  o.side = x.side /\ o.price = x.price
          BY <3>5 DEF after_fills
        <5> QED BY <3>2 DEF Desk, Order
      <4> QED BY <3>2, <4>1 DEF Apart
    <3>7. DeskOK(d, portfolio'.position)
      BY <3>1 DEF Settled
    <3> HIDE DEF d
    <3>8. CASE desk' = cancel_resting_quotes(d)
      BY <3>7, <3>8, CancelAllOK DEF Apart
    <3>9. CASE desk' = d
      BY <3>6, <3>9
    <3>10. CASE \E qd \in decide(book', micro'.returns, portfolio'.position, ev.timestamp),
                   threshold \in Thresholds(mid2(book')),
                   ties \in Ties(mid2(book'), portfolio'.total_pnl2) :
                   desk' = requote(d, qd, threshold, mid2(book'), portfolio', FALSE, ties)
      BY <3>3, <3>4, <3>6, <3>7, <3>10, RequoteApart
    <3> QED BY <3>1, <3>8, <3>9, <3>10 DEF Settled, d
  <2>4. ASSUME NEW now \in Timestamps, OnClock(now)
        PROVE  Apart(desk'.open_orders)
    BY <2>2, <2>4 DEF OnClock
  <2>5. CASE UNCHANGED vars
    BY <2>1, <2>5 DEF vars
  <2> QED BY <2>3, <2>4, <2>5 DEF Next, process, Drop
<1> QED BY <1>1, <1>2, Invariance, PTL DEF Spec
=============================================================================
