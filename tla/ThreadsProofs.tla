--------------------------- MODULE ThreadsProofs ---------------------------
(***************************************************************************)
(* Proofs about the two threads of live mode: the ring between them and    *)
(* the loop that drains it.                                                *)
(*                                                                         *)
(* SpscRingBuffer, for every capacity, every set of values and every       *)
(* number of pushes: the code decides from two wrapped-around and possibly *)
(* stale indices; the inductive invariant relates each index to the number *)
(* of stores it stands for and bounds the distance between those numbers,  *)
(* so that equal indices mean equal numbers.                               *)
(*                                                                         *)
(* LiveLoop, for every capacity of the ring, every size of message, every  *)
(* limit on staleness and every difference of the clocks.                  *)
(***************************************************************************)
EXTENDS SpscRingBuffer, LiveLoop, DataTheorems, SequenceTheorems

-----------------------------------------------------------------------------
(* Arithmetic modulo C *)

(* Division with remainder by a positive C.                                *)
LEMMA DivMod ==
    ASSUME NEW C \in Nat, C > 1, NEW a \in Nat
    PROVE  /\ a \div C \in Int
           /\ a % C \in 0 .. (C - 1)
           /\ a = C * (a \div C) + (a % C)
OBVIOUS

(* The only multiple of C strictly between -C and C is 0.                  *)
LEMMA SmallMultiple ==
    ASSUME NEW C \in Nat, C > 1, NEW k \in Int, C * k < C, C * k > -C
    PROVE  k = 0
<1>1. CASE k >= 1
  BY <1>1
<1>2. CASE k <= -1
  BY <1>2
<1> QED BY <1>1, <1>2

(* Numbers less than C apart with the same index are the same number.      *)
LEMMA ModUnique ==
    ASSUME NEW C \in Nat, C > 1, NEW a \in Nat, NEW b \in Nat,
           a <= b, b - a < C, a % C = b % C
    PROVE  a = b
<1> DEFINE p == a \div C
           q == b \div C
<1>1. /\ a = C * p + (a % C) /\ b = C * q + (b % C)
      /\ p \in Int /\ q \in Int /\ a % C \in Int
  BY DivMod
<1> HIDE DEF p, q
<1>2. b - a = C * (q - p)
  BY <1>1
<1>3. q - p = 0
  BY <1>1, <1>2, SmallMultiple
<1> QED BY <1>1, <1>2, <1>3

(* Different numbers less than C apart have different indices.             *)
LEMMA ModDistinct ==
    \A C, a, b \in Nat : C > 1 /\ a < b /\ b - a < C => a % C # b % C
<1> SUFFICES ASSUME NEW C \in Nat, NEW a \in Nat, NEW b \in Nat,
                    C > 1, a < b, b - a < C, a % C = b % C
             PROVE  FALSE
  OBVIOUS
<1>1. a <= b
  OBVIOUS
<1>2. a = b
  BY <1>1, ModUnique
<1> QED BY <1>2

(* The remainder of a division is determined by its defining equation.     *)
LEMMA ModOf ==
    ASSUME NEW C \in Nat, C > 1, NEW a \in Nat, NEW q \in Int,
           NEW r \in 0 .. (C - 1), a = C * q + r
    PROVE  a % C = r
<1> DEFINE p == a \div C
           s == a % C
<1>1. a = C * p + s /\ p \in Int /\ s \in 0 .. (C - 1)
  BY DivMod
<1> HIDE DEF p, s
<1>2. C * (p - q) = r - s
  BY <1>1
<1>3. p - q = 0
  BY <1>1, <1>2, SmallMultiple
<1> QED BY <1>1, <1>2, <1>3 DEF s

(* Stepping an index is stepping the number it stands for.                 *)
LEMMA ModSucc ==
    ASSUME NEW C \in Nat, C > 1, NEW a \in Nat
    PROVE  ((a % C) + 1) % C = (a + 1) % C
<1> DEFINE p == a \div C
           s == a % C
<1>1. a = C * p + s /\ p \in Int /\ s \in 0 .. (C - 1)
  BY DivMod
<1> HIDE DEF p, s
<1>2. CASE s + 1 < C
  <2>1. (s + 1) % C = s + 1
    BY <1>1, <1>2
  <2>2. a + 1 = C * p + (s + 1) /\ s + 1 \in 0 .. (C - 1) /\ a + 1 \in Nat
    BY <1>1, <1>2
  <2>3. (a + 1) % C = s + 1
    BY <2>2, <1>1, ModOf
  <2> QED BY <2>1, <2>3 DEF s
<1>3. CASE s + 1 = C
  <2>1. (s + 1) % C = 0
    BY <1>1, <1>3
  <2>2. a + 1 = C * (p + 1) + 0 /\ p + 1 \in Int /\ a + 1 \in Nat /\ 0 \in 0 .. (C - 1)
    BY <1>1, <1>3
  <2>3. (a + 1) % C = 0
    BY <2>2, ModOf
  <2> QED BY <2>1, <2>3 DEF s
<1> QED BY <1>1, <1>2, <1>3

(* Going once around comes back to the same index.                         *)
LEMMA ModWrap ==
    ASSUME NEW C \in Nat, C > 1, NEW a \in Nat
    PROVE  (a + C) % C = a % C
<1> DEFINE p == a \div C
           s == a % C
<1>1. a = C * p + s /\ p \in Int /\ s \in 0 .. (C - 1)
  BY DivMod
<1> HIDE DEF p, s
<1>2. a + C = C * (p + 1) + s /\ p + 1 \in Int /\ a + C \in Nat
  BY <1>1
<1>3. (a + C) % C = s
  BY <1>1, <1>2, ModOf
<1> QED BY <1>3 DEF s

-----------------------------------------------------------------------------
(* The inductive invariant *)

(* Each index is the number of the store it holds, modulo Capacity.        *)
Indices ==
    /\ head = pushed % Capacity
    /\ tail = popped % Capacity
    /\ cached_tail = seen_tail % Capacity
    /\ cached_head = seen_head % Capacity

(* How far the threads and their views of each other can be apart.         *)
Distances ==
    /\ seen_tail <= popped
    /\ popped <= seen_head
    /\ seen_head <= pushed
    /\ pushed <= seen_tail + Capacity - 1
    /\ producer.at \in {"write", "publish"} => pushed + 1 <= seen_tail + Capacity - 1
    /\ consumer.at \in {"read", "release"} => popped < seen_head

(* What the slots and the threads' own values hold.                        *)
Contents ==
    /\ \A i \in (popped + 1) .. pushed : buffer[(i - 1) % Capacity] = sent[i]
    /\ producer.at = "publish" => buffer[head] = producer.value
    /\ consumer.at = "release" => consumer.value = sent[popped + 1]

IInv == TypeOK /\ Indices /\ Distances /\ Contents

(* Both counts of elements are natural numbers.                            *)
LEMMA LenNat ==
    ASSUME TypeOK
    PROVE  pushed \in Nat /\ popped \in Nat
BY DEF TypeOK, pushed, popped

(* The invariant holds initially.                                          *)
LEMMA InitIInv == Init => IInv
<1> SUFFICES ASSUME Init PROVE IInv
  OBVIOUS
<1>1. pushed = 0 /\ popped = 0
  BY DEF Init, pushed, popped
<1>2. 0 % Capacity = 0 /\ 0 \in Slots
  BY RingAssumption DEF Slots
<1>3. TypeOK
  BY <1>2 DEF Init, TypeOK
<1>4. Indices
  BY <1>1, <1>2 DEF Init, Indices
<1>5. Distances
  BY <1>1, RingAssumption DEF Init, Distances
<1>6. Contents
  BY <1>1 DEF Init, Contents
<1> QED BY <1>3, <1>4, <1>5, <1>6 DEF IInv

(* Every step keeps the types.                                             *)
LEMMA NextTypeOK == IInv /\ [Next]_vars => TypeOK'
<1> SUFFICES ASSUME IInv, [Next]_vars PROVE TypeOK'
  OBVIOUS
<1> USE DEF IInv
<1>0. \A i \in Slots : next(i) \in Slots
  BY RingAssumption, DivMod DEF next, Slots
<1>1. ASSUME NEW v \in Values, PushBegin(v) PROVE TypeOK'
  BY <1>1 DEF PushBegin, TypeOK, consumerVars
<1>2. ASSUME NEW k \in seen_tail .. popped, PushRefresh(k) PROVE TypeOK'
  <2>1. k \in Nat /\ k % Capacity \in Slots
    BY RingAssumption, DivMod, LenNat DEF Slots, TypeOK
  <2> QED BY <1>2, <2>1 DEF PushRefresh, TypeOK, consumerVars
<1>3. CASE PushWrite
  BY <1>3 DEF PushWrite, TypeOK, consumerVars
<1>4. CASE PushPublish
  BY <1>0, <1>4 DEF PushPublish, TypeOK, consumerVars
<1>5. CASE PopBegin
  BY <1>5 DEF PopBegin, TypeOK, producerVars
<1>6. ASSUME NEW k \in seen_head .. pushed, PopRefresh(k) PROVE TypeOK'
  <2>1. k \in Nat /\ k % Capacity \in Slots
    BY RingAssumption, DivMod, LenNat DEF Slots, TypeOK
  <2> QED BY <1>6, <2>1 DEF PopRefresh, TypeOK, producerVars
<1>7. CASE PopRead
  BY <1>7 DEF PopRead, TypeOK, producerVars
<1>8. CASE PopRelease
  <2>1. tail' \in Slots
    BY <1>0, <1>8 DEF PopRelease, TypeOK
  <2>2. received' \in Seq(Values)
    BY <1>8 DEF PopRelease, TypeOK
  <2>3. consumer' \in [at : {"idle", "refresh", "read", "release"}, value : Values]
    BY <1>8 DEF PopRelease, TypeOK
  <2> QED BY <1>8, <2>1, <2>2, <2>3 DEF PopRelease, TypeOK, producerVars
<1>9. CASE UNCHANGED vars
  BY <1>9 DEF TypeOK, vars, producerVars, consumerVars
<1> QED BY <1>1, <1>2, <1>3, <1>4, <1>5, <1>6, <1>7, <1>8, <1>9
        DEF Next, Producer, Consumer

(* Publishing appends to the pushed values.                                *)
LEMMA PublishCounts ==
    ASSUME TypeOK, PushPublish
    PROVE  /\ pushed' = pushed + 1 /\ popped' = popped
           /\ sent'[pushed + 1] = producer.value
           /\ \A i \in 1 .. pushed : sent'[i] = sent[i]
BY DEF TypeOK, PushPublish, pushed, popped, consumerVars

(* Releasing appends to the popped values.                                 *)
LEMMA ReleaseCounts ==
    ASSUME TypeOK, PopRelease
    PROVE  /\ popped' = popped + 1 /\ pushed' = pushed
           /\ sent' = sent
BY DEF TypeOK, PopRelease, pushed, popped, producerVars

(* Every step keeps each index equal to its count modulo the capacity.     *)
LEMMA NextIndices == IInv /\ [Next]_vars => Indices'
<1> SUFFICES ASSUME IInv, [Next]_vars PROVE Indices'
  OBVIOUS
<1> USE DEF IInv
<1>0. pushed \in Nat /\ popped \in Nat
  BY LenNat
<1>1. ASSUME NEW v \in Values, PushBegin(v) PROVE Indices'
  BY <1>1 DEF PushBegin, Indices, consumerVars, pushed, popped
<1>2. ASSUME NEW k \in seen_tail .. popped, PushRefresh(k) PROVE Indices'
  BY <1>2 DEF PushRefresh, Indices, consumerVars, pushed, popped
<1>3. CASE PushWrite
  BY <1>3 DEF PushWrite, Indices, consumerVars, pushed, popped
<1>4. CASE PushPublish
  <2>1. head' = (pushed + 1) % Capacity
    BY <1>0, <1>4, ModSucc, RingAssumption DEF PushPublish, Indices, next
  <2> QED BY <1>4, <2>1, PublishCounts DEF PushPublish, Indices, consumerVars
<1>5. CASE PopBegin
  BY <1>5 DEF PopBegin, Indices, producerVars, pushed, popped
<1>6. ASSUME NEW k \in seen_head .. pushed, PopRefresh(k) PROVE Indices'
  BY <1>6 DEF PopRefresh, Indices, producerVars, pushed, popped
<1>7. CASE PopRead
  BY <1>7 DEF PopRead, Indices, producerVars, pushed, popped
<1>8. CASE PopRelease
  <2>1. tail' = (popped + 1) % Capacity
    BY <1>0, <1>8, ModSucc, RingAssumption DEF PopRelease, Indices, next
  <2> QED BY <1>8, <2>1, ReleaseCounts DEF PopRelease, Indices, producerVars
<1>9. CASE UNCHANGED vars
  BY <1>9 DEF Indices, vars, producerVars, consumerVars, pushed, popped
<1> QED BY <1>1, <1>2, <1>3, <1>4, <1>5, <1>6, <1>7, <1>8, <1>9
        DEF Next, Producer, Consumer

(* An index comparison that finds room proves that there is room: if the   *)
(* next write index differs from the k-th tail index, k being at most      *)
(* Capacity - 1 stores behind, the slot is free.                           *)
LEMMA RoomSeen ==
    ASSUME TypeOK, Indices, NEW k \in Nat, pushed <= k + Capacity - 1,
           next(head) # k % Capacity
    PROVE  pushed + 1 <= k + Capacity - 1
<1>0. pushed \in Nat
  BY LenNat
<1>1. next(head) = (pushed + 1) % Capacity
  BY <1>0, ModSucc, RingAssumption DEF Indices, next
<1>2. pushed + 1 # k + Capacity
  BY <1>1, ModWrap, RingAssumption
<1> QED BY <1>0, <1>2, RingAssumption

(* Every step keeps the counts within the capacity of each other.          *)
LEMMA NextDistances == IInv /\ [Next]_vars => Distances'
<1> SUFFICES ASSUME IInv, [Next]_vars PROVE Distances'
  OBVIOUS
<1> USE DEF IInv
<1>0. /\ pushed \in Nat /\ popped \in Nat /\ seen_tail \in Nat /\ seen_head \in Nat
      /\ Capacity \in Nat /\ Capacity > 1
  BY LenNat, RingAssumption DEF TypeOK
<1>1. ASSUME NEW v \in Values, PushBegin(v) PROVE Distances'
  <2>1. producer'.at = "write" => pushed + 1 <= seen_tail + Capacity - 1
    BY <1>0, <1>1, RoomSeen DEF PushBegin, Distances, Indices
  <2>2. producer'.at # "publish"
    BY <1>1 DEF PushBegin
  <2> QED BY <1>1, <2>1, <2>2 DEF PushBegin, Distances, consumerVars, pushed, popped
<1>2. ASSUME NEW k \in seen_tail .. popped, PushRefresh(k) PROVE Distances'
  <2>1. k \in Nat /\ seen_tail <= k /\ k <= popped
    BY <1>0
  <2>2. pushed <= k + Capacity - 1
    BY <1>0, <2>1 DEF Distances
  <2>3. producer'.at = "write" => pushed + 1 <= k + Capacity - 1
    BY <1>2, <2>1, <2>2, RoomSeen DEF PushRefresh, TypeOK
  <2>4. producer'.at # "publish"
    BY <1>2 DEF PushRefresh, TypeOK
  <2> QED BY <1>0, <1>2, <2>1, <2>2, <2>3, <2>4
          DEF PushRefresh, Distances, consumerVars, pushed, popped
<1>3. CASE PushWrite
  BY <1>3 DEF PushWrite, Distances, consumerVars, pushed, popped
<1>4. CASE PushPublish
  <2>1. producer'.at = "idle"
    BY <1>4 DEF PushPublish, TypeOK
  <2> QED BY <1>0, <1>4, <2>1, PublishCounts DEF PushPublish, Distances, consumerVars
<1>5. CASE PopBegin
  <2>1. consumer'.at = "read" => popped # seen_head
    BY <1>5 DEF PopBegin, Indices, TypeOK
  <2>2. consumer'.at # "release"
    BY <1>5 DEF PopBegin, TypeOK
  <2> QED BY <1>0, <1>5, <2>1, <2>2
          DEF PopBegin, Distances, producerVars, pushed, popped
<1>6. ASSUME NEW k \in seen_head .. pushed, PopRefresh(k) PROVE Distances'
  <2>1. k \in Nat /\ seen_head <= k /\ k <= pushed
    BY <1>0
  <2>2. consumer'.at = "read" => popped # k
    BY <1>6 DEF PopRefresh, Indices, TypeOK
  <2>3. consumer'.at # "release"
    BY <1>6 DEF PopRefresh, TypeOK
  <2> QED BY <1>0, <1>6, <2>1, <2>2, <2>3
          DEF PopRefresh, Distances, producerVars, pushed, popped
<1>7. CASE PopRead
  BY <1>7 DEF PopRead, Distances, producerVars, pushed, popped
<1>8. CASE PopRelease
  <2>1. consumer'.at = "idle"
    BY <1>8 DEF PopRelease, TypeOK
  <2> QED BY <1>0, <1>8, <2>1, ReleaseCounts DEF PopRelease, Distances, producerVars
<1>9. CASE UNCHANGED vars
  BY <1>9 DEF Distances, vars, producerVars, consumerVars, pushed, popped
<1> QED BY <1>1, <1>2, <1>3, <1>4, <1>5, <1>6, <1>7, <1>8, <1>9
        DEF Next, Producer, Consumer

(* Every step keeps the unread values in their cells.                      *)
LEMMA NextContents == IInv /\ [Next]_vars => Contents'
<1> SUFFICES ASSUME IInv, [Next]_vars PROVE Contents'
  OBVIOUS
<1> USE DEF IInv
<1>0. /\ pushed \in Nat /\ popped \in Nat /\ seen_tail \in Nat /\ seen_head \in Nat
      /\ Capacity \in Nat /\ Capacity > 1
  BY LenNat, RingAssumption DEF TypeOK
<1>1. ASSUME NEW v \in Values, PushBegin(v) PROVE Contents'
  BY <1>1 DEF PushBegin, Contents, consumerVars, pushed, popped
<1>2. ASSUME NEW k \in seen_tail .. popped, PushRefresh(k) PROVE Contents'
  <2>1. producer'.at # "publish"
    BY <1>2 DEF PushRefresh, TypeOK
  <2> QED BY <1>2, <2>1 DEF PushRefresh, Contents, consumerVars, pushed, popped
<1>3. CASE PushWrite
  <2>1. \A i \in (popped + 1) .. pushed : (i - 1) % Capacity # head
    <3> SUFFICES ASSUME NEW i \in (popped + 1) .. pushed,
                        (i - 1) % Capacity = pushed % Capacity
                 PROVE  FALSE
      BY DEF Indices
    <3>1. i - 1 \in Nat /\ i - 1 < pushed /\ pushed - (i - 1) < Capacity
      BY <1>0 DEF Distances
    <3> QED BY <1>0, <3>1, ModDistinct
  <2>2. \A i \in (popped + 1) .. pushed : (i - 1) % Capacity \in Slots
    BY <1>0, DivMod DEF Slots
  <2>3. \A i \in (popped + 1) .. pushed : buffer'[(i - 1) % Capacity] = sent[i]
    BY <1>3, <2>1, <2>2 DEF PushWrite, Contents, TypeOK
  <2>4. buffer'[head] = producer.value /\ producer'.value = producer.value
    BY <1>3 DEF PushWrite, TypeOK
  <2> QED BY <1>3, <2>3, <2>4 DEF PushWrite, Contents, consumerVars, pushed, popped
<1>4. CASE PushPublish
  <2>1. producer'.at = "idle"
    BY <1>4 DEF PushPublish, TypeOK
  <2>2. /\ pushed' = pushed + 1 /\ popped' = popped /\ buffer' = buffer
        /\ consumer' = consumer
    BY <1>4, PublishCounts DEF PushPublish, consumerVars
  <2>3. \A i \in (popped + 1) .. (pushed + 1) : buffer[(i - 1) % Capacity] = sent'[i]
    <3> SUFFICES ASSUME NEW i \in (popped + 1) .. (pushed + 1)
                 PROVE  buffer[(i - 1) % Capacity] = sent'[i]
      OBVIOUS
    <3>1. CASE i = pushed + 1
      <4>1. buffer[pushed % Capacity] = producer.value
        BY <1>4 DEF PushPublish, Contents, Indices
      <4>2. i - 1 = pushed
        BY <1>0, <3>1
      <4> QED BY <1>4, <3>1, <4>1, <4>2, PublishCounts
    <3>2. CASE i # pushed + 1
      <4>1. i \in (popped + 1) .. pushed /\ i \in 1 .. pushed
        BY <1>0, <3>2
      <4> QED BY <1>4, <4>1, PublishCounts DEF Contents
    <3> QED BY <3>1, <3>2
  <2>4. consumer.at = "release" => consumer.value = sent'[popped + 1]
    <3>1. consumer.at = "release" => popped + 1 \in 1 .. pushed
      BY <1>0 DEF Distances
    <3> QED BY <1>4, <3>1, PublishCounts DEF Contents
  <2> QED BY <2>1, <2>2, <2>3, <2>4 DEF Contents
<1>5. CASE PopBegin
  <2>1. consumer'.at # "release"
    BY <1>5 DEF PopBegin, TypeOK
  <2> QED BY <1>5, <2>1 DEF PopBegin, Contents, producerVars, pushed, popped
<1>6. ASSUME NEW k \in seen_head .. pushed, PopRefresh(k) PROVE Contents'
  <2>1. consumer'.at # "release"
    BY <1>6 DEF PopRefresh, TypeOK
  <2> QED BY <1>6, <2>1 DEF PopRefresh, Contents, producerVars, pushed, popped
<1>7. CASE PopRead
  <2>1. popped + 1 \in (popped + 1) .. pushed /\ (popped + 1) - 1 = popped
    BY <1>0, <1>7 DEF PopRead, Distances
  <2>2. buffer[tail] = sent[popped + 1]
    BY <2>1 DEF Contents, Indices
  <2> QED BY <1>7, <2>2 DEF PopRead, Contents, producerVars, pushed, popped
<1>8. CASE PopRelease
  <2>1. consumer'.at = "idle"
    BY <1>8 DEF PopRelease, TypeOK
  <2>2. \A i \in (popped + 2) .. pushed : i \in (popped + 1) .. pushed
    BY <1>0
  <2> QED BY <1>0, <1>8, <2>1, <2>2, ReleaseCounts DEF PopRelease, Contents, producerVars
<1>9. CASE UNCHANGED vars
  BY <1>9 DEF Contents, vars, producerVars, consumerVars, pushed, popped
<1> QED BY <1>1, <1>2, <1>3, <1>4, <1>5, <1>6, <1>7, <1>8, <1>9
        DEF Next, Producer, Consumer

-----------------------------------------------------------------------------
(* Theorems *)

(* The invariant holds throughout.                                         *)
LEMMA Invariance == Spec => []IInv
<1>1. Init => IInv
  BY InitIInv
<1>2. IInv /\ [Next]_vars => IInv'
  BY NextTypeOK, NextIndices, NextDistances, NextContents DEF IInv
<1> QED BY <1>1, <1>2, PTL DEF Spec

(* Type correctness of the ring buffer's indices, slots and histories.     *)
THEOREM RingTypeCorrect == Spec => []TypeOK
<1>1. IInv => TypeOK
  BY DEF IInv
<1> QED BY <1>1, Invariance, PTL

(* push and pop never access the same slot at the same time, and each      *)
(* access is ordered after the other side's last access to that slot.      *)
THEOREM RingHasNoDataRace == Spec => []NoDataRace
<1>1. IInv => NoDataRace
  <2> SUFFICES ASSUME IInv PROVE NoDataRace
    OBVIOUS
  <2> USE DEF IInv
  <2>0. /\ pushed \in Nat /\ popped \in Nat /\ seen_tail \in Nat /\ seen_head \in Nat
        /\ Capacity \in Nat /\ Capacity > 1
    BY LenNat, RingAssumption DEF TypeOK
  <2>1. producer.at = "write" => pushed < seen_tail + Capacity
    BY <2>0 DEF Distances
  <2>2. consumer.at = "read" => popped < seen_head
    BY DEF Distances
  <2>3. ASSUME producer.at = "write", consumer.at = "read", head = tail
        PROVE  FALSE
    <3>1. popped < pushed /\ pushed - popped < Capacity
      BY <2>0, <2>3 DEF Distances
    <3> QED BY <2>0, <2>3, <3>1, ModDistinct DEF Indices
  <2> QED BY <2>1, <2>2, <2>3 DEF NoDataRace
<1> QED BY <1>1, Invariance, PTL

(* push never overwrites a value that was not popped, and at most          *)
(* capacity() values are in flight.                                        *)
THEOREM RingKeepsUnreadValues == Spec => []UnreadValuesIntact
<1>1. IInv => UnreadValuesIntact
  <2> SUFFICES ASSUME IInv PROVE UnreadValuesIntact
    OBVIOUS
  <2>1. pushed - popped <= Capacity - 1
    BY LenNat, RingAssumption DEF IInv, Distances, TypeOK
  <2> QED BY <2>1 DEF IInv, Contents, UnreadValuesIntact
<1> QED BY <1>1, Invariance, PTL

-----------------------------------------------------------------------------
(* Refinement of the bounded queue *)

(* Appending to a sequence appends to each of its suffixes.                *)
LEMMA SuffixOfAppend ==
    ASSUME NEW S, NEW s \in Seq(S), NEW v \in S, NEW m \in 0 .. Len(s)
    PROVE  /\ SubSeq(Append(s, v), m + 1, Len(s) + 1)
                 = Append(SubSeq(s, m + 1, Len(s)), v)
           /\ Len(SubSeq(s, m + 1, Len(s))) = Len(s) - m
<1> DEFINE t == SubSeq(s, m + 1, Len(s))
           u == SubSeq(Append(s, v), m + 1, Len(s) + 1)
<1>1. t \in Seq(S) /\ Len(t) = Len(s) - m /\ \A i \in 1 .. Len(t) : t[i] = s[m + i]
  OBVIOUS
<1>2. u \in Seq(S) /\ Len(u) = Len(s) + 1 - m
      /\ \A i \in 1 .. Len(u) : u[i] = Append(s, v)[m + i]
  OBVIOUS
<1> HIDE DEF t, u
<1>3. /\ Len(Append(t, v)) = Len(t) + 1 /\ Append(t, v) \in Seq(S)
      /\ \A i \in 1 .. Len(t) : Append(t, v)[i] = t[i]
      /\ Append(t, v)[Len(t) + 1] = v
  BY <1>1, AppendProperties
<1>4. Len(s) \in Nat /\ m \in Nat /\ m <= Len(s)
      /\ Len(t) = Len(s) - m /\ Len(u) = Len(t) + 1
  BY <1>1, <1>2
<1>5. \A i \in 1 .. Len(u) : u[i] = Append(t, v)[i]
  <2> TAKE i \in 1 .. Len(u)
  <2>1. CASE i = Len(u)
    <3>1. i = Len(t) + 1 /\ m + i = Len(s) + 1
      BY <1>4, <2>1
    <3>2. u[i] = v
      BY <1>2, <3>1, AppendProperties
    <3> QED BY <1>3, <3>1, <3>2
  <2>2. CASE i # Len(u)
    <3>1. i \in 1 .. Len(t) /\ m + i \in 1 .. Len(s)
      BY <1>4, <2>2
    <3>2. u[i] = s[m + i]
      BY <1>2, <3>1, AppendProperties
    <3> QED BY <1>1, <1>3, <3>1, <3>2
  <2> QED BY <2>1, <2>2
<1>6. u = Append(t, v)
  <2>1. Len(u) = Len(Append(t, v))
    BY <1>3, <1>4
  <2> QED BY <1>2, <1>3, <1>5, <2>1, SeqEqual
<1> QED BY <1>1, <1>6 DEF t, u

(* The head and the tail of a nonempty suffix.                             *)
LEMMA SuffixHeadTail ==
    ASSUME NEW S, NEW s \in Seq(S), NEW m \in 0 .. (Len(s) - 1)
    PROVE  /\ SubSeq(s, m + 1, Len(s)) # <<>>
           /\ Head(SubSeq(s, m + 1, Len(s))) = s[m + 1]
           /\ Tail(SubSeq(s, m + 1, Len(s))) = SubSeq(s, m + 1 + 1, Len(s))
<1> DEFINE t == SubSeq(s, m + 1, Len(s))
           u == SubSeq(s, m + 1 + 1, Len(s))
<1>1. t \in Seq(S) /\ Len(t) = Len(s) - m /\ \A i \in 1 .. Len(t) : t[i] = s[m + i]
  OBVIOUS
<1>2. u \in Seq(S) /\ Len(u) = Len(s) - m - 1
      /\ \A i \in 1 .. Len(u) : u[i] = s[m + 1 + i]
  OBVIOUS
<1> HIDE DEF t, u
<1>3. t # <<>> /\ Head(t) = s[m + 1]
  BY <1>1
<1>4. Tail(t) \in Seq(S) /\ Len(Tail(t)) = Len(u)
      /\ \A i \in 1 .. Len(u) : Tail(t)[i] = u[i]
  BY <1>1, <1>2
<1>5. Tail(t) = u
  BY <1>2, <1>4, SeqEqual
<1> QED BY <1>3, <1>5 DEF t, u

(* The release store of head_ is the queue's push.                         *)
LEMMA PublishIsPush == IInv /\ PushPublish => Queue!Push(producer.value)
<1> SUFFICES ASSUME IInv, PushPublish PROVE Queue!Push(producer.value)
  OBVIOUS
<1>0. /\ pushed \in Nat /\ popped \in 0 .. pushed /\ Len(sent) = pushed
      /\ pushed - popped < Capacity - 1
      /\ sent \in Seq(Values) /\ producer.value \in Values
  BY LenNat, RingAssumption DEF IInv, TypeOK, Distances, PushPublish, pushed
<1>1. pushed' = pushed + 1 /\ popped' = popped /\ sent' = Append(sent, producer.value)
  BY PublishCounts DEF IInv, PushPublish
<1>2. Len(SubSeq(sent, popped + 1, pushed)) < Capacity - 1
  BY <1>0, SuffixOfAppend
<1>3. SubSeq(sent, popped + 1, pushed)'
        = Append(SubSeq(sent, popped + 1, pushed), producer.value)
  BY <1>0, <1>1, SuffixOfAppend
<1>4. received' = received
  BY DEF PushPublish, consumerVars
<1> QED BY <1>2, <1>3, <1>4 DEF Queue!Push

(* The release store of tail_ is the queue's pop.                          *)
LEMMA ReleaseIsPop == IInv /\ PopRelease => Queue!Pop
<1> SUFFICES ASSUME IInv, PopRelease PROVE Queue!Pop
  OBVIOUS
<1>0. /\ pushed \in Nat /\ popped \in 0 .. (pushed - 1) /\ Len(sent) = pushed
      /\ sent \in Seq(Values)
  BY LenNat, RingAssumption DEF IInv, TypeOK, Distances, PopRelease, pushed
<1>1. popped' = popped + 1 /\ pushed' = pushed /\ sent' = sent
  BY ReleaseCounts DEF IInv
<1>2. received' = Append(received, sent[popped + 1])
  BY DEF IInv, PopRelease, Contents
<1>3. /\ SubSeq(sent, popped + 1, pushed) # <<>>
      /\ Head(SubSeq(sent, popped + 1, pushed)) = sent[popped + 1]
      /\ Tail(SubSeq(sent, popped + 1, pushed)) = SubSeq(sent, popped + 1 + 1, pushed)
  BY <1>0, SuffixHeadTail
<1>4. SubSeq(sent, popped + 1, pushed)' = SubSeq(sent, popped + 1 + 1, pushed)
  BY <1>1
<1> QED BY <1>2, <1>3, <1>4 DEF Queue!Pop

(* The ring buffer implements the bounded FIFO queue: whatever the sizes   *)
(* and however stale the indices are, push and pop lose, repeat and        *)
(* reorder nothing.                                                        *)
THEOREM RingImplementsQueue == Spec => ImplementsQueue
<1>1. Init => Queue!Init
  BY DEF Init, Queue!Init, pushed, popped
<1>2. IInv /\ [Next]_vars => [Queue!Next]_<<SubSeq(sent, popped + 1, pushed), received>>
  <2> SUFFICES ASSUME IInv, [Next]_vars
               PROVE  [Queue!Next]_<<SubSeq(sent, popped + 1, pushed), received>>
    OBVIOUS
  <2>1. CASE PushPublish
    BY <2>1, PublishIsPush DEF Queue!Next, IInv, TypeOK
  <2>2. CASE PopRelease
    BY <2>2, ReleaseIsPop DEF Queue!Next
  <2>3. CASE sent' = sent /\ received' = received
    BY <2>3 DEF pushed, popped
  <2>4. PushPublish \/ PopRelease \/ (sent' = sent /\ received' = received)
    BY DEF Next, Producer, Consumer, PushBegin, PushRefresh, PushWrite, PopBegin,
           PopRefresh, PopRead, vars, producerVars, consumerVars
  <2> QED BY <2>1, <2>2, <2>3, <2>4
<1> QED BY <1>1, <1>2, Invariance, PTL DEF Spec, ImplementsQueue, Queue!Spec

-----------------------------------------------------------------------------
(* The live loop *)

Loops == {"test", "drain", "clock", "sleep", "stop", "join", "final", "done"}

(* The types of the variables, as far as the proofs use them.              *)
LoopTypeOK ==
    /\ loop \in Loops
    /\ ring \in 0..RingCapacity
    /\ ws \in {"connecting", "open", "closing", "stopped"}
    /\ batch \in Nat
    /\ age \in Int \cup {None} /\ silence \in Nat

(* What the order of the shutdown guarantees at each of its stages: once   *)
(* the library was asked to stop no message starts, once its thread was    *)
(* joined none is being handled, and at the end the ring is drained.       *)
ShutdownOrder ==
    /\ loop \in {"join", "final", "done"} => ws \in {"closing", "stopped"}
    /\ loop \in {"final", "done"} => batch = 0 /\ ~connected
    /\ loop = "done" => ring = 0

(* The age of the last event is at most what has passed since it was       *)
(* processed and what it was behind then, or both have grown past what is  *)
(* told apart.  The stale flag was set with that age.                      *)
AgeBoundedBySilence ==
    /\ age # None => age <= silence + Behind
    /\ stale => silence > MaxStaleness - Behind

LoopInv == LoopTypeOK /\ ShutdownOrder /\ AgeBoundedBySilence

-----------------------------------------------------------------------------
(* The invariant holds initially.                                          *)
LEMMA InitLoopInv == LoopInit => LoopInv
<1> SUFFICES ASSUME LoopInit PROVE LoopInv
  OBVIOUS
<1>1. ring \in 0..RingCapacity /\ batch \in Nat /\ silence \in Nat
  BY LoopAssumption DEF LoopInit
<1>2. LoopTypeOK
  BY <1>1, Zenon DEF LoopInit, LoopTypeOK, Loops
<1>3. ShutdownOrder /\ AgeBoundedBySilence
  BY Zenon DEF LoopInit, ShutdownOrder, AgeBoundedBySilence
<1> QED BY <1>2, <1>3 DEF LoopInv

(* Popping one event, or finding the ring empty and going on: the ring     *)
(* only shrinks, and an event that was processed renews the clock.         *)
LEMMA DrainedOK ==
    ASSUME LoopInv, NEW onward, Drained(onward)
    PROVE  /\ ring' \in 0..RingCapacity
           /\ loop' = loop \/ (loop' = onward /\ ring = 0 /\ ring' = 0)
           /\ age' \in Int \cup {None} /\ silence' \in Nat
           /\ AgeBoundedBySilence'
           /\ UNCHANGED <<g_stop, deadline, ws, connected, batch>>
<1>0. UNCHANGED <<g_stop, deadline, ws, connected, batch>>
  BY DEF Drained, requests, link
<1>1. CASE ring > 0
  <2>1. PICK lag \in (-Ahead)..Behind : Process(lag)
    BY <1>1 DEF Drained
  <2>2. ring' = ring - 1 /\ loop' = loop
    BY <1>1 DEF Drained
  <2>3. lag \in Int /\ lag <= Behind /\ Behind \in Nat
    BY LoopAssumption
  <2> QED BY <1>0, <1>1, <2>1, <2>2, <2>3, LoopAssumption
          DEF LoopInv, LoopTypeOK, Process, AgeBoundedBySilence
<1>2. CASE ~(ring > 0)
  BY <1>0, <1>2, LoopAssumption
     DEF Drained, clock, LoopInv, LoopTypeOK, AgeBoundedBySilence
<1> QED BY <1>1, <1>2

(* Every step keeps the invariant.                                         *)
LEMMA NextLoopInv == LoopInv /\ [LoopNext]_loopVars => LoopInv'
<1> SUFFICES ASSUME LoopInv, [LoopNext]_loopVars PROVE LoopInv'
  OBVIOUS
<1> USE DEF LoopInv, LoopTypeOK, Loops, ShutdownOrder, AgeBoundedBySilence, requests, link, clock
<1>1. CASE UNCHANGED loopVars
  BY <1>1 DEF loopVars
<1>2. CASE Sigint
  BY <1>2 DEF Sigint
<1>3. CASE TimeUp
  BY <1>3 DEF TimeUp
<1>4. CASE Tick
  <2>1. MaxAge \in Nat /\ MaxSilence \in Nat /\ MaxAge <= MaxSilence
    BY LoopAssumption DEF MaxAge, MaxSilence
  <2>2. silence' = IF silence + 1 <= MaxSilence THEN silence + 1 ELSE MaxSilence
    BY <1>4, <2>1, MinOfTwo DEF Tick
  <2>3. age \in Int /\ age' = (IF age < MaxAge THEN age + 1 ELSE age)
    BY <1>4 DEF Tick
  <2>4. age' \in Int /\ silence' \in Nat
    BY <2>1, <2>2, <2>3
  <2>5. AgeBoundedBySilence'
    <3>1. Behind \in Nat /\ MaxStaleness \in Nat /\ Ahead \in Nat
      BY LoopAssumption
    <3>2. age' <= silence' + Behind
      BY <1>4, <2>1, <2>2, <2>3, <3>1 DEF Tick
    <3>3. stale => silence' > MaxStaleness - Behind
      BY <2>2, <3>1 DEF MaxSilence
    <3> QED BY <1>4, <3>2, <3>3 DEF Tick
  <2> QED BY <1>4, <2>4, <2>5 DEF Tick
<1>5. CASE Open \/ Lost
  BY <1>5 DEF Open, Lost
<1>6. ASSUME NEW n \in 0..MaxBatch, Message(n) PROVE LoopInv'
  BY <1>6, LoopAssumption DEF Message
<1>7. CASE Callback
  BY <1>7, LoopAssumption DEF Callback, Push
<1>8. CASE Test
  BY <1>8 DEF Test
<1>9. CASE Drain
  <2>1. loop = "drain" /\ Drained("clock")
    BY <1>9 DEF Drain
  <2> QED BY <2>1, DrainedOK
<1>10. CASE LookAtClock
  <2>1. stale' => stale \/ (age # None /\ age > MaxStaleness)
    BY <1>10, Zenon DEF LookAtClock
  <2>2. /\ loop = "clock" /\ loop' = "sleep"
        /\ UNCHANGED <<ring, ws, connected, batch, age, silence>>
    BY <1>10 DEF LookAtClock
  <2>3. stale' => silence > MaxStaleness - Behind
    BY <2>1, LoopAssumption
  <2> QED BY <2>2, <2>3
<1>11. CASE Sleep
  BY <1>11 DEF Sleep
<1>13. CASE Stop
  BY <1>13 DEF Stop
<1>14. CASE Join
  <2>1. loop' = "final" /\ ws' = "stopped" /\ batch' = 0 /\ ~connected'
    BY <1>14, Zenon DEF Join
  <2> QED BY <1>14, <2>1 DEF Join
<1>12. CASE FinalDrain
  <2>1. loop = "final" /\ Drained("done")
    BY <1>12 DEF FinalDrain
  <2> QED BY <2>1, DrainedOK
<1> QED BY <1>1, <1>2, <1>3, <1>4, <1>5, <1>6, <1>7, <1>8, <1>9, <1>10, <1>11, <1>12, <1>13, <1>14
        DEF LoopNext, Network, Main

(* The invariant holds throughout.                                         *)
LEMMA LoopInvariance == LoopSpec => []LoopInv
<1>1. LoopInit => LoopInv
  BY InitLoopInv
<1>2. LoopInv /\ [LoopNext]_loopVars => LoopInv'
  BY NextLoopInv
<1> QED BY <1>1, <1>2, PTL DEF LoopSpec

-----------------------------------------------------------------------------
(* For every ring and every size of message, run_live ends at rest: no     *)
(* event is left in the ring or in a callback when the report is made.     *)
THEOREM ExitAtRest == LoopSpec => []NothingLeftAtExit
<1>1. LoopInv => NothingLeftAtExit
  BY DEF LoopInv, ShutdownOrder, NothingLeftAtExit
<1> QED BY <1>1, LoopInvariance, PTL

(* For every limit and every difference of the clocks, on_clock() raises   *)
(* no alarm about a feed that was heard within the limit less the lag.     *)
THEOREM StaleFlagIsTrue == LoopSpec => []NoFalseAlarm
<1>1. LoopInv => NoFalseAlarm
  BY DEF LoopInv, AgeBoundedBySilence, NoFalseAlarm
<1> QED BY <1>1, LoopInvariance, PTL
=============================================================================
