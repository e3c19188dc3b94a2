--------------------------- MODULE SpscRingBuffer ---------------------------
(***************************************************************************)
(* concurrency/spsc_ring_buffer.hpp: the lock-free queue between the       *)
(* WebSocket thread (producer) and the pipeline loop (consumer).           *)
(*                                                                         *)
(* Each action is one access to shared memory.  An acquire load may return *)
(* any value of the index that is not older than the one this thread saw   *)
(* last, so the loads are stale at will.  To say which value was loaded,   *)
(* the model numbers the stores: pushed and popped count the stores to     *)
(* head_ and tail_, and seen_tail and seen_head are the numbers of the     *)
(* stores whose value cached_tail_ and cached_head_ hold.  The code never  *)
(* reads these counts; its indices are the counts modulo Capacity.         *)
(***************************************************************************)
EXTENDS Integers, Sequences

CONSTANTS
    Values,     \* what is pushed
    Capacity,   \* number of slots; one stays free
    MaxPushes   \* bound on the number of pushes that are explored

ASSUME RingAssumption ==
    /\ Capacity \in Nat /\ Capacity > 1
    /\ MaxPushes \in Nat

VARIABLES
    buffer,       \* buffer_
    head,         \* head_, written by the producer
    tail,         \* tail_, written by the consumer
    cached_tail,  \* the producer's last view of tail_
    cached_head,  \* the consumer's last view of head_
    producer,     \* where the producer is, and the value it pushes
    consumer,     \* where the consumer is, and the value it has read
    sent,         \* history: the values pushed, in order
    received,     \* history: the values popped, in order
    seen_tail,    \* history: number of the tail_ store in cached_tail
    seen_head     \* history: number of the head_ store in cached_head

producerVars == <<cached_tail, producer, sent, head, seen_tail>>
consumerVars == <<cached_head, consumer, received, tail, seen_head>>
vars == <<buffer, producerVars, consumerVars>>

pushed == Len(sent)
popped == Len(received)

(* Fault: the mask is forgotten.                                           *)
next_unmasked(i) == i + 1

(* (i + 1) & kMask, Capacity being a power of two.                         *)
next(i) == (i + 1) % Capacity

Slots == 0 .. (Capacity - 1)

TypeOK ==
    /\ buffer \in [Slots -> Values]
    /\ head \in Slots /\ tail \in Slots
    /\ cached_tail \in Slots /\ cached_head \in Slots
    /\ producer \in [at : {"idle", "refresh", "write", "publish"}, value : Values]
    /\ consumer \in [at : {"idle", "refresh", "read", "release"}, value : Values]
    /\ sent \in Seq(Values) /\ received \in Seq(Values)
    /\ seen_tail \in Nat /\ seen_head \in Nat

Init ==
    /\ buffer \in [Slots -> Values]
    /\ head = 0 /\ tail = 0
    /\ cached_tail = 0 /\ cached_head = 0
    /\ producer \in [at : {"idle"}, value : Values]
    /\ consumer \in [at : {"idle"}, value : Values]
    /\ sent = <<>> /\ received = <<>>
    /\ seen_tail = 0 /\ seen_head = 0

-----------------------------------------------------------------------------
(* push(value): compare with the cached tail.                              *)
PushBegin(v) ==
    /\ producer.at = "idle"
    /\ pushed < MaxPushes
    /\ producer' = [at |-> IF next(head) = cached_tail THEN "refresh" ELSE "write",
                    value |-> v]
    /\ UNCHANGED <<buffer, cached_tail, sent, head, seen_tail, consumerVars>>

(* Fault: the second comparison is dropped, so a full ring is written to.  *)
PushRefresh_unchecked(k) ==
    /\ producer.at = "refresh"
    /\ cached_tail' = k % Capacity
    /\ seen_tail' = k
    /\ producer' = [producer EXCEPT !.at = "write"]
    /\ UNCHANGED <<buffer, sent, head, consumerVars>>

(* The acquire load of tail_, which returns its k-th value; still full     *)
(* means that push returns false.                                          *)
PushRefresh(k) ==
    /\ producer.at = "refresh"
    /\ cached_tail' = k % Capacity
    /\ seen_tail' = k
    /\ producer' = [producer EXCEPT
            !.at = IF next(head) = cached_tail' THEN "idle" ELSE "write"]
    /\ UNCHANGED <<buffer, sent, head, consumerVars>>

(* buffer_[head] = value, a plain store.                                   *)
PushWrite ==
    /\ producer.at = "write"
    /\ buffer' = [buffer EXCEPT ![head] = producer.value]
    /\ producer' = [producer EXCEPT !.at = "publish"]
    /\ UNCHANGED <<cached_tail, sent, head, seen_tail, consumerVars>>

(* The release store of head_; push returns true.                          *)
PushPublish ==
    /\ producer.at = "publish"
    /\ head' = next(head)
    /\ sent' = Append(sent, producer.value)
    /\ producer' = [producer EXCEPT !.at = "idle"]
    /\ UNCHANGED <<buffer, cached_tail, seen_tail, consumerVars>>

-----------------------------------------------------------------------------
(* Fault: an empty ring is read.                                           *)
PopBegin_unchecked ==
    /\ consumer.at = "idle"
    /\ consumer' = [consumer EXCEPT !.at = "read"]
    /\ UNCHANGED <<buffer, producerVars, cached_head, received, tail, seen_head>>

(* pop(): compare with the cached head.                                    *)
PopBegin ==
    /\ consumer.at = "idle"
    /\ consumer' = [consumer EXCEPT
            !.at = IF tail = cached_head THEN "refresh" ELSE "read"]
    /\ UNCHANGED <<buffer, producerVars, cached_head, received, tail, seen_head>>

(* Fault: the loaded head is not kept.                                     *)
PopRefresh_forgotten(k) ==
    /\ consumer.at = "refresh"
    /\ consumer' = [consumer EXCEPT !.at = "idle"]
    /\ UNCHANGED <<buffer, producerVars, received, tail, cached_head, seen_head>>

(* The acquire load of head_; still empty means that pop returns nullopt.  *)
PopRefresh(k) ==
    /\ consumer.at = "refresh"
    /\ cached_head' = k % Capacity
    /\ seen_head' = k
    /\ consumer' = [consumer EXCEPT
            !.at = IF tail = cached_head' THEN "idle" ELSE "read"]
    /\ UNCHANGED <<buffer, producerVars, received, tail>>

(* Fault: the slot after the tail is read.                                 *)
PopRead_next_slot ==
    /\ consumer.at = "read"
    /\ consumer' = [at |-> "release", value |-> buffer[next(tail)]]
    /\ UNCHANGED <<buffer, producerVars, cached_head, received, tail, seen_head>>

(* value = std::move(buffer_[tail]), a plain load.                         *)
PopRead ==
    /\ consumer.at = "read"
    /\ consumer' = [at |-> "release", value |-> buffer[tail]]
    /\ UNCHANGED <<buffer, producerVars, cached_head, received, tail, seen_head>>

(* The release store of tail_; pop returns the value.                      *)
PopRelease ==
    /\ consumer.at = "release"
    /\ tail' = next(tail)
    /\ received' = Append(received, consumer.value)
    /\ consumer' = [consumer EXCEPT !.at = "idle"]
    /\ UNCHANGED <<buffer, producerVars, cached_head, seen_head>>

-----------------------------------------------------------------------------
Producer ==
    \/ \E v \in Values : PushBegin(v)
    \/ \E k \in seen_tail .. popped : PushRefresh(k)
    \/ PushWrite
    \/ PushPublish

Consumer ==
    \/ PopBegin
    \/ \E k \in seen_head .. pushed : PopRefresh(k)
    \/ PopRead
    \/ PopRelease

Next == Producer \/ Consumer

Spec == Init /\ [][Next]_vars

(* The consumer keeps calling pop(), and a release store becomes visible   *)
(* to its acquire loads in finite time.                                    *)
FairSpec ==
    /\ Spec
    /\ WF_vars(Consumer)
    /\ SF_vars(PopRefresh(pushed))

-----------------------------------------------------------------------------
(* The plain accesses to a slot never race: when the producer is about to  *)
(* write, the pop that last read that slot is behind a tail_ store it has  *)
(* acquired; when the consumer is about to read, the push that wrote the   *)
(* slot is behind a head_ store it has acquired.  So the two never touch   *)
(* the same slot at the same time, although both decide from stale,        *)
(* wrapped-around indices.                                                 *)
NoDataRace ==
    /\ producer.at = "write" => pushed < seen_tail + Capacity
    /\ consumer.at = "read" => popped < seen_head
    /\ producer.at = "write" /\ consumer.at = "read" => head # tail

(* push() never lets more than capacity() values be in flight and never    *)
(* overwrites a value that was not popped: each of them is still in its    *)
(* slot.                                                                   *)
UnreadValuesIntact ==
    /\ pushed - popped <= Capacity - 1
    /\ \A i \in (popped + 1) .. pushed : buffer[(i - 1) % Capacity] = sent[i]

Queue == INSTANCE BoundedQueue WITH
            Bound <- Capacity - 1,
            queue <- SubSeq(sent, popped + 1, pushed)

(* The ring buffer implements the bounded FIFO queue: it loses, repeats    *)
(* and reorders nothing.                                                   *)
ImplementsQueue == Queue!Spec

(* Every value that was pushed is popped, in spite of stale loads.         *)
EveryPushIsPopped ==
    \A n \in 1 .. MaxPushes : (pushed >= n) ~> (popped >= n)
=============================================================================
