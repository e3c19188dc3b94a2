----------------------------- MODULE ObjectPool -----------------------------
(***************************************************************************)
(* common/object_pool.hpp: a fixed array of slots, each a union of an      *)
(* object and of the link to the next free slot, so that the list of free  *)
(* slots lives in the storage of the objects.  Pointers are slot numbers,  *)
(* and 0 is nullptr.  Releasing nullptr does nothing; an object is         *)
(* released once, by its owner, as the class requires.  The constructor of *)
(* an object may throw: nobody gets a pointer to the slot, which had been  *)
(* taken off the list already, and so nobody releases it.                  *)
(***************************************************************************)
EXTENDS Integers, Sequences

CONSTANTS
    Capacity,       \* capacity_
    Objects,        \* values of T
    Vacant,         \* no value
    Torn,           \* what a constructor that threw leaves in the slot
    MaxExhausted    \* bound on the failed calls of acquire

Slots == 1..Capacity
Null == 0

ASSUME PoolAssumption ==
    /\ Capacity \in Nat
    /\ MaxExhausted \in Nat
    /\ Vacant \notin Objects
    /\ Torn \notin Objects \cup {Vacant}
    /\ (Objects \cup {Torn}) \cap (0..Capacity) = {}

VARIABLES
    slot,              \* storage_
    free_head,         \* free_head_
    live_count,        \* live_count_
    exhausted_count,   \* exhausted_count_
    held,              \* history: the object its owner has in a slot, or Torn or Vacant
    free               \* history: the stack of the free slots, next one last

poolVars == <<slot, free_head, live_count, exhausted_count, held, free>>

PoolInit ==
    /\ slot = [i \in Slots |-> IF i < Capacity THEN i + 1 ELSE Null]
    /\ free_head = IF Capacity > 0 THEN 1 ELSE Null
    /\ live_count = 0 /\ exhausted_count = 0
    /\ held = [i \in Slots |-> Vacant]
    /\ free = [k \in 1..Capacity |-> Capacity + 1 - k]

acquire_exhausted ==
    /\ free_head = Null
    /\ exhausted_count < MaxExhausted
    /\ exhausted_count' = exhausted_count + 1
    /\ UNCHANGED <<slot, free_head, live_count, held, free>>

(* Fault: the object is built where free_head_ points after it moved on.   *)
acquire_after_moving_on(x) ==
    /\ free_head # Null
    /\ free_head' = slot[free_head]
    /\ slot' = [slot EXCEPT ![slot[free_head]] = x]
    /\ live_count' = live_count + 1
    /\ held' = [held EXCEPT ![free_head] = x]
    /\ free' = SubSeq(free, 1, Len(free) - 1)
    /\ UNCHANGED exhausted_count

acquire(x) ==
    /\ free_head # Null
    /\ free_head' = slot[free_head]
    /\ slot' = [slot EXCEPT ![free_head] = x]
    /\ live_count' = live_count + 1
    /\ held' = [held EXCEPT ![free_head] = x]
    /\ free' = SubSeq(free, 1, Len(free) - 1)
    /\ UNCHANGED exhausted_count

(* The constructor throws.                                                 *)
acquire_throwing == acquire(Torn)

(* The owner of an object changes it.                                      *)
use(i, x) ==
    /\ held[i] \in Objects
    /\ slot' = [slot EXCEPT ![i] = x]
    /\ held' = [held EXCEPT ![i] = x]
    /\ UNCHANGED <<free_head, live_count, exhausted_count, free>>

(* Fault: the slot is put at the head of the list without a link.          *)
release_unlinked(i) ==
    /\ held[i] \in Objects
    /\ free_head' = i
    /\ live_count' = live_count - 1
    /\ held' = [held EXCEPT ![i] = Vacant]
    /\ free' = Append(free, i)
    /\ UNCHANGED <<slot, exhausted_count>>

release(i) ==
    /\ held[i] \in Objects
    /\ slot' = [slot EXCEPT ![i] = free_head]
    /\ free_head' = i
    /\ live_count' = live_count - 1
    /\ held' = [held EXCEPT ![i] = Vacant]
    /\ free' = Append(free, i)
    /\ UNCHANGED exhausted_count

PoolNext ==
    \/ acquire_exhausted
    \/ \E x \in Objects : acquire(x)
    \/ acquire_throwing
    \/ \E i \in Slots :
          \/ release(i)
          \/ \E x \in Objects : use(i, x)

PoolSpec == PoolInit /\ [][PoolNext]_poolVars

-----------------------------------------------------------------------------
(* The links in the storage lead through exactly the slots that were not   *)
(* taken, each once, and end: so no slot has two owners, none that an      *)
(* owner gave back is lost, acquire fails only when all are taken, and     *)
(* live_count is the number of the owned ones and of those that a throwing *)
(* constructor lost.                                                       *)
FreeListIsExact ==
    /\ \A i \in Slots : held[i] = Vacant <=> \E k \in 1..Len(free) : free[k] = i
    /\ \A j, k \in 1..Len(free) : free[j] = free[k] => j = k
    /\ free_head = IF Len(free) = 0 THEN Null ELSE free[Len(free)]
    /\ \A k \in 1..Len(free) : slot[free[k]] = IF k = 1 THEN Null ELSE free[k - 1]
    /\ live_count = Capacity - Len(free)

(* An object is what its owner made it: no link is ever written over it,   *)
(* although objects and links share the storage.                           *)
ObjectsIntact == \A i \in Slots : held[i] # Vacant => slot[i] = held[i]
=============================================================================
