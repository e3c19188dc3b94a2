---------------------------- MODULE BoundedQueue ----------------------------
(***************************************************************************)
(* What the ring buffer promises to its two threads: a FIFO queue of at    *)
(* most Bound values.  A push that finds the queue full, and a pop that    *)
(* finds it empty, change nothing.                                         *)
(***************************************************************************)
EXTENDS Naturals, Sequences

CONSTANTS Values, Bound

VARIABLES
    queue,     \* the values pushed and not yet popped, oldest first
    received   \* every value popped so far, in order

Init == queue = <<>> /\ received = <<>>

Push(v) ==
    /\ Len(queue) < Bound
    /\ queue' = Append(queue, v)
    /\ UNCHANGED received

Pop ==
    /\ queue # <<>>
    /\ received' = Append(received, Head(queue))
    /\ queue' = Tail(queue)

Next == Pop \/ \E v \in Values : Push(v)

Spec == Init /\ [][Next]_<<queue, received>>
=============================================================================
