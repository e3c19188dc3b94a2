-------------------------- MODULE MCSpscRingBuffer --------------------------
(* Two values, four slots, and enough pushes to wrap around. *)
EXTENDS SpscRingBuffer

MC_Values == {"a", "b"}
=============================================================================
