----------------------------- MODULE MCLiveLoop -----------------------------
(* A ring that one message can overfill. *)
EXTENDS LiveLoop
=============================================================================
