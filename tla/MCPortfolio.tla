----------------------------- MODULE MCPortfolio -----------------------------
(* Fills of one to three units at three prices. *)
EXTENDS Portfolio

MC_FillPrices == {10, 11, 13}
MC_FillQuantities == 1..3
=============================================================================
