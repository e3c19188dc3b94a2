--------------------------- MODULE MCFlatOrderBook ---------------------------
(* Vectors of up to three levels per side. *)
EXTENDS BookMetrics

MC_Prices == 1..3
MC_QuoteQuantities == 0..2
MC_TradeQuantities == {1}
MC_Sequences == {1}
MC_Timestamps == {0}
MC_MarketQuantities == 1..5
=============================================================================
