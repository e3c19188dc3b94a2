--------------------------- MODULE MCPipelineFeed ---------------------------
(* An unreliable feed with no quoting (quote size 0), so that the book and *)
(* the feed-integrity policy are all that varies.                          *)
EXTENDS PipelineFeed

MC_Prices == {100, 101}
MC_QuoteQuantities == {1, 2}
MC_TradeQuantities == {}
MC_Sequences == 1..3
MC_Timestamps == {0, 2}
MC_VolWidenings == {0}
=============================================================================
