----------------------------- MODULE MCPipeline -----------------------------
(* The pipeline on small books, for the runs whose .cfg files choose among *)
(* these sets.                                                             *)
EXTENDS Pipeline

ThreePrices == 99..101

(* Mids of 99, 100 and 101 ticks: a move of one, which a threshold of one  *)
(* tick tolerates, and of two, which it does not.                          *)
SpacedPrices == {98, 100, 102}

SmallTrades == {1, 2}

Post == {1}

SixEvents == 1..6
SevenEvents == 1..7

OneInstant == {0}
Earlier_Later == {0, 2}

Widenings == {0, 100}
=============================================================================
