--------------------------- MODULE MCSyntheticBook ---------------------------
(* Three levels per side, and room for the reference to walk; a pool of    *)
(* three slots.  The generator and the pool, both of which only tools and  *)
(* benchmarks drive, share nothing: their steps are simply interleaved.    *)
EXTENDS SyntheticBook, ObjectPool

MC_Prices == 5..16
MC_None == {}
MC_Zero == {0}

BothInit == Init /\ PoolInit

BothNext == (Next /\ UNCHANGED poolVars) \/ (PoolNext /\ UNCHANGED vars)

BothSpec == BothInit /\ [][BothNext]_<<vars, poolVars>>
=============================================================================
