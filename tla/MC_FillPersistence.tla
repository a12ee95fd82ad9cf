------------------------- MODULE MC_FillPersistence -------------------------
(* FillPersistence with named orders and pollers.                          *)
EXTENDS FillPersistence

CONSTANTS o1, o2, watch, monitor
=============================================================================
