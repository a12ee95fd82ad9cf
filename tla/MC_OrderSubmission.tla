------------------------- MODULE MC_OrderSubmission -------------------------
(* OrderSubmission with two named intents.                                 *)
EXTENDS OrderSubmission

CONSTANTS i1, i2
=============================================================================
