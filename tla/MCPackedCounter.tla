--------------------------- MODULE MCPackedCounter ---------------------------
(***************************************************************************)
(* A word of 3 + 2 bits: every value of both halves, every amount up to    *)
(* one past the larger of them.                                            *)
(***************************************************************************)
EXTENDS PackedCounter

MCAmounts == 0 .. LMod
==============================================================================
