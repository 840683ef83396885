--------------------------- MODULE MCDiscreteFlow ---------------------------
(* Bounded instances of DiscreteFlow for TLC.                              *)
EXTENDS DiscreteFlow
=============================================================================
