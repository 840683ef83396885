-------------------------- MODULE MCContinuousFlow --------------------------
(* Bounded instances of ContinuousFlow for TLC.                            *)
EXTENDS ContinuousFlow
=============================================================================
