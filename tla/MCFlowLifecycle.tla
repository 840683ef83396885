--------------------------- MODULE MCFlowLifecycle ---------------------------
(* Bounded instances of FlowLifecycle for TLC: three processes, of which   *)
(* the cfg files say who produces, consumes and collects.                  *)
EXTENDS FlowLifecycle
=============================================================================
