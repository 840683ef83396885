---------------------- MODULE MCFlowSynchronizationGroup ----------------------
(* Bounded instances of FlowSynchronizationGroup for TLC.                  *)
EXTENDS FlowSynchronizationGroup

CONSTANTS video, audio, data

(* Four ticks a second: video twice a second, the rate the application     *)
(* works with, audio three times in two seconds, data once a second.       *)
MCOutputRate == [num |-> 2, den |-> 1]
MCRate == [r \in Readers |->
    CASE r = video -> MCOutputRate
      [] r = audio -> [num |-> 3, den |-> 2]
      [] r = data  -> [num |-> 1, den |-> 1]]
=============================================================================
