---------------------------- MODULE MCMxlElements ----------------------------
(* Bounded instances of MxlElements for TLC: pictures of two ticks and      *)
(* samples of half a tick, and clocks that differ by five.                  *)
EXTENDS MxlElements

CONSTANTS video, audio, first, second

MCRate == [f \in Flows |-> [num |-> IF f = audio THEN 4 ELSE 1, den |-> 1]]
MCMaxUnits == [f \in Flows |-> IF f = audio THEN 12 ELSE 4]
MCBias == [c \in {first, second} |-> IF c = first THEN 0 ELSE 5]
MCMaxTime == [fs \in SUBSET Flows |-> IF fs = {video} THEN 6 ELSE IF fs = {audio} THEN 4 ELSE 3]
MCFirstClock == [p \in {"sink", "src"} |-> IF p = "sink" THEN first ELSE second]
==============================================================================
