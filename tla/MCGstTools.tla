----------------------------- MODULE MCGstTools -----------------------------
(* Bounded instances of GstTools for TLC: a grain lasts two ticks, a batch *)
(* of two samples as long.                                                 *)
EXTENDS GstTools

MCVideoRate == [num |-> 1, den |-> 1]
MCAudioRate == [num |-> 2, den |-> 1]

Setup(f, t, v, a, o, n) ==
    [format |-> f, tool |-> t, view |-> v, auto |-> a, offset |-> o, shifts |-> n]

MCSetups ==
    {Setup("video", "testsrc", "single", TRUE, 1, 1), Setup("video", "looping", "multi", TRUE, 0, 1),
     Setup("audio", "looping", "single", FALSE, 0, 2)}

MCShifts == {-2, -1, 1}
=============================================================================
