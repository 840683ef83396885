---------------------------- MODULE MCEventRing ----------------------------
(* Bounded instances of EventRing for TLC.                                 *)
EXTENDS EventRing

(* Two timestamps, sizes zero and one, two contents of a payload word.     *)
MCEvents ==
    {[ts |-> 0, size |-> 1, body |-> <<1>>],
     [ts |-> 1, size |-> 0, body |-> <<>>],
     [ts |-> 1, size |-> 1, body |-> <<0>>]}
=============================================================================
