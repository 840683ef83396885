------------------------------ MODULE RCTarget ------------------------------
(***************************************************************************)
(* A connected target (RCTarget).  It serves one connection at a time:     *)
(* while "Listening" it has a passive endpoint, which is given up when a   *)
(* request is accepted ("Waiting"), and after the connection ("Connected") *)
(* is shut down it listens anew.  readNext is the only thing it does.      *)
(*                                                                         *)
(* eq is the queue of the endpoint of the moment, cq the notifications     *)
(* that arrived with remote writes, peer the endpoint it accepted.         *)
(***************************************************************************)
EXTENDS Naturals, Sequences

NoPeer == 0

\* makeListener(): a passive endpoint with an event queue of its own.
Listener == [st |-> "Listening", peer |-> NoPeer, eq |-> <<>>, cq |-> 0]

\* Accepting opens a completion queue and another event queue: requests
\* that wait in the old one are lost with it.
Accepted(id) == [st |-> "Waiting", peer |-> id, eq |-> <<>>, cq |-> 0]

\* An event that does not mean "connected" is dropped, an error too.
ReadWhileWaiting(t) ==
    [t EXCEPT !.eq = Tail(@),
              !.st = IF Head(t.eq).event = "Connected" THEN "Connected" ELSE @]

\* Endpoint::readQueues takes an entry of either queue; the blocking variant
\* leaves the completions alone when there is an event.  A shutdown wins over
\* a notification read with it, which is lost.
ReadWhileConnected_CompletionFirst(t, both) ==
    IF t.eq # <<>> /\ Head(t.eq).event = "Shutdown" /\ t.cq = 0
    THEN Listener
    ELSE [t EXCEPT !.eq = IF @ = <<>> THEN @ ELSE Tail(@),
                   !.cq = IF @ > 0 THEN @ - 1 ELSE @]

ReadWhileConnected(t, both) ==
    IF t.eq # <<>> /\ Head(t.eq).event = "Shutdown"
    THEN Listener
    ELSE [t EXCEPT !.eq = IF @ = <<>> THEN @ ELSE Tail(@),
                   !.cq = IF @ > 0 /\ (both \/ t.eq = <<>>) THEN @ - 1 ELSE @]
=============================================================================
