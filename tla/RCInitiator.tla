---------------------------- MODULE RCInitiator ----------------------------
(***************************************************************************)
(* The endpoint of a connected initiator (RCInitiatorEndpoint): one per    *)
(* added target, a state machine over "Idle", "Connecting", "Connected",   *)
(* "Flushing" and "Done" with the write counter of its egress protocol.    *)
(* The handlers are operators from the record before to the record after;  *)
(* RCConnection drives them and derives what the fabric does from them.    *)
(*                                                                         *)
(* rested: the endpoint has been idle for five seconds, which an endpoint  *)
(* just added counts as.  pending: the writes the protocol still waits for.*)
(* The copy of the counter a flushing endpoint keeps is left out: it is    *)
(* counted down and never looked at.                                       *)
(***************************************************************************)
EXTENDS Integers

States == {"Absent", "Idle", "Connecting", "Connected", "Flushing", "Done"}

Events == {"Connected", "Error", "Shutdown"}

\* An id that is not in the map of targets.
Absent == [st |-> "Absent", rested |-> FALSE, pending |-> 0]

\* RCInitiatorEndpoint(): idle since the epoch, so activated at once.
FreshEndpoint == [st |-> "Idle", rested |-> TRUE, pending |-> 0]

HasEndpoint(e) == e.st \in {"Connecting", "Connected", "Flushing"}

CanEvict(e) == e.st = "Done"

HasPendingWork_NotWhileFlushing(e) ==
    \/ e.st \in {"Idle", "Connecting"}
    \/ e.st = "Connected" /\ e.pending > 0

HasPendingWork(e) ==
    \/ e.st \in {"Idle", "Connecting", "Flushing"}
    \/ e.st = "Connected" /\ e.pending > 0

\* A new fabric endpoint under the id of the old one.  The counter of the
\* protocol is not touched.
Restart(e) == [e EXCEPT !.st = "Idle", !.rested = FALSE]

Flush(e) == [e EXCEPT !.st = "Flushing", !.pending = 0]

Finish(e) == [e EXCEPT !.st = "Done"]

ShutdownEndpoint(e) ==
    CASE e.st \in {"Idle", "Connecting"} -> Finish(e)
      [] e.st = "Connected"              -> Flush(e)
      [] OTHER                           -> e

\* Called on every endpoint once the completion queue was found empty.
Terminate_WaitsForError(e) == e

Terminate(e) == IF e.st = "Flushing" THEN Finish(e) ELSE e

Activate(e) ==
    IF e.st = "Idle" /\ e.rested
    THEN [e EXCEPT !.st = "Connecting", !.rested = FALSE]
    ELSE e

ConsumeEvent_NoFlush(e, event) ==
    CASE e.st = "Connecting" /\ event = "Connected" -> [e EXCEPT !.st = "Connected"]
      [] e.st \in {"Connecting", "Connected"}        -> Finish(e)
      [] OTHER                                       -> e

ConsumeEvent(e, event) ==
    CASE e.st = "Connecting" /\ event = "Connected"          -> [e EXCEPT !.st = "Connected"]
      [] e.st = "Connecting" /\ event \in {"Error", "Shutdown"} -> Restart(e)
      [] e.st = "Connected" /\ event = "Error"               -> Restart(e)
      [] e.st = "Connected" /\ event = "Shutdown"            -> Flush(e)
      [] e.st = "Flushing" /\ event = "Error"                -> Finish(e)
      [] OTHER                                               -> e

\* Only a completion that carries data is counted, and only while connected.
\* The counter is a std::size_t: below zero is where it would wrap around.
ConsumeCompletion_Always(e, ok) ==
    IF e.st # "Absent" THEN [e EXCEPT !.pending = @ - 1] ELSE e

ConsumeCompletion(e, ok) ==
    IF ok /\ e.st = "Connected" THEN [e EXCEPT !.pending = @ - 1] ELSE e

\* The protocol posted n writes for the transfer.
Posted_OnlyImmediate(e, n) ==
    IF e.st = "Connected" THEN [e EXCEPT !.pending = @ + (IF n > 0 THEN 1 ELSE 0)] ELSE e

Posted(e, n) == IF e.st = "Connected" THEN [e EXCEPT !.pending = @ + n] ELSE e
=============================================================================
