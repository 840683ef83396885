---------------------------- MODULE RCConnection ----------------------------
(***************************************************************************)
(* A connected initiator (RCInitiator), its targets and the fabric.  One   *)
(* thread adds and removes targets, posts transfers and calls              *)
(* makeProgress; another one reads each target; the fabric connects,       *)
(* completes and breaks connections between any two of their steps.        *)
(***************************************************************************)
EXTENDS RCInitiator, RCTarget, Integers, FiniteSets

CONSTANTS Peers,        \* targets, named by their TargetInfo
          Ids,          \* ids of endpoints, never used twice, ordered
          Planes,       \* writes per transfer
          Modes,        \* subset of {"poll", "block", "short"}
          MaxPending,   \* bounds the writes an endpoint waits for
          TargetDepth,  \* notifications a target has room for
          MaxFailures   \* bounds the connections that break

ASSUME RCAssumption ==
    /\ Peers # {}
    /\ Ids \subseteq Nat \ {NoPeer} /\ IsFiniteSet(Ids)
    /\ Planes \in Nat \ {0}
    /\ Modes \subseteq {"poll", "block", "short"}
    /\ MaxPending \in Nat
    /\ TargetDepth \in Nat \ {0}
    /\ MaxFailures \in Nat

VARIABLES
    ep,        \* _targets: the endpoint of every id, or Absent
    info,      \* the target an id was added for
    unused,    \* ids not handed out yet
    pc,        \* what the initiator's thread does: "app", a phase of
               \* makeProgress, "sleep" in the queue, or "crashed"
    mode,      \* "poll", "block" or "short" (less than EQPollInterval)
    cq, eq,    \* completion and event queue of the initiator
    link,      \* the fabric's side of the connection of an id
    wire,      \* writes under way: does the write carry immediate data?
    target,    \* the state of every target
    failures   \* connections that broke so far

vars == <<ep, info, unused, pc, mode, cq, eq, link, wire, target, failures>>

initiator == <<ep, info, unused, pc, mode>>

Init ==
    /\ ep = [id \in Ids |-> Absent]
    /\ info = [id \in Ids |-> CHOOSE p \in Peers : TRUE]
    /\ unused = Ids
    /\ pc = "app" /\ mode = "poll"
    /\ cq = <<>> /\ eq = <<>>
    /\ link = [id \in Ids |-> "none"]
    /\ wire = [id \in Ids |-> <<>>]
    /\ target = [p \in Peers |-> Listener]
    /\ failures = 0

Present == {id \in Ids : ep[id].st # "Absent"}

\* afterProgressResult() after a step to endpoints e: Ready, or not.
Ready(e) == \A id \in Ids : ~HasPendingWork(e[id])

-----------------------------------------------------------------------------
\* What the fabric does when endpoints are closed, shut down or connected.

\* fi_close discards the writes under way.  Entries that are in the
\* completion queue may stay there or not; events of the endpoint do not.
Closed(e) == {id \in Ids : HasEndpoint(ep[id]) /\ ~HasEndpoint(e[id])}

ShutDown(e) ==
    {id \in Ids : ep[id].st = "Connected" /\ e[id].st = "Flushing" /\ link[id] = "up"}

Notify(t, id, event) == [t EXCEPT !.eq = Append(@, [id |-> id, event |-> event])]

Hears(p, id) == target[p].peer = id /\ link[id] \in {"accepted", "up"}

\* What stays of queue q without the entries of the closed ones, in order.
Without(q, closed) ==
    LET left  == {i \in DOMAIN q : q[i].id \notin closed}
        at(k) == CHOOSE i \in left : Cardinality({j \in left : j <= i}) = k
    IN  [k \in 1 .. Cardinality(left) |-> q[at(k)]]

\* The endpoints become e; q and v is what is left in the queues.
Settle(e, q, v) ==
    /\ ep' = e
    /\ \E kept \in BOOLEAN :
          cq' = IF kept THEN q ELSE Without(q, Closed(e))
    /\ eq' = Without(v, Closed(e))
    /\ wire' = [id \in Ids |-> IF id \in Closed(e) THEN <<>> ELSE wire[id]]
    /\ link' = [id \in Ids |->
                  CASE id \in Closed(e)   -> "none"
                    [] id \in ShutDown(e) -> "closing"
                    [] ep[id].st = "Idle" /\ e[id].st = "Connecting" -> "requested"
                    [] OTHER              -> link[id]]
    /\ target' = [p \in Peers |->
                    IF \E id \in Closed(e) \cup ShutDown(e) : Hears(p, id)
                    THEN Notify(target[p], target[p].peer, "Shutdown") ELSE target[p]]
    /\ UNCHANGED <<info, failures>>

-----------------------------------------------------------------------------
\* The application.

AddTarget(p) ==
    /\ pc = "app"
    /\ \E id \in unused :
          /\ ep' = [ep EXCEPT ![id] = FreshEndpoint]
          /\ info' = [info EXCEPT ![id] = p]
          /\ unused' = unused \ {id}
    /\ UNCHANGED <<pc, mode, cq, eq, link, wire, target, failures>>

\* find_if takes the first endpoint of the target in the order of the ids,
\* even one that is on its way out.
RemoveTarget(p) ==
    LET found == {id \in Present : info[id] = p}
        first == CHOOSE id \in found : \A other \in found : id <= other
    IN  /\ pc = "app"
        /\ found # {}
        /\ Settle([ep EXCEPT ![first] = ShutdownEndpoint(@)], cq, eq)
        /\ UNCHANGED <<unused, pc, mode>>

\* The writes of a transfer: Planes to every connected endpoint in the order
\* of the ids, the last one of an endpoint with immediate data.  When posting
\* fails, an exception ends the transfer after n of them.
Share(id, n) ==
    LET before == Cardinality({i \in Ids : i < id /\ ep[i].st = "Connected"})
        left   == n - Planes * before
    IN  IF ep[id].st # "Connected" \/ left <= 0 THEN 0
        ELSE IF left >= Planes THEN Planes ELSE left

TransferGrain ==
    LET connected == {id \in Ids : ep[id].st = "Connected"}
    IN  /\ pc = "app"
        /\ connected # {}
        /\ \A id \in connected : ep[id].pending + Planes <= MaxPending
        /\ \E n \in 0 .. Planes * Cardinality(connected) :
              /\ ep' = [id \in Ids |-> Posted(ep[id], Share(id, n))]
              /\ wire' = [id \in Ids |->
                            wire[id] \o [k \in 1 .. Share(id, n) |-> k = Planes]]
        /\ UNCHANGED <<info, unused, pc, mode, cq, eq, link, target, failures>>

-----------------------------------------------------------------------------
\* makeProgress(): activate, drain the completions, drain the events, evict.

\* The thread goes on at next, or returns to the application.
Goto(next) ==
    /\ pc' = next
    /\ mode' = IF next = "app" THEN "poll" ELSE mode

\* makeProgress() throws when there is no target, in the loop of
\* makeProgressBlocking() too.
ActivateIdle ==
    /\ \/ pc = "app" /\ Present # {} /\ pc' = "cq" /\ mode' \in Modes
       \/ pc = "activate" /\ Goto(IF Present = {} THEN "app" ELSE "cq")
    /\ Settle([id \in Ids |-> Activate(ep[id])], cq, eq)
    /\ UNCHANGED unused

\* A completion of an endpoint that is gone is skipped.
PollCompletion ==
    /\ pc = "cq"
    /\ cq # <<>>
    /\ Settle([ep EXCEPT ![Head(cq).id] = ConsumeCompletion(@, Head(cq).ok)], Tail(cq), eq)
    /\ UNCHANGED <<unused, pc, mode>>

CompletionsDrained ==
    /\ pc = "cq"
    /\ cq = <<>>
    /\ Settle([id \in Ids |-> Terminate(ep[id])], cq, eq)
    /\ pc' = "eq"
    /\ UNCHANGED <<unused, mode>>

PollEvent ==
    /\ pc = "eq"
    /\ eq # <<>>
    /\ Settle([ep EXCEPT ![Head(eq).id] = ConsumeEvent(@, Head(eq).event)], cq, Tail(eq))
    /\ UNCHANGED <<unused, pc, mode>>

\* The loop of makeProgressBlocking() goes on until it is ready or its time
\* is up, at any moment.
Continue(e, next) ==
    \/ Goto(next) /\ ~(mode = "block" /\ Ready(e))
    \/ Goto("app") /\ mode = "block"

\* Evict the dead, then return, or block on the completion queue.
EvictDead ==
    LET e == [id \in Ids |-> IF CanEvict(ep[id]) THEN Absent ELSE ep[id]]
    IN  /\ pc = "eq"
        /\ eq = <<>>
        /\ Settle(e, cq, eq)
        /\ IF mode = "poll" THEN Goto("app") ELSE Continue(e, "sleep")
        /\ UNCHANGED unused

\* blockOnCQ(): one completion.  That of an endpoint that is gone goes through
\* the end iterator of the map.
Wakes(e) == IF mode = "short" THEN Goto("app") ELSE Continue(e, "activate")

TakeCompletion ==
    LET c == Head(cq)
        e == [ep EXCEPT ![c.id] = ConsumeCompletion(@, c.ok)]
    IN  /\ pc = "sleep"
        /\ cq # <<>>
        /\ Settle(e, Tail(cq), eq)
        /\ IF c.id \in Present THEN Wakes(e) ELSE Goto("crashed")
        /\ UNCHANGED unused

SleepTimeout ==
    LET e == [id \in Ids |-> Terminate(ep[id])]
    IN  /\ pc = "sleep"
        /\ cq = <<>>
        /\ Settle(e, cq, eq)
        /\ Wakes(e)
        /\ UNCHANGED unused

Interrupted ==
    /\ pc = "sleep"
    /\ Goto("app")
    /\ UNCHANGED <<ep, info, unused, cq, eq, link, wire, target, failures>>

\* Five seconds pass.
Rest(id) ==
    /\ ep[id].st = "Idle" /\ ~ep[id].rested
    /\ ep' = [ep EXCEPT ![id].rested = TRUE]
    /\ UNCHANGED <<info, unused, pc, mode, cq, eq, link, wire, target, failures>>

-----------------------------------------------------------------------------
\* The fabric.

Raise(id, event) == eq' = Append(eq, [id |-> id, event |-> event])

\* A request reaches the passive endpoint of its target.
DeliverRequest(id) ==
    /\ link[id] = "requested"
    /\ target[info[id]].st = "Listening"
    /\ link' = [link EXCEPT ![id] = "queued"]
    /\ target' = [target EXCEPT ![info[id]] = Notify(@, id, "Request")]
    /\ UNCHANGED <<initiator, cq, eq, wire, failures>>

\* No connection comes about.
RefuseRequest(id) ==
    /\ link[id] \in {"requested", "queued", "accepted"}
    /\ failures < MaxFailures
    /\ failures' = failures + 1
    /\ \E event \in {"Error", "Shutdown"} : Raise(id, event)
    /\ target' = IF link[id] = "accepted"
                 THEN [target EXCEPT ![info[id]] = Notify(@, id, "Error")] ELSE target
    /\ link' = [link EXCEPT ![id] = "down"]
    /\ UNCHANGED <<initiator, cq, wire>>

Establish(id) ==
    /\ link[id] = "accepted"
    /\ link' = [link EXCEPT ![id] = "up"]
    /\ Raise(id, "Connected")
    /\ target' = [target EXCEPT ![info[id]] = Notify(@, id, "Connected")]
    /\ UNCHANGED <<initiator, cq, wire, failures>>

\* The connection breaks, or the remote end closes it.  Each end is told by a
\* shutdown or by an error, whatever the other one is told.
Disconnect(id) ==
    /\ link[id] = "up"
    /\ failures < MaxFailures
    /\ failures' = failures + 1
    /\ link' = [link EXCEPT ![id] = "down"]
    /\ \E event \in {"Error", "Shutdown"} : Raise(id, event)
    /\ \E event \in {"Error", "Shutdown"} :
          target' = [target EXCEPT ![info[id]] = Notify(@, id, event)]
    /\ UNCHANGED <<initiator, cq, wire>>

\* What fi_shutdown started is over.
CloseConfirmed(id) ==
    /\ link[id] = "closing"
    /\ link' = [link EXCEPT ![id] = "down"]
    /\ \E event \in {"Error", "Shutdown"} : Raise(id, event)
    /\ UNCHANGED <<initiator, cq, wire, target, failures>>

\* The oldest write is done, or failed because the connection is going away.
\* A write with immediate data waits until the target has room for it.
Complete(id, ok) ==
    LET notifies == ok /\ Head(wire[id]) /\ target[info[id]].peer = id
    IN  /\ wire[id] # <<>>
        /\ IF ok THEN link[id] \in {"up", "closing"} ELSE link[id] \in {"closing", "down"}
        /\ notifies => target[info[id]].cq < TargetDepth
        /\ cq' = Append(cq, [id |-> id, ok |-> ok])
        /\ wire' = [wire EXCEPT ![id] = Tail(@)]
        /\ target' = IF notifies THEN [target EXCEPT ![info[id]].cq = @ + 1] ELSE target
        /\ UNCHANGED <<initiator, eq, link, failures>>

-----------------------------------------------------------------------------
\* The thread of a target.

Accept(p) ==
    /\ target[p].st = "Listening"
    /\ target[p].eq # <<>>
    /\ LET id == Head(target[p].eq).id
       IN  /\ target' = [target EXCEPT ![p] = Accepted(id)]
           /\ link' = [link EXCEPT ![id] = IF @ = "queued" THEN "accepted" ELSE @]
    /\ UNCHANGED <<initiator, cq, eq, wire, failures>>

ReadTarget(p) ==
    /\ \/ /\ target[p].st = "Waiting"
          /\ target[p].eq # <<>>
          /\ target' = [target EXCEPT ![p] = ReadWhileWaiting(@)]
       \/ /\ target[p].st = "Connected"
          /\ target[p].eq # <<>> \/ target[p].cq > 0
          /\ \E both \in BOOLEAN : target' = [target EXCEPT ![p] = ReadWhileConnected(@, both)]
    /\ UNCHANGED <<initiator, cq, eq, link, wire, failures>>

-----------------------------------------------------------------------------
Progress ==
    \/ ActivateIdle \/ PollCompletion \/ CompletionsDrained \/ PollEvent \/ EvictDead
    \/ TakeCompletion \/ SleepTimeout

Next ==
    \/ \E p \in Peers : AddTarget(p) \/ RemoveTarget(p) \/ Accept(p) \/ ReadTarget(p)
    \/ TransferGrain
    \/ Progress
    \/ Interrupted
    \/ \E id \in Ids :
          \/ Rest(id) \/ DeliverRequest(id) \/ RefuseRequest(id) \/ Establish(id)
          \/ Disconnect(id) \/ CloseConfirmed(id)
          \/ \E ok \in BOOLEAN : Complete(id, ok)

Spec == Init /\ [][Next]_vars

\* The threads keep running and the application keeps calling makeProgress,
\* as fabrics.h asks it to; nothing is asked of the fabric.
FairSpec ==
    /\ Spec
    /\ WF_vars(Progress)
    /\ \A p \in Peers : WF_vars(Accept(p)) /\ WF_vars(ReadTarget(p))

-----------------------------------------------------------------------------
\* Every variable has its type: in particular no counter of writes falls
\* below zero, where the std::size_t of the protocol would wrap around.
TypeOK ==
    /\ ep \in [Ids -> [st : States, rested : BOOLEAN, pending : 0 .. MaxPending]]
    /\ info \in [Ids -> Peers]
    /\ unused \subseteq Ids
    /\ pc \in {"app", "activate", "cq", "eq", "sleep", "crashed"}
    /\ mode \in Modes \cup {"poll"}
    /\ cq \in Seq([id : Ids, ok : BOOLEAN])
    /\ eq \in Seq([id : Ids, event : Events])
    /\ link \in [Ids -> {"none", "requested", "queued", "accepted", "up", "closing", "down"}]
    /\ wire \in [Ids -> Seq(BOOLEAN)]
    /\ \A p \in Peers : /\ target[p].st \in {"Listening", "Waiting", "Connected"}
                        /\ target[p].peer \in Ids \cup {NoPeer}
                        /\ target[p].cq \in 0 .. TargetDepth
                        /\ target[p].eq \in Seq([id : Ids, event : Events \cup {"Request"}])
    /\ failures \in 0 .. MaxFailures

\* When makeProgress has nothing more to wait for, no write is under way: the
\* fabric neither reads the memory of the flow nor writes to a target any
\* more, whatever restarts, removals and failures came before
\* (afterProgressResult, fabrics.h: a transfer is over when makeProgress no
\* longer returns MXL_ERR_NOT_READY).
ReadyIsQuiet == Ready(ep) => \A id \in Ids : wire[id] = <<>>

\* While connected the protocol waits for at least the writes that are under
\* way or whose completion is still queued; as long as the connection never
\* failed, for exactly these (_pending, handleCompletionData).
Outstanding(id) ==
    Len(wire[id]) + Cardinality({i \in DOMAIN cq : cq[i].id = id /\ cq[i].ok})

WritesAccounted ==
    \A id \in Ids :
       ep[id].st = "Connected" =>
          /\ ep[id].pending >= Outstanding(id)
          /\ failures = 0 => ep[id].pending = Outstanding(id)

\* A target that is being shut down goes away, whatever the fabric reports
\* about it, as long as the application calls makeProgress (terminate,
\* evictDeadEndpoints).
ShutdownCompletes ==
    \A id \in Ids : ep[id].st = "Flushing" ~> (ep[id].st = "Absent" \/ pc = "crashed")

\* A connected target that is told of the shutdown of its connection listens
\* again, whatever events and notifications come before it or are read with it
\* (RCTarget::readNext).
ToldOfShutdown(p) ==
    \E k \in DOMAIN target[p].eq : target[p].eq[k].event = "Shutdown"

PeerLossNoticed ==
    \A p \in Peers :
       (target[p].st = "Connected" /\ ToldOfShutdown(p)) ~> target[p].st = "Listening"

\* A connected target whose connection is gone listens again: not so where the
\* end of the connection is told by an error, which RCTarget.cpp:165 passes over.
LossEndsConnection ==
    \A p \in Peers :
       (target[p].st = "Connected" /\ link[target[p].peer] # "up")
          ~> target[p].st = "Listening"

\* fabrics.h on mxlFabricsInitiatorRemoveTarget: no new transfer is queued
\* for a target after it was removed.
RemovedStaysRemoved ==
    [][\A p \in Peers :
          RemoveTarget(p) =>
             \A id \in Present : info[id] = p => ep'[id].st \in {"Flushing", "Done"}]_vars

\* A thread blocked on the completion queue never meets a completion of a
\* target it has forgotten, which blockOnCQ would look for behind the end of
\* the map: an endpoint dies only where the queue was found empty (terminate),
\* or before it could write.
NoCrash == pc # "crashed"
=============================================================================
