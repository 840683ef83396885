------------------------------ MODULE EventLog ------------------------------
(***************************************************************************)
(* What an event flow promises, without slots, tags or crashes: a log that *)
(* only grows, in timestamp order, and readers that receive its entries in *)
(* order.  A reader may be told that it has fallen behind; then the        *)
(* entries it misses are among those the flow no longer retains.           *)
(***************************************************************************)
EXTENDS Integers, Sequences

CONSTANTS
    Readers,    \* the readers of the flow
    Retained,   \* entries the flow keeps, the one being written included
    Events      \* records with a timestamp field ts

VARIABLES
    log,        \* the published events, in order
    cursor,     \* reader -> index (from 0) of the entry it expects
    out         \* reader -> <<event>> after a successful call, <<>> otherwise

vars == <<log, cursor, out>>

Detached == -1

Init ==
    /\ log = <<>>
    /\ cursor = [r \in Readers |-> Detached]
    /\ out = [r \in Readers |-> <<>>]

Publish(e) ==
    /\ log # <<>> => log[Len(log)].ts <= e.ts
    /\ log' = Append(log, e)
    /\ UNCHANGED <<cursor, out>>

(* A reader that attaches starts at or before the oldest retained entry.   *)
Attach(r) ==
    /\ cursor[r] = Detached
    /\ \E c \in 0 .. Len(log) :
          /\ c = 0 \/ c <= Len(log) + 1 - Retained
          /\ cursor' = [cursor EXCEPT ![r] = c]
    /\ UNCHANGED <<log, out>>

Deliver(r) ==
    /\ cursor[r] \in 0 .. Len(log) - 1
    /\ out' = [out EXCEPT ![r] = <<log[cursor[r] + 1]>>]
    /\ cursor' = [cursor EXCEPT ![r] = @ + 1]
    /\ UNCHANGED log

(* Told to be too late: the cursor moves on, over lost entries only.       *)
FallBehind(r) ==
    /\ cursor[r] # Detached
    /\ \E c \in cursor[r] + 1 .. Len(log) + 1 - Retained :
          cursor' = [cursor EXCEPT ![r] = c]
    /\ out' = [out EXCEPT ![r] = <<>>]
    /\ UNCHANGED log

(* A new call begins: the previous event is no longer the result.          *)
Forget(r) ==
    /\ out' = [out EXCEPT ![r] = <<>>]
    /\ UNCHANGED <<log, cursor>>

Next ==
    \/ \E e \in Events : Publish(e)
    \/ \E r \in Readers : Attach(r) \/ Deliver(r) \/ FallBehind(r) \/ Forget(r)

Spec == Init /\ [][Next]_vars
=============================================================================
