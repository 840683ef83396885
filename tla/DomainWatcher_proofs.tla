------------------------- MODULE DomainWatcher_proofs -------------------------
(***************************************************************************)
(* Proof that the kernel's watches match the watcher's records, for any    *)
(* number of writers, flows and watch descriptors.                         *)
(***************************************************************************)
EXTENDS DomainWatcher, TLAPS

(* The inode of the access file of f is still there.                       *)
Alive(f) == f = access \/ f \in readers

(* What the argument needs to know of the types: flows are numbered in the *)
(* order they were published, and no watch is for one yet to come.         *)
Numbered ==
    /\ published \in Nat /\ access \in 0..published /\ readers \subseteq 1..published
    /\ target \in [Watches -> 0..published]
    /\ active \subseteq Watches /\ leaked \subseteq Watches
    /\ records \subseteq [fw : Writers, wd : Watches, flow : Nat]

(* A watch somebody relies on: the kernel has it if the inode is there.    *)
Relied(w) == w \in Watches /\ target[w] # 0 /\ (Alive(target[w]) => w \in active)

(* The watch of a registration in progress is held like those of records,  *)
(* and is theirs if there are any.                                         *)
Held == IF adding = "none" THEN {} ELSE {wd}

WatchInv ==
    /\ Numbered
    /\ \A w \in Existing \cup Held : Relied(w)
    /\ active \subseteq Existing \cup Held \cup leaked
    /\ records # {} => Held \subseteq Existing

(* What the invariant is about.                                            *)
watched == <<access, published, readers, target, active, records, adding, wd, leaked>>

LEMMA WatchInit == Init => WatchInv
  BY DEF Init, WatchInv, Numbered, Held, Existing, Relied

LEMMA WatchStutter == WatchInv /\ UNCHANGED watched => WatchInv'
  BY DEF WatchInv, Numbered, Held, Existing, Relied, Alive, watched

(* The other processes: what they publish is new, what they remove takes   *)
(* only its own watches along.                                             *)
LEMMA FilesStep ==
  ASSUME WatchInv,
         \/ PublishFlow \/ RemoveAccess \/ OpenReader
         \/ \E f \in Flows : CloseReader(f)
  PROVE  WatchInv'
<1>1. Numbered
  BY DEF WatchInv
<1>2. Existing' = Existing /\ Held' = Held /\ leaked' = leaked /\ target' = target
  BY DEF PublishFlow, RemoveAccess, OpenReader, CloseReader, Existing, Held, watcher, kernel, history
<1>3. records' = records /\ active' \subseteq active
  BY DEF PublishFlow, RemoveAccess, OpenReader, CloseReader, Surviving, watcher, kernel
<1>4. Numbered'
  <2>1. /\ published' \in Nat /\ published <= published'
        /\ access' \in 0..published' /\ readers' \subseteq 1..published'
    <3>1. CASE PublishFlow
      BY <1>1, <3>1 DEF PublishFlow, Numbered
    <3>2. CASE RemoveAccess
      BY <1>1, <3>2 DEF RemoveAccess, Numbered
    <3>3. CASE OpenReader
      BY <1>1, <3>3 DEF OpenReader, Numbered
    <3>4. CASE \E f \in Flows : CloseReader(f)
      BY <1>1, <3>4 DEF CloseReader, Numbered
    <3> QED
      BY <3>1, <3>2, <3>3, <3>4
  <2> QED
    BY <1>1, <1>2, <1>3, <2>1 DEF Numbered
<1>5. ASSUME NEW w \in Watches, Relied(w) PROVE Relied(w)'
  <2>1. target[w] \in 1..published
    BY <1>1, <1>5 DEF Numbered, Relied
  <2>2. CASE PublishFlow
    BY <1>1, <1>2, <1>5, <2>1, <2>2 DEF PublishFlow, Relied, Alive, Numbered, kernel
  <2>3. CASE RemoveAccess
    BY <1>1, <1>2, <1>5, <2>1, <2>3 DEF RemoveAccess, Relied, Alive, Numbered, Surviving, WatchesOf
  <2>4. CASE OpenReader
    BY <1>1, <1>2, <1>5, <2>1, <2>4 DEF OpenReader, Relied, Alive, Numbered, kernel
  <2>5. CASE \E f \in Flows : CloseReader(f)
    BY <1>1, <1>2, <1>5, <2>1, <2>5 DEF CloseReader, Relied, Alive, Numbered, Surviving, WatchesOf
  <2> QED
    BY <2>2, <2>3, <2>4, <2>5
<1>6. \A w \in Existing \cup Held : w \in Watches /\ Relied(w)
  BY DEF WatchInv, Relied
<1> QED
  BY <1>2, <1>3, <1>4, <1>5, <1>6 DEF WatchInv

(* addFlow: a watch that records rely on already, the one the inode has,   *)
(* or a descriptor nobody relies on.                                       *)
LEMMA AddStep ==
  ASSUME WatchInv, NEW w \in Writers, AddFlow(w)
  PROVE  WatchInv'
<1>1. /\ Numbered /\ adding = "none" /\ Held = {}
      /\ \A x \in Existing : Relied(x)
      /\ active \subseteq Existing \cup leaked
  BY DEF WatchInv, AddFlow, Held
<1>2. /\ Existing' = Existing /\ Held' = {wd'} /\ leaked' = leaked /\ records' = records
      /\ access' = access /\ readers' = readers /\ published' = published
  BY WatcherAssumption DEF AddFlow, Existing, Held, files, history
<1>3. CASE wd' \in Existing /\ UNCHANGED <<target, active>>
  <2>1. Numbered' /\ \A x \in Existing : Relied(x)'
    BY <1>1, <1>2, <1>3 DEF Numbered, Relied, Alive
  <2> QED
    BY <1>1, <1>2, <1>3, <2>1 DEF WatchInv
<1>4. CASE /\ Existing = {} /\ access # 0
           /\ wd' \in AddedWatch(access)
           /\ target' = [target EXCEPT ![wd'] = access]
           /\ active' = active \cup {wd'}
  <2>1. wd' \in Watches
    BY <1>1, <1>4 DEF AddedWatch, WatchesOf, Unused, Numbered
  <2>2. Numbered'
    BY <1>1, <1>2, <1>4, <2>1 DEF Numbered
  <2>3. Relied(wd)'
    BY <1>1, <1>2, <1>4, <2>1 DEF Numbered, Relied
  <2>4. records = {}
    BY <1>4 DEF Existing
  <2> QED
    BY <1>1, <1>2, <1>4, <2>2, <2>3, <2>4 DEF WatchInv
<1> QED
  BY <1>3, <1>4 DEF AddFlow

(* Its second half: the record takes the watch over, or nobody does.       *)
LEMMA MapStep ==
  ASSUME WatchInv, MapFlowData, data \in Nat, adding \in Writers
  PROVE  WatchInv'
<1>1. /\ Numbered /\ Held = {wd} /\ Held' = {}
      /\ \A x \in Existing \cup {wd} : Relied(x)
      /\ active \subseteq Existing \cup {wd} \cup leaked
      /\ records # {} => wd \in Existing
  BY DEF WatchInv, MapFlowData, Held
<1>2. UNCHANGED <<access, readers, published, target, active>>
  BY DEF MapFlowData, files, kernel
<1>3. wd \in Watches
  BY <1>1 DEF Relied
<1>4. CASE data # 0
  <2>1. /\ records' = records \cup {[fw |-> adding, wd |-> wd, flow |-> data]}
        /\ leaked' = leaked \ {wd}
    BY <1>4 DEF MapFlowData
  <2> DEFINE new == [fw |-> adding, wd |-> wd, flow |-> data]
  <2>2. Existing' = Existing \cup {wd}
    <3>1. records' = records \cup {new} /\ new.wd = wd
      BY <2>1
    <3> HIDE DEF new
    <3> QED
      BY <3>1 DEF Existing
  <2>3. Numbered'
    BY <1>1, <1>2, <1>3, <2>1 DEF Numbered
  <2>4. \A x \in Existing \cup {wd} : Relied(x)'
    BY <1>1, <1>2 DEF Relied, Alive
  <2> QED
    BY <1>1, <1>2, <2>1, <2>2, <2>3, <2>4 DEF WatchInv
<1>5. CASE data = 0
  <2>1. /\ records' = records /\ Existing' = Existing
        /\ leaked' = IF records = {} THEN leaked \cup {wd} ELSE leaked
    BY <1>5 DEF MapFlowData, Existing
  <2>2. Numbered'
    BY <1>1, <1>2, <1>3, <2>1 DEF Numbered
  <2>3. \A x \in Existing \cup {wd} : Relied(x)'
    BY <1>1, <1>2 DEF Relied, Alive
  <2> QED
    BY <1>1, <1>2, <2>1, <2>2, <2>3 DEF WatchInv
<1> QED
  BY <1>4, <1>5

(* removeFlow: the watch goes with the last record that has it.            *)
LEMMA RemoveStep ==
  ASSUME WatchInv, NEW w \in Writers, RemoveFlow(w)
  PROVE  WatchInv'
<1>1. /\ Numbered /\ adding = "none" /\ Held = {} /\ Held' = {}
      /\ \A x \in Existing : Relied(x)
      /\ active \subseteq Existing \cup leaked
  BY DEF WatchInv, RemoveFlow, Held
<1>2. UNCHANGED <<access, readers, published, target, leaked>>
  BY DEF RemoveFlow, files
<1>3. PICK r \in records :
        /\ records' = records \ {r}
        /\ active' = IF LastOfWatch(r) THEN active \ {r.wd} ELSE active
  BY DEF RemoveFlow
<1>4. Numbered'
  BY <1>1, <1>2, <1>3 DEF Numbered
<1>5. Existing' = {o.wd : o \in records \ {r}}
  BY <1>3 DEF Existing
<1>6. ASSUME NEW x \in Existing' PROVE Relied(x)'
  <2>1. PICK o \in records \ {r} : o.wd = x
    BY <1>5
  <2>2. Relied(x)
    BY <1>1, <2>1 DEF Existing
  <2>3. x \in active => x \in active'
    BY <1>3, <2>1 DEF LastOfWatch
  <2> QED
    BY <1>2, <2>2, <2>3 DEF Relied, Alive
<1>7. active' \subseteq Existing' \cup leaked'
  <2>1. ASSUME NEW x \in active', x \notin leaked PROVE x \in Existing'
    <3>1. x \in active /\ (LastOfWatch(r) => x # r.wd)
      BY <1>3, <2>1
    <3>2. PICK o \in records : o.wd = x
      BY <1>1, <2>1, <3>1 DEF Existing
    <3>3. PICK q \in records \ {r} : q.wd = x
      BY <3>1, <3>2 DEF LastOfWatch
    <3> QED
      BY <1>5, <3>3
  <2> QED
    BY <1>2, <2>1
<1> QED
  BY <1>1, <1>4, <1>6, <1>7 DEF WatchInv

(* The writer in addFlow is one of the instance's, and data files have     *)
(* numbers, too.                                                           *)
Callers == adding \in Writers \cup {"none"} /\ data \in Nat /\ published \in Nat

LEMMA CallersStep == Callers /\ [Next]_vars => Callers'
<1> SUFFICES ASSUME Callers, [Next]_vars PROVE Callers'
  OBVIOUS
<1> USE DEF Callers
<1>1. CASE PublishFlow
  BY <1>1 DEF PublishFlow, watcher
<1>2. CASE RemoveData
  BY <1>2 DEF RemoveData, watcher
<1>3. CASE \E w \in Writers : AddFlow(w)
  BY <1>3 DEF AddFlow, files
<1>4. CASE MapFlowData
  BY <1>4 DEF MapFlowData, files
<1>5. CASE UNCHANGED <<adding, data, published>>
  BY <1>5
<1>6. \/ PublishFlow \/ RemoveData \/ (\E w \in Writers : AddFlow(w)) \/ MapFlowData
      \/ UNCHANGED <<adding, data, published>>
  BY DEF Next, vars, files, kernel, watcher, history, RemoveAccess, OpenReader, CloseReader, Touch, RemoveFlow,
         Thread, Loop, EpollWait, DrainEventFd, ReadEvents, ProcessEventBuffer, Stop, Join
<1> QED
  BY <1>1, <1>2, <1>3, <1>4, <1>5, <1>6

LEMMA WatchStep == WatchInv /\ Callers /\ [Next]_vars => WatchInv'
<1> SUFFICES ASSUME WatchInv, Callers, [Next]_vars PROVE WatchInv'
  OBVIOUS
<1>1. CASE \/ PublishFlow \/ RemoveAccess \/ OpenReader
           \/ \E f \in Flows : CloseReader(f)
  BY <1>1, FilesStep
<1>2. CASE \E w \in Writers : AddFlow(w)
  BY <1>2, AddStep
<1>3. CASE MapFlowData
  <2>1. adding \in Writers /\ data \in Nat
    BY <1>3 DEF MapFlowData, Callers
  <2> QED
    BY <1>3, <2>1, MapStep
<1>4. CASE \E w \in Writers : RemoveFlow(w)
  BY <1>4, RemoveStep
<1>5. CASE \/ RemoveData \/ (\E f \in Flows : Touch(f))
           \/ Thread \/ ProcessEventBuffer \/ Stop \/ Join \/ UNCHANGED vars
  <2>1. UNCHANGED watched
    BY <1>5 DEF watched, vars, files, kernel, watcher, history, RemoveData, Touch, Thread, Loop, EpollWait,
                DrainEventFd, ReadEvents, ProcessEventBuffer, Stop, Join
  <2> QED
    BY <2>1, WatchStutter
<1> QED
  BY <1>1, <1>2, <1>3, <1>4, <1>5 DEF Next

(* However writers come and go and flows are removed and replaced under    *)
(* the watcher, every record has the kernel watch its file while the file  *)
(* is there, and no watch is left over but those of failed registrations.  *)
THEOREM WatchesMatch == Spec => []WatchesMatchRecords
<1>1. Init => WatchInv /\ Callers
  BY WatchInit DEF Init, Callers
<1>2. WatchInv /\ Callers /\ [Next]_vars => (WatchInv /\ Callers)'
  BY WatchStep, CallersStep
<1>3. WatchInv => WatchesMatchRecords
  BY DEF WatchInv, WatchesMatchRecords, Relied, Alive, Held, Existing
<1> QED
  BY <1>1, <1>2, <1>3, PTL DEF Spec

-----------------------------------------------------------------------------
(* Types.                                                                  *)

Flags == wakeup \in BOOLEAN /\ running \in BOOLEAN

(* The rest of TypeOK.                                                     *)
Typed ==
    /\ {access, data, published} \subseteq 0..MaxFlows /\ readers \subseteq Flows
    /\ target \in [Watches -> 0..MaxFlows] /\ active \subseteq Watches
    /\ queue \in Seq(Watches) /\ Len(queue) <= MaxQueue
    /\ records \subseteq Record /\ \A r, o \in records : r.wd = o.wd
    /\ adding \in Writers \cup {"none"} /\ wd \in 0..MaxWatches
    /\ tpc \in {"loop", "epoll", "drain", "read", "process", "exited"}
    /\ buffer \in Seq(Watches) /\ stopping \in {"no", "join", "done"}
    /\ leaked \subseteq Watches /\ unread \subseteq Flows

(* The registration in progress has a watch, which the records share.      *)
TypeInv ==
    /\ Typed
    /\ adding # "none" => wd \in Watches /\ Existing \subseteq {wd}

LEMMA QueuedType ==
  ASSUME Typed, NEW f, Len(queue) < MaxQueue
  PROVE  Queued(queue, f) \in Seq(Watches) /\ Len(Queued(queue, f)) <= MaxQueue
<1> DEFINE hit == WatchesOf(f)
<1>1. queue \in Seq(Watches) /\ Len(queue) \in Nat /\ MaxQueue \in Nat /\ hit \subseteq Watches
  BY WatcherAssumption DEF Typed, WatchesOf
<1>2. CASE hit = {} \/ (queue # <<>> /\ queue[Len(queue)] \in hit)
  BY <1>1, <1>2 DEF Queued
<1>3. CASE ~(hit = {} \/ (queue # <<>> /\ queue[Len(queue)] \in hit))
  <2>1. (CHOOSE w \in hit : TRUE) \in Watches
    BY <1>1, <1>3
  <2>2. Queued(queue, f) = Append(queue, CHOOSE w \in hit : TRUE)
    BY <1>3 DEF Queued
  <2> HIDE DEF hit
  <2> QED
    BY <1>1, <2>1, <2>2
<1> QED
  BY <1>2, <1>3

LEMMA TypeInit == Init => TypeInv /\ Flags
<1>1. Init => Flags
  BY DEF Init, Flags
<1>2. Init => TypeInv
  BY WatcherAssumption DEF Init, TypeInv, Typed, Existing, Record, Watches, Flows
<1> QED
  BY <1>1, <1>2

LEMMA FlagsStep == Flags /\ [Next]_vars => Flags'
<1> SUFFICES ASSUME Flags, [Next]_vars PROVE Flags'
  OBVIOUS
<1>1. CASE DrainEventFd \/ Stop
  BY <1>1 DEF DrainEventFd, Stop, RunningAfterStop, Flags
<1>2. CASE UNCHANGED <<wakeup, running>>
  BY <1>2 DEF Flags
<1>3. DrainEventFd \/ Stop \/ UNCHANGED <<wakeup, running>>
  BY DEF Next, vars, files, kernel, watcher, history, PublishFlow, RemoveData, RemoveAccess, OpenReader, CloseReader,
         Touch, AddFlow, MapFlowData, RemoveFlow, Thread, Loop, EpollWait, ReadEvents, ProcessEventBuffer, Join
<1> QED
  BY <1>1, <1>2, <1>3

LEMMA TypeStep == TypeInv /\ [Next]_vars => TypeInv'
<1> SUFFICES ASSUME TypeInv, [Next]_vars PROVE TypeInv'
  OBVIOUS
<1>n. MaxFlows \in Nat /\ MaxWatches \in Nat /\ MaxQueue \in Nat
  BY WatcherAssumption
<1>t. Typed
  BY DEF TypeInv
<1>1. CASE PublishFlow
  <2>1. Existing' = Existing
    BY <1>1 DEF PublishFlow, watcher, Existing
  <2> QED
    BY <1>1, <1>n, <2>1 DEF TypeInv, Typed, PublishFlow, kernel, watcher, history
<1>2. CASE RemoveData
  <2>1. Existing' = Existing
    BY <1>2 DEF RemoveData, watcher, Existing
  <2> QED
    BY <1>2, <1>n, <2>1 DEF TypeInv, Typed, RemoveData, kernel, watcher, history
<1>3. CASE RemoveAccess
  <2>1. queue' \in Seq(Watches) /\ Len(queue') <= MaxQueue
    BY <1>3, <1>t, QueuedType DEF RemoveAccess
  <2>2. active' \subseteq active /\ unread' \subseteq unread
    BY <1>3 DEF RemoveAccess, Surviving
  <2>3. Existing' = Existing
    BY <1>3 DEF RemoveAccess, Existing, watcher
  <2>4. {access', data', published'} \subseteq 0..MaxFlows
    BY <1>3, <1>n DEF TypeInv, Typed, RemoveAccess
  <2> QED
    BY <1>3, <2>1, <2>2, <2>3, <2>4 DEF TypeInv, Typed, RemoveAccess, watcher
<1>4. CASE OpenReader
  <2>1. Existing' = Existing
    BY <1>4 DEF OpenReader, watcher, Existing
  <2>2. readers' \subseteq Flows
    <3>1. access \in Flows
      BY <1>4, <1>n DEF OpenReader, TypeInv, Typed, Flows
    <3> QED
      BY <1>4, <3>1 DEF OpenReader, TypeInv, Typed
  <2> QED
    BY <1>4, <2>1, <2>2 DEF TypeInv, Typed, OpenReader, kernel, watcher, history
<1>5. ASSUME NEW f \in Flows, CloseReader(f)
      PROVE  TypeInv'
  <2>1. active' \subseteq active /\ unread' \subseteq unread
    BY <1>5 DEF CloseReader, Surviving
  <2> QED
    BY <1>5, <2>1 DEF TypeInv, Typed, CloseReader, Existing, watcher
<1>6. ASSUME NEW f \in Flows, Touch(f)
      PROVE  TypeInv'
  <2>1. queue' \in Seq(Watches) /\ Len(queue') <= MaxQueue
    BY <1>6, <1>t, QueuedType DEF Touch
  <2>2. unread' \subseteq unread \cup {f}
    BY <1>6 DEF Touch
  <2> QED
    BY <1>6, <2>1, <2>2 DEF TypeInv, Typed, Touch, Existing, files, watcher
<1>7. ASSUME NEW w \in Writers, AddFlow(w)
      PROVE  TypeInv'
  <2>1. wd' \in Watches /\ Existing \subseteq {wd'}
    <3>1. CASE wd' \in Existing
      BY <3>1 DEF TypeInv, Typed, Existing, Record
    <3>2. CASE Existing = {} /\ wd' \in AddedWatch(access)
      <4>1. AddedWatch(access) \subseteq Watches
        BY DEF TypeInv, Typed, AddedWatch, WatchesOf, Unused
      <4> QED
        BY <3>2, <4>1
    <3> QED
      BY <1>7, <3>1, <3>2 DEF AddFlow
  <2>2. target' \in [Watches -> 0..MaxFlows] /\ active' \subseteq Watches
    BY <1>7, <2>1 DEF TypeInv, Typed, AddFlow
  <2>3. Existing' = Existing /\ adding' = w
    BY <1>7 DEF AddFlow, Existing
  <2>4. wd' \in 0..MaxWatches
    BY <1>n, <2>1 DEF Watches
  <2> QED
    BY <1>7, <2>1, <2>2, <2>3, <2>4 DEF TypeInv, Typed, AddFlow, files, history
<1>8. CASE MapFlowData
  <2>1. wd \in Watches /\ Existing \subseteq {wd} /\ adding \in Writers /\ unread' \subseteq unread
    BY <1>8 DEF MapFlowData, TypeInv, Typed
  <2>2. records' \subseteq Record /\ \A r, o \in records' : r.wd = o.wd
    <3>1. CASE data # 0 /\ records' = records \cup {[fw |-> adding, wd |-> wd, flow |-> data]}
      <4> DEFINE new == [fw |-> adding, wd |-> wd, flow |-> data]
      <4>1. new \in Record /\ new.wd = wd
        BY <2>1, <3>1, <1>n DEF Record, Flows, TypeInv, Typed
      <4>2. \A r \in records : r.wd = wd
        BY <2>1 DEF Existing
      <4> QED
        BY <3>1, <4>1, <4>2 DEF TypeInv, Typed
    <3>2. CASE records' = records
      BY <3>2 DEF TypeInv, Typed
    <3> QED
      BY <1>8, <3>1, <3>2 DEF MapFlowData
  <2>3. leaked' \subseteq Watches
    <3>1. leaked' \in {leaked, leaked \ {wd}, leaked \cup {wd}}
      BY <1>8 DEF MapFlowData
    <3> QED
      BY <2>1, <3>1 DEF TypeInv, Typed
  <2> QED
    BY <1>8, <1>n, <2>1, <2>2, <2>3 DEF MapFlowData, TypeInv, Typed, files, kernel
<1>9. ASSUME NEW w \in Writers, RemoveFlow(w)
      PROVE  TypeInv'
  <2>1. records' \subseteq records /\ active' \subseteq active /\ unread' \subseteq unread
    BY <1>9 DEF RemoveFlow
  <2> QED
    BY <1>9, <2>1 DEF RemoveFlow, TypeInv, Typed, files
<1>10. CASE Thread
  <2>1. Existing' = Existing
    BY <1>10 DEF Thread, Loop, EpollWait, DrainEventFd, ReadEvents, Existing
  <2>2. Len(<<>>) = 0 /\ <<>> \in Seq(Watches)
    OBVIOUS
  <2>3. CASE Loop
    BY <2>1, <2>3 DEF Loop, TypeInv, Typed, files, kernel, history
  <2>4. CASE EpollWait
    BY <2>1, <2>4 DEF EpollWait, TypeInv, Typed, files, kernel, history
  <2>5. CASE DrainEventFd
    BY <2>1, <2>5 DEF DrainEventFd, TypeInv, Typed, files, history
  <2>6. CASE ReadEvents
    <3>1. queue' \in Seq(Watches) /\ Len(queue') <= MaxQueue
      BY <1>n, <2>2, <2>6 DEF ReadEvents
    <3> QED
      BY <2>1, <2>6, <3>1 DEF ReadEvents, TypeInv, Typed, files, history
  <2> QED
    BY <1>10, <2>3, <2>4, <2>5, <2>6 DEF Thread
<1>11. CASE ProcessEventBuffer
  <2>1. unread' \subseteq unread /\ Existing' = Existing /\ <<>> \in Seq(Watches)
    BY <1>11 DEF ProcessEventBuffer, Existing
  <2> QED
    BY <1>11, <2>1 DEF ProcessEventBuffer, TypeInv, Typed, files, kernel
<1>12. CASE Stop \/ Join
  BY <1>12 DEF Stop, Join, RunningAfterStop, TypeInv, Typed, Existing, files, kernel, history
<1>13. CASE UNCHANGED vars
  BY <1>13 DEF vars, files, kernel, watcher, history, TypeInv, Typed, Existing
<1> QED
  BY <1>1, <1>2, <1>3, <1>4, <1>5, <1>6, <1>7, <1>8, <1>9, <1>10, <1>11, <1>12, <1>13 DEF Next

(* Every variable has its type, and all records of the flow share a watch, *)
(* however registrations and removals of files interleave.                 *)
THEOREM TypeCorrect == Spec => []TypeOK
<1>1. TypeInv /\ Flags => TypeOK
  BY DEF TypeInv, Typed, Flags, TypeOK
<1> QED
  BY <1>1, TypeInit, TypeStep, FlagsStep, PTL DEF Spec

=============================================================================
