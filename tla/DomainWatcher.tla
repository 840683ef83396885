---------------------------- MODULE DomainWatcher ----------------------------
(***************************************************************************)
(* The domain watcher of an instance, on Linux: writers register for the   *)
(* flow of one id, readers in other processes touch the flow's access      *)
(* file, and the watcher's thread turns inotify events into the flow's     *)
(* lastReadTime.                                                           *)
(*                                                                         *)
(*   DomainWatcher   addFlow, removeFlow, processEvents, stop              *)
(*   the kernel      inotify watches, which belong to inodes and go with   *)
(*                   them, the event queue, the eventfd (external)         *)
(*                                                                         *)
(* Flows published under the id are numbered; other processes remove one   *)
(* file by file and publish the next while the watcher works by path.      *)
(***************************************************************************)
EXTENDS Integers, Sequences, FiniteSets

CONSTANTS
    Writers,        \* the flow writers of the instance
    MaxFlows,       \* bound on the flows published under the id
    MaxWatches,     \* bound on the watch descriptors handed out
    MaxQueue        \* bound on the events the kernel has queued

ASSUME WatcherAssumption == {MaxFlows, MaxWatches, MaxQueue} \subseteq Nat /\ "none" \notin Writers

Flows   == 1..MaxFlows
Watches == 1..MaxWatches

VARIABLES
    access,     \* the flow whose access file is at the path, 0: none
    data,       \* the flow whose data file is at the path, 0: none
    published,  \* flows published so far
    readers,    \* flows whose access file some reader has open
    target,     \* watch descriptor -> the flow it was added for, 0: not used yet
    active,     \* watch descriptors the kernel still knows
    queue,      \* descriptors of the events queued
    wakeup,     \* the eventfd is signalled
    records,    \* _watches: writer, watch descriptor, flow whose data is mapped
    adding,     \* the writer in addFlow, which holds the mutex, or "none"
    wd,         \* the watch descriptor addFlow works with
    running,    \* _running
    tpc,        \* where the thread is in processEvents
    buffer,     \* the events it has read
    stopping,   \* "no", "join": stop() waits for the thread, "done"
    leaked,     \* history: watches an addFlow that failed left behind
    unread      \* history: flows touched while watched, not yet recorded

files   == <<access, data, published, readers>>
kernel  == <<target, active, queue, wakeup>>
watcher == <<records, adding, wd, running, tpc, buffer, stopping>>
history == <<leaked, unread>>
vars    == <<files, kernel, watcher, history>>

Record == [fw : Writers, wd : Watches, flow : Flows]

Init ==
    /\ access = 0 /\ data = 0 /\ published = 0 /\ readers = {}
    /\ target = [w \in Watches |-> 0] /\ active = {} /\ queue = <<>> /\ wakeup = FALSE
    /\ records = {} /\ adding = "none" /\ wd = 0
    /\ running = TRUE /\ tpc = "loop" /\ buffer = <<>> /\ stopping = "no"
    /\ leaked = {} /\ unread = {}

-----------------------------------------------------------------------------
(* The kernel: one watch per inode, and no event twice in a row.           *)

WatchesOf(f) == {w \in active : target[w] = f}

Queued(q, f) ==
    LET hit == WatchesOf(f) IN
    IF hit = {} \/ (q # <<>> /\ q[Len(q)] \in hit) THEN q
    ELSE Append(q, CHOOSE w \in hit : TRUE)

(* The watches left when the inode of the access file of f is freed.       *)
Surviving(f, unlinked, open) ==
    IF unlinked /\ ~open THEN active \ WatchesOf(f) ELSE active

(* A flow is watched when each record of its watch has the flow mapped.    *)
IsWatched(f, rs, ws) ==
    /\ \E r \in rs : r.flow = f /\ r.wd \in ws /\ target[r.wd] = f
    /\ \A r \in rs : target[r.wd] = f => r.flow = f

-----------------------------------------------------------------------------
(* The other processes of the domain.                                      *)

PublishFlow ==
    /\ access = 0 /\ data = 0 /\ published < MaxFlows
    /\ published' = published + 1
    /\ access' = published' /\ data' = published'
    /\ UNCHANGED <<readers, kernel, watcher, history>>

RemoveData ==
    /\ data # 0
    /\ data' = 0
    /\ UNCHANGED <<access, published, readers, kernel, watcher, history>>

(* The change of the link count is an attribute change as well.            *)
RemoveAccess ==
    /\ access # 0 /\ Len(queue) < MaxQueue
    /\ access' = 0
    /\ queue' = Queued(queue, access)
    /\ active' = Surviving(access, TRUE, access \in readers)
    /\ unread' = {f \in unread : IsWatched(f, records, active')}
    /\ UNCHANGED <<data, published, readers, target, wakeup, watcher, leaked>>

OpenReader ==
    /\ access # 0
    /\ readers' = readers \cup {access}
    /\ UNCHANGED <<access, data, published, kernel, watcher, history>>

CloseReader(f) ==
    /\ f \in readers
    /\ readers' = readers \ {f}
    /\ active' = Surviving(f, access # f, FALSE)
    /\ unread' = {u \in unread : IsWatched(u, records, active')}
    /\ UNCHANGED <<access, data, published, target, queue, wakeup, watcher, leaked>>

(* updateFileAccessTime of a reader that got a grain or an event.          *)
Touch(f) ==
    /\ f \in readers /\ Len(queue) < MaxQueue
    /\ queue' = Queued(queue, f)
    /\ unread' = IF IsWatched(f, records, active) THEN unread \cup {f} ELSE unread
    /\ UNCHANGED <<files, target, active, wakeup, watcher, leaked>>

-----------------------------------------------------------------------------
(* Registering writers.                                                    *)

IsRegistered(w) == \E r \in records : r.fw = w

Unused == {w \in Watches : target[w] = 0}

(* inotify_add_watch: the watch the inode has, or a new descriptor.        *)
AddedWatch(f) ==
    IF WatchesOf(f) # {} THEN WatchesOf(f)
    ELSE IF Unused # {} THEN {CHOOSE w \in Unused : TRUE} ELSE {}

(* The watches that records of the flow's id have.                         *)
Existing == {r.wd : r \in records}

(* The watch comes from a record of the same id, if there is one, else     *)
(* from the kernel; without an access file the call throws.                *)
AddFlow(w) ==
    /\ adding = "none" /\ ~IsRegistered(w) /\ stopping = "no"
    /\ \/ /\ wd' \in Existing
          /\ UNCHANGED <<target, active>>
       \/ /\ Existing = {} /\ access # 0
          /\ wd' \in AddedWatch(access)
          /\ target' = [target EXCEPT ![wd'] = access]
          /\ active' = active \cup {wd'}
    /\ adding' = w
    /\ UNCHANGED <<files, queue, wakeup, records, running, tpc, buffer, stopping, history>>

(* Mapping the data file, by path; without one the call throws as well.    *)
MapFlowData ==
    /\ adding # "none"
    /\ \/ /\ data # 0
          /\ records' = records \cup {[fw |-> adding, wd |-> wd, flow |-> data]}
          /\ leaked' = leaked \ {wd}
       \/ /\ data = 0
          /\ leaked' = IF records = {} THEN leaked \cup {wd} ELSE leaked
          /\ UNCHANGED records
    /\ unread' = {f \in unread : IsWatched(f, records', active)}
    /\ adding' = "none" /\ wd' = 0
    /\ UNCHANGED <<files, kernel, running, tpc, buffer, stopping>>

LastOfWatch_Any(r) == TRUE

(* Nobody else is interested in what the watch of r tells.                 *)
LastOfWatch(r) == ~\E o \in records \ {r} : o.wd = r.wd

RemoveFlow(w) ==
    /\ adding = "none"
    /\ \E r \in records :
        /\ r.fw = w
        /\ records' = records \ {r}
        /\ active' = IF LastOfWatch(r) THEN active \ {r.wd} ELSE active
    /\ unread' = {f \in unread : IsWatched(f, records', active')}
    /\ UNCHANGED <<files, target, queue, wakeup, adding, wd, running, tpc, buffer, stopping, leaked>>

-----------------------------------------------------------------------------
(* The thread.                                                             *)

Loop ==
    /\ tpc = "loop"
    /\ tpc' = IF running THEN "epoll" ELSE "exited"
    /\ UNCHANGED <<files, kernel, records, adding, wd, running, buffer, stopping, history>>

(* epoll_wait reports one descriptor that is ready, or none after 250 ms.  *)
EpollWait ==
    /\ tpc = "epoll"
    /\ \/ wakeup /\ tpc' = "drain"
       \/ queue # <<>> /\ tpc' = "read"
       \/ ~wakeup /\ queue = <<>> /\ tpc' = "loop"
    /\ UNCHANGED <<files, kernel, records, adding, wd, running, buffer, stopping, history>>

DrainEventFd ==
    /\ tpc = "drain"
    /\ wakeup' = FALSE /\ tpc' = "loop"
    /\ UNCHANGED <<files, target, active, queue, records, adding, wd, running, buffer, stopping, history>>

ReadEvents ==
    /\ tpc = "read"
    /\ buffer' = queue /\ queue' = <<>>
    /\ tpc' = "process"
    /\ UNCHANGED <<files, target, active, wakeup, records, adding, wd, running, stopping, history>>

(* An iteration that ends one event early.                                 *)
Processed_ButLast == {buffer[k] : k \in 1..Len(buffer) - 1}

(* The watches the events in the buffer are about.                         *)
Processed == {buffer[k] : k \in DOMAIN buffer}

(* For each event the first record of its watch has its flow updated; one  *)
(* that no record has any more is passed over.                             *)
ProcessEventBuffer ==
    /\ tpc = "process" /\ adding = "none"
    /\ \E first \in [{r.wd : r \in records} -> records] :
        /\ \A w \in DOMAIN first : first[w].wd = w
        /\ unread' = unread \ {first[w].flow : w \in DOMAIN first \cap Processed}
    /\ buffer' = <<>> /\ tpc' = "loop"
    /\ UNCHANGED <<files, kernel, records, adding, wd, running, stopping, leaked>>

RunningAfterStop_Unchanged == running

RunningAfterStop == FALSE

(* stop() tells the thread to leave and joins it.                          *)
Stop ==
    /\ stopping = "no" /\ adding = "none"
    /\ running' = RunningAfterStop /\ wakeup' = TRUE
    /\ stopping' = "join"
    /\ UNCHANGED <<files, target, active, queue, records, adding, wd, tpc, buffer, history>>

Join ==
    /\ stopping = "join" /\ tpc = "exited"
    /\ stopping' = "done"
    /\ UNCHANGED <<files, kernel, records, adding, wd, running, tpc, buffer, history>>

Thread == Loop \/ EpollWait \/ DrainEventFd \/ ReadEvents

Next ==
    \/ PublishFlow \/ RemoveData \/ RemoveAccess \/ OpenReader
    \/ \E f \in Flows : CloseReader(f) \/ Touch(f)
    \/ \E w \in Writers : AddFlow(w) \/ RemoveFlow(w)
    \/ MapFlowData \/ Thread \/ ProcessEventBuffer \/ Stop \/ Join

Spec == Init /\ [][Next]_vars

(* Calls run to their end, the thread runs, and the mutex that writers may *)
(* take again and again is given to the thread at some time.               *)
FairSpec ==
    Spec /\ WF_vars(MapFlowData) /\ WF_vars(Thread) /\ SF_vars(ProcessEventBuffer) /\ WF_vars(Join)

-----------------------------------------------------------------------------
(* Every variable has its type; the records of a flow share one watch.     *)
TypeOK ==
    /\ {access, data, published} \subseteq 0..MaxFlows /\ readers \subseteq Flows
    /\ target \in [Watches -> 0..MaxFlows] /\ active \subseteq Watches
    /\ queue \in Seq(Watches) /\ Len(queue) <= MaxQueue /\ wakeup \in BOOLEAN
    /\ records \subseteq Record /\ \A r, o \in records : r.wd = o.wd
    /\ adding \in Writers \cup {"none"} /\ wd \in 0..MaxWatches
    /\ running \in BOOLEAN /\ tpc \in {"loop", "epoll", "drain", "read", "process", "exited"}
    /\ buffer \in Seq(Watches) /\ stopping \in {"no", "join", "done"}
    /\ leaked \subseteq Watches /\ unread \subseteq Flows

(* DomainWatcher.hpp:83-84: the kernel watches a file as long as a record  *)
(* has its watch, however many writers came and went, and no longer; what  *)
(* a registration that failed left behind is the exception.                *)
WatchesMatchRecords ==
    /\ \A r \in records :
        target[r.wd] = access \/ target[r.wd] \in readers => r.wd \in active
    /\ adding = "none" => active \subseteq {r.wd : r \in records} \cup leaked

(* DomainWatcher.hpp:55-56: a reader's touch of the access file of a flow  *)
(* that is watched reaches the flow's lastReadTime.                        *)
TouchIsRecorded == \A f \in Flows : f \in unread ~> (f \notin unread \/ ~running)

(* stop() returns, whatever the thread is doing when it is called.         *)
StopReturns == stopping = "join" ~> stopping = "done"

=============================================================================
