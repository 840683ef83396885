---------------------------- MODULE FlowLifecycle ----------------------------
(***************************************************************************)
(* The life of a flow in a domain: instances in several processes create,  *)
(* open, release and garbage collect the flow of one id.                   *)
(*                                                                         *)
(*   FlowManager        publishing a new flow directory by renaming it,    *)
(*                      opening an existing one, deleteFlow                *)
(*   SharedMemoryBase   the advisory lock on the data file and its upgrade *)
(*   Instance           the reference counted reader and writer of a flow, *)
(*                      their release, ~Instance, garbageCollect           *)
(*                                                                         *)
(* Each directory published under the id has a number, 1, 2, ...; it holds *)
(* the data file and the rings (grains, channels or events).  Opening goes *)
(* by path, locks belong to open files, removing unlinks one file after    *)
(* the other: other processes act between any two of these steps.  Calls   *)
(* of one instance exclude each other (Instance::_mutex), except for       *)
(* garbageCollect, which takes no lock.                                    *)
(***************************************************************************)
EXTENDS Integers, FiniteSets

CONSTANTS
    Instances,      \* the MXL instances of the domain
    Producers,      \* those that create flow writers
    Consumers,      \* those that open flow readers
    Collectors,     \* those that collect garbage
    MaxFlows,       \* bound on the directories published under the id
    MaxReferences,  \* bound on the references to a reader or a writer
    MaxCrashes      \* bound on the number of processes that die

ASSUME LifecycleAssumption ==
    /\ Producers \cup Consumers \cup Collectors \subseteq Instances
    /\ {MaxFlows, MaxReferences, MaxCrashes} \subseteq Nat

Parts   == {"data", "rings"}
Handles == {"writer", "reader", "opening", "collecting"}
Flows   == 0..MaxFlows                          \* 0: none

(* What a process has open: the directory its data file came from, the one *)
(* its rings came from, and the lock it holds on the data file.            *)
Handle   == [data : Flows, rings : Flows, lock : {"none", "shared", "exclusive"}]
NoHandle == [data |-> 0, rings |-> 0, lock |-> "none"]

VARIABLES
    path,       \* the directory at the flow's path
    parts,      \* directory -> files still in it
    made,       \* directories published so far
    open,       \* instance -> handle -> what it has open
    writers,    \* instance -> references to its writer
    readers,    \* instance -> references to its reader
    pc,         \* instance -> where it is in a call made under its mutex
    mode,       \* instance -> whether the flow is being opened to read or to write
    gcpc,       \* instance -> where it is in garbageCollect
    doomed,     \* instance -> call -> the directory its remove_all descends into
    deserted,   \* history: the last lock on the flow was let go by a call that was refused
    crashes     \* processes that died

disk == <<path, parts, made>>
refs == <<writers, readers>>
vars == <<disk, open, refs, pc, mode, gcpc, doomed, deserted, crashes>>

Init ==
    /\ path = 0 /\ made = 0
    /\ parts = [f \in Flows |-> {}]
    /\ open = [i \in Instances |-> [h \in Handles |-> NoHandle]]
    /\ writers = [i \in Instances |-> 0]
    /\ readers = [i \in Instances |-> 0]
    /\ pc = [i \in Instances |-> "idle"]
    /\ mode = [i \in Instances |-> "none"]
    /\ gcpc = [i \in Instances |-> "idle"]
    /\ doomed = [i \in Instances |-> [c \in {"release", "collect"} |-> 0]]
    /\ deserted = FALSE /\ crashes = 0

Goto(i, where)   == pc' = [pc EXCEPT ![i] = where]
GcGoto(i, where) == gcpc' = [gcpc EXCEPT ![i] = where]
Open(i, h, handle) == open' = [open EXCEPT ![i][h] = handle]

-----------------------------------------------------------------------------
(* The advisory lock.                                                      *)

(* The files others have open with a lock on the data file of f.           *)
OthersLocking(i, h, f) ==
    {o \in Instances \X Handles :
        o # <<i, h>> /\ open[o[1]][o[2]].data = f /\ open[o[1]][o[2]].lock # "none"}

CanShare(i, h, f) ==
    \A o \in OthersLocking(i, h, f) : open[o[1]][o[2]].lock = "shared"

(* The shared lock taken again after an upgrade that failed.               *)
FailedUpgrade_LockedAgain == "shared"

(* flock() converts a lock by giving it up first: where another lock is in *)
(* the way of the exclusive one, the shared one is gone as well.           *)
FailedUpgrade == "none"

LockAfterUpgrade(i, h) ==
    IF OthersLocking(i, h, open[i][h].data) = {} THEN "exclusive" ELSE FailedUpgrade

-----------------------------------------------------------------------------
(* Creating and opening.                                                   *)

(* createFlowWriter always comes to the file system first: what it opens   *)
(* is dropped again where the instance already has a writer of the flow.   *)
CreateFlowWriter(i) ==
    /\ i \in Producers /\ pc[i] = "idle" /\ writers[i] < MaxReferences
    /\ Goto(i, "publish")
    /\ mode' = [mode EXCEPT ![i] = "write"]
    /\ UNCHANGED <<disk, open, refs, gcpc, doomed, deserted, crashes>>

(* The prepared directory is renamed unless there is one of that name.     *)
PublishFlow(i) ==
    /\ pc[i] = "publish"
    /\ \/ /\ path = 0 /\ made < MaxFlows
          /\ made' = made + 1
          /\ path' = made + 1
          /\ parts' = [parts EXCEPT ![made + 1] = Parts]
          /\ Open(i, "opening", [data |-> made + 1, rings |-> made + 1, lock |-> "shared"])
          /\ Goto(i, "register")
          /\ deserted' = FALSE
       \/ /\ path # 0
          /\ Goto(i, "data")
          /\ UNCHANGED <<disk, open, deserted>>
    /\ UNCHANGED <<refs, mode, gcpc, doomed, crashes>>

(* getFlowReader: the reader the instance has, or a new one.               *)
GetFlowReader(i) ==
    /\ i \in Consumers /\ pc[i] = "idle" /\ readers[i] < MaxReferences
    /\ \/ /\ readers[i] > 0
          /\ readers' = [readers EXCEPT ![i] = @ + 1]
          /\ UNCHANGED <<pc, mode>>
       \/ /\ readers[i] = 0
          /\ Goto(i, "data")
          /\ mode' = [mode EXCEPT ![i] = "read"]
          /\ UNCHANGED readers
    /\ UNCHANGED <<disk, open, writers, gcpc, doomed, deserted, crashes>>

(* An exception: the call fails, what it had open is closed.               *)
Fail(i) ==
    /\ Goto(i, "idle")
    /\ mode' = [mode EXCEPT ![i] = "none"]
    /\ Open(i, "opening", NoHandle)

OpenData(i) ==
    /\ pc[i] = "data"
    /\ \/ /\ path # 0 /\ "data" \in parts[path]
          /\ Open(i, "opening", [NoHandle EXCEPT !.data = path])
          /\ Goto(i, IF mode[i] = "write" THEN "lock" ELSE "rings")
          /\ UNCHANGED mode
       \/ /\ path = 0 \/ "data" \notin parts[path]
          /\ Fail(i)
    /\ UNCHANGED <<disk, refs, gcpc, doomed, deserted, crashes>>

LockData(i) ==
    /\ pc[i] = "lock"
    /\ LET f == open[i]["opening"].data IN
       \/ /\ CanShare(i, "opening", f)
          /\ Open(i, "opening", [data |-> f, rings |-> 0, lock |-> "shared"])
          /\ Goto(i, "rings")
          /\ deserted' = FALSE
          /\ UNCHANGED mode
       \/ /\ ~CanShare(i, "opening", f)
          /\ Fail(i)
          /\ UNCHANGED deserted
    /\ UNCHANGED <<disk, refs, gcpc, doomed, crashes>>

OpenRings(i) ==
    /\ pc[i] = "rings"
    /\ \/ /\ path # 0 /\ "rings" \in parts[path]
          /\ open' = [open EXCEPT ![i]["opening"].rings = path]
          /\ Goto(i, "register")
          /\ UNCHANGED mode
       \/ /\ path = 0 \/ "rings" \notin parts[path]
          /\ Fail(i)
    /\ UNCHANGED <<disk, refs, gcpc, doomed, deserted, crashes>>

(* What refuses the flow once its data file is open, and for a writer      *)
(* locked: its version; another format than that of the definition, told   *)
(* after its rings were opened; the factory, where the instance has no     *)
(* reader or writer of it yet, even if the call has just published it.     *)
(* Which flows are refused depends on data left out: any may be.           *)
Refusable(i) ==
    \/ pc[i] = "rings"
    \/ pc[i] = "register" /\ (mode[i] = "read" \/ writers[i] = 0)

(* The locks on data files of the flow other than that of i's call.        *)
OthersSharing(i) ==
    {o \in Instances \X Handles : o # <<i, "opening">> /\ open[o[1]][o[2]].lock = "shared"}

RefuseOpen(i) ==
    /\ Refusable(i)
    /\ Fail(i)
    /\ deserted' = (deserted \/ (mode[i] = "write" /\ OthersSharing(i) = {}))
    /\ UNCHANGED <<disk, refs, gcpc, doomed, crashes>>

Register(i) ==
    /\ pc[i] = "register"
    /\ LET opened == open[i]["opening"] IN
       \/ /\ mode[i] = "write"
          /\ writers' = [writers EXCEPT ![i] = @ + 1]
          /\ open' = [open EXCEPT ![i]["writer"] = IF writers[i] = 0 THEN opened ELSE @,
                                  ![i]["opening"] = NoHandle]
          /\ UNCHANGED readers
       \/ /\ mode[i] = "read"
          /\ readers' = [readers EXCEPT ![i] = 1]
          /\ open' = [open EXCEPT ![i]["reader"] = opened, ![i]["opening"] = NoHandle]
          /\ UNCHANGED writers
    /\ mode' = [mode EXCEPT ![i] = "none"]
    /\ Goto(i, "idle")
    /\ UNCHANGED <<disk, gcpc, doomed, deserted, crashes>>

-----------------------------------------------------------------------------
(* Releasing and deleting.                                                 *)

(* Releasing a reader the instance does not know throws.                   *)
HasReader(i) == readers[i] > 0

ReleaseReader(i) ==
    /\ pc[i] = "idle" /\ HasReader(i)
    /\ readers' = [readers EXCEPT ![i] = @ - 1]
    /\ IF readers[i] = 1 THEN Open(i, "reader", NoHandle) ELSE UNCHANGED open
    /\ UNCHANGED <<disk, writers, pc, mode, gcpc, doomed, deserted, crashes>>

ReleaseWriter(i) ==
    /\ pc[i] = "idle" /\ writers[i] > 0
    /\ writers' = [writers EXCEPT ![i] = @ - 1]
    /\ Goto(i, IF writers[i] = 1 THEN "upgrade" ELSE "idle")
    /\ UNCHANGED <<disk, open, readers, mode, gcpc, doomed, deserted, crashes>>

(* ~Instance: what the application has not released goes as if it had.     *)
DestroyInstance(i) ==
    /\ pc[i] = "idle" /\ gcpc[i] = "idle" /\ writers[i] + readers[i] > 0
    /\ writers' = [writers EXCEPT ![i] = 0]
    /\ readers' = [readers EXCEPT ![i] = 0]
    /\ Open(i, "reader", NoHandle)
    /\ Goto(i, IF writers[i] > 0 THEN "upgrade" ELSE "idle")
    /\ UNCHANGED <<disk, mode, gcpc, doomed, deserted, crashes>>

(* makeExclusive tells whether this is the last writer of the flow.        *)
UpgradeLock(i) ==
    /\ pc[i] = "upgrade"
    /\ LET got == LockAfterUpgrade(i, "writer") IN
       /\ open' = [open EXCEPT ![i]["writer"].lock = got]
       /\ Goto(i, IF got = "exclusive" THEN "delete" ELSE "erase")
    /\ UNCHANGED <<disk, refs, mode, gcpc, doomed, deserted, crashes>>

(* deleteFlow(id): remove_all of whatever is at the path now.              *)
DeleteFlow(i) ==
    /\ pc[i] = "delete"
    /\ doomed' = [doomed EXCEPT ![i]["release"] = path]
    /\ Goto(i, IF path = 0 THEN "erase" ELSE "unlink")
    /\ UNCHANGED <<disk, open, refs, mode, gcpc, deserted, crashes>>

UnlinkPart(i) ==
    \E p \in Parts :
        /\ pc[i] = "unlink" /\ p \in parts[doomed[i]["release"]]
        /\ parts' = [parts EXCEPT ![doomed[i]["release"]] = @ \ {p}]
        /\ UNCHANGED <<path, made, open, refs, pc, mode, gcpc, doomed, deserted, crashes>>

PathAfterRmdir == IF path # 0 /\ parts[path] = {} THEN 0 ELSE path

(* The directory goes by its name; one that has files stays.               *)
RemoveDirectory(i) ==
    /\ pc[i] = "unlink" /\ parts[doomed[i]["release"]] = {}
    /\ path' = PathAfterRmdir
    /\ doomed' = [doomed EXCEPT ![i]["release"] = 0]
    /\ Goto(i, "erase")
    /\ UNCHANGED <<parts, made, open, refs, mode, gcpc, deserted, crashes>>

EraseWriter(i) ==
    /\ pc[i] = "erase"
    /\ Open(i, "writer", NoHandle)
    /\ Goto(i, "idle")
    /\ UNCHANGED <<disk, refs, mode, gcpc, doomed, deserted, crashes>>

(* The process dies; its files are closed, what it was removing stays.     *)
Crash(i) ==
    /\ crashes < MaxCrashes
    /\ crashes' = crashes + 1
    /\ open' = [open EXCEPT ![i] = [h \in Handles |-> NoHandle]]
    /\ writers' = [writers EXCEPT ![i] = 0]
    /\ readers' = [readers EXCEPT ![i] = 0]
    /\ Goto(i, "idle") /\ GcGoto(i, "idle")
    /\ mode' = [mode EXCEPT ![i] = "none"]
    /\ doomed' = [doomed EXCEPT ![i] = [c \in {"release", "collect"} |-> 0]]
    /\ UNCHANGED <<disk, deserted>>

-----------------------------------------------------------------------------
(* Garbage collection.                                                     *)

(* A directory without a data file is passed over.                         *)
CollectOpen(i) ==
    /\ i \in Collectors /\ gcpc[i] = "idle"
    /\ path # 0 /\ "data" \in parts[path]
    /\ Open(i, "collecting", [NoHandle EXCEPT !.data = path])
    /\ GcGoto(i, "probe")
    /\ UNCHANGED <<disk, refs, pc, mode, doomed, deserted, crashes>>

ProbeResult_Inverted(i) ==
    IF LockAfterUpgrade(i, "collecting") = "exclusive" THEN "none" ELSE "exclusive"

ProbeResult(i) == LockAfterUpgrade(i, "collecting")

CollectProbe(i) ==
    /\ gcpc[i] = "probe"
    /\ \/ /\ ProbeResult(i) = "exclusive"
          /\ open' = [open EXCEPT ![i]["collecting"].lock = "exclusive"]
          /\ GcGoto(i, "close")
       \/ /\ ProbeResult(i) # "exclusive"
          /\ Open(i, "collecting", NoHandle)
          /\ GcGoto(i, "idle")
    /\ UNCHANGED <<disk, refs, pc, mode, doomed, deserted, crashes>>

(* close(fd) gives the lock up again before the directory is removed.      *)
CollectClose(i) ==
    /\ gcpc[i] = "close"
    /\ Open(i, "collecting", NoHandle)
    /\ GcGoto(i, "delete")
    /\ UNCHANGED <<disk, refs, pc, mode, doomed, deserted, crashes>>

CollectDelete(i) ==
    /\ gcpc[i] = "delete"
    /\ doomed' = [doomed EXCEPT ![i]["collect"] = path]
    /\ GcGoto(i, IF path = 0 THEN "idle" ELSE "unlink")
    /\ UNCHANGED <<disk, open, refs, pc, mode, deserted, crashes>>

CollectPart(i) ==
    \E p \in Parts :
        /\ gcpc[i] = "unlink" /\ p \in parts[doomed[i]["collect"]]
        /\ parts' = [parts EXCEPT ![doomed[i]["collect"]] = @ \ {p}]
        /\ UNCHANGED <<path, made, open, refs, pc, mode, gcpc, doomed, deserted, crashes>>

CollectDirectory(i) ==
    /\ gcpc[i] = "unlink" /\ parts[doomed[i]["collect"]] = {}
    /\ path' = PathAfterRmdir
    /\ doomed' = [doomed EXCEPT ![i]["collect"] = 0]
    /\ GcGoto(i, "idle")
    /\ UNCHANGED <<parts, made, open, refs, pc, mode, deserted, crashes>>

-----------------------------------------------------------------------------
(* What goes on without the application's doing, within a call.            *)
CallStep(i) ==
    \/ PublishFlow(i) \/ OpenData(i) \/ LockData(i) \/ OpenRings(i) \/ RefuseOpen(i) \/ Register(i)
    \/ UpgradeLock(i) \/ DeleteFlow(i) \/ UnlinkPart(i) \/ RemoveDirectory(i) \/ EraseWriter(i)

CollectStep(i) ==
    CollectProbe(i) \/ CollectClose(i) \/ CollectDelete(i) \/ CollectPart(i) \/ CollectDirectory(i)

Next ==
    \E i \in Instances :
        \/ CreateFlowWriter(i) \/ GetFlowReader(i) \/ CallStep(i)
        \/ ReleaseReader(i) \/ ReleaseWriter(i) \/ DestroyInstance(i) \/ Crash(i)
        \/ CollectOpen(i) \/ CollectStep(i)

Spec == Init /\ [][Next]_vars

(* Calls that were made run to their end, and collectors keep collecting.  *)
FairSpec ==
    /\ Spec
    /\ \A i \in Instances : WF_vars(CallStep(i))
    /\ \A i \in Collectors : WF_vars(CollectOpen(i)) /\ WF_vars(CollectStep(i))

-----------------------------------------------------------------------------
(* Every variable keeps the type of what it stands for.                    *)
TypeOK ==
    /\ path \in Flows /\ made \in Flows
    /\ parts \in [Flows -> SUBSET Parts]
    /\ open \in [Instances -> [Handles -> Handle]]
    /\ writers \in [Instances -> 0..MaxReferences]
    /\ readers \in [Instances -> 0..MaxReferences]
    /\ pc \in [Instances -> {"idle", "publish", "data", "lock", "rings", "register",
                             "upgrade", "delete", "unlink", "erase"}]
    /\ mode \in [Instances -> {"none", "read", "write"}]
    /\ gcpc \in [Instances -> {"idle", "probe", "close", "delete", "unlink"}]
    /\ doomed \in [Instances -> [{"release", "collect"} -> Flows]]
    /\ deserted \in BOOLEAN /\ crashes \in 0..MaxCrashes

Calm == \A i \in Instances : pc[i] = "idle" /\ gcpc[i] = "idle"

(* Once every writer was released, and none died, the flow is gone from the*)
(* domain: however the releases of several processes interleave, one of    *)
(* them finds itself to be the last (Instance.cpp:216-217).  Excused is    *)
(* only the flow whose last lock was held by a call that was refused: it   *)
(* stood in the way of that writer and leaves without removing anything.   *)
ReleasedFlowIsGone ==
    Calm /\ crashes = 0 /\ (\A i \in Instances : writers[i] = 0) => path = 0 \/ deserted

(* Instance.cpp:216, "Delete the flow if we are the last writer": a call   *)
(* about to be refused is no writer, yet while it has its lock nobody      *)
(* deletes, and what it has published itself stays as well.                *)
LastReleaseDeletes ==
    Calm /\ crashes = 0 /\ (\A i \in Instances : writers[i] = 0) => path = 0

(* A flow whose writers died is collected, if it has kept its data file.   *)
AbandonedFlowIsCollected ==
    <>[](\A i \in Instances : writers[i] = 0 /\ pc[i] = "idle")
        => <>[](path = 0 \/ "data" \notin parts[path])

(* The writers that hold a lock on the data file of f, i's own left out.   *)
ActiveWriters(i, f) == {j \in Instances \ {i} : writers[j] > 0 /\ open[j]["writer"].data = f}

(* mxl.h:87-89 on garbage collection: it deletes flows that are no longer  *)
(* active, and an advisory lock on the data file makes a flow active.      *)
CollectsInactiveOnly ==
    [][\A i \in Instances : CollectDelete(i) /\ path # 0 => ActiveWriters(i, path) = {}]_vars

(* Instance.cpp:216: a released writer deletes the flow if it is the last. *)
LastWriterDeletes ==
    [][\A i \in Instances : DeleteFlow(i) /\ path # 0 => ActiveWriters(i, path) = {}]_vars

=============================================================================
