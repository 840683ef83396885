------------------------ MODULE FlowLifecycle_proofs ------------------------
(***************************************************************************)
(* Type correctness of the life of a flow, and that released flows go, for *)
(* any number of instances, directories and references.                    *)
(***************************************************************************)
EXTENDS FlowLifecycle, TLAPS

Pcs   == {"idle", "publish", "data", "lock", "rings", "register", "upgrade", "delete", "unlink", "erase"}
GcPcs == {"idle", "probe", "close", "delete", "unlink"}
Locks == {"none", "shared", "exclusive"}
Calls == {"release", "collect"}

(* A reference is promised to the call that opens the flow: what it comes  *)
(* back with is counted within the bound.                                  *)
Promised ==
    \A i \in Instances :
        /\ mode[i] = "write" => writers[i] < MaxReferences
        /\ mode[i] = "read" => 1 <= MaxReferences

(* The types, of what is on disk, of what is open, of what is counted and  *)
(* of where calls are.                                                     *)
DiskTyped == path \in Flows /\ made \in Flows /\ parts \in [Flows -> SUBSET Parts]

OpenTyped == open \in [Instances -> [Handles -> Handle]]

RefsTyped ==
    /\ writers \in [Instances -> 0..MaxReferences]
    /\ readers \in [Instances -> 0..MaxReferences]
    /\ mode \in [Instances -> {"none", "read", "write"}]
    /\ Promised

CallsTyped ==
    /\ pc \in [Instances -> Pcs] /\ gcpc \in [Instances -> GcPcs]
    /\ doomed \in [Instances -> [Calls -> Flows]]
    /\ deserted \in BOOLEAN /\ crashes \in 0..MaxCrashes

TypeInv == DiskTyped /\ OpenTyped /\ RefsTyped /\ CallsTyped

LEMMA TypeInvImpliesTypeOK == TypeInv => TypeOK
  BY DEF TypeInv, DiskTyped, OpenTyped, RefsTyped, CallsTyped, Pcs, GcPcs, Calls, TypeOK

LEMMA Bounds ==
  /\ MaxFlows \in Nat /\ MaxReferences \in Nat /\ MaxCrashes \in Nat
  /\ 0 \in Flows /\ 0 \in 0..MaxReferences
  BY LifecycleAssumption DEF Flows

LEMMA NoHandleTyped == NoHandle \in Handle
  BY Bounds DEF NoHandle, Handle

LEMMA TypeInvInit == Init => TypeInv
<1> SUFFICES ASSUME Init PROVE TypeInv
  OBVIOUS
<1>1. DiskTyped
  BY Bounds DEF Init, DiskTyped
<1>2. OpenTyped
  BY NoHandleTyped DEF Init, OpenTyped
<1>3. RefsTyped
  BY Bounds DEF Init, RefsTyped, Promised
<1>4. CallsTyped
  <2>1. deserted \in BOOLEAN
    BY Zenon DEF Init
  <2> QED
    BY <2>1, Bounds DEF Init, CallsTyped, Pcs, GcPcs, Calls
<1> QED
  BY <1>1, <1>2, <1>3, <1>4 DEF TypeInv

(* An open file replaced by another, whoever's it is.                      *)
LEMMA HandleTyped ==
  ASSUME OpenTyped, NEW i \in Instances, NEW h \in Handles, NEW handle \in Handle, Open(i, h, handle)
  PROVE  OpenTyped'
<1>1. [open[i] EXCEPT ![h] = handle] \in [Handles -> Handle]
  BY DEF OpenTyped
<1> QED
  BY <1>1 DEF OpenTyped, Open

(* The lock of what is open, or its rings, changed in place.               *)
LEMMA LockTyped ==
  ASSUME OpenTyped, NEW i \in Instances, NEW h \in Handles, NEW l \in Locks,
         open' = [open EXCEPT ![i][h].lock = l]
  PROVE  OpenTyped'
<1>1. open[i] \in [Handles -> Handle] /\ open[i][h] \in Handle
  BY DEF OpenTyped
<1>2. [open[i][h] EXCEPT !.lock = l] \in Handle
  BY <1>1 DEF Handle, Locks
<1>3. [open[i] EXCEPT ![h] = [open[i][h] EXCEPT !.lock = l]] \in [Handles -> Handle]
  BY <1>1, <1>2
<1>4. open' = [open EXCEPT ![i] = [open[i] EXCEPT ![h] = [open[i][h] EXCEPT !.lock = l]]]
  BY <1>1 DEF OpenTyped
<1> QED
  BY <1>3, <1>4 DEF OpenTyped

LEMMA RingsTyped ==
  ASSUME OpenTyped, NEW i \in Instances, NEW h \in Handles, NEW f \in Flows,
         open' = [open EXCEPT ![i][h].rings = f]
  PROVE  OpenTyped'
<1>1. open[i] \in [Handles -> Handle] /\ open[i][h] \in Handle
  BY DEF OpenTyped
<1>2. [open[i][h] EXCEPT !.rings = f] \in Handle
  BY <1>1 DEF Handle
<1>3. [open[i] EXCEPT ![h] = [open[i][h] EXCEPT !.rings = f]] \in [Handles -> Handle]
  BY <1>1, <1>2
<1>4. open' = [open EXCEPT ![i] = [open[i] EXCEPT ![h] = [open[i][h] EXCEPT !.rings = f]]]
  BY <1>1 DEF OpenTyped
<1> QED
  BY <1>3, <1>4 DEF OpenTyped

LEMMA UpgradeTyped ==
  ASSUME NEW i, NEW h PROVE LockAfterUpgrade(i, h) \in Locks
  BY DEF LockAfterUpgrade, FailedUpgrade, Locks

-----------------------------------------------------------------------------
(* What is open.                                                           *)

LEMMA OpenStep ==
  ASSUME TypeInv, NEW i \in Instances,
         \/ CallStep(i) \/ ReleaseReader(i) \/ DestroyInstance(i) \/ Crash(i)
         \/ CollectOpen(i) \/ CollectStep(i)
  PROVE  OpenTyped'
<1>1. OpenTyped /\ DiskTyped /\ NoHandle \in Handle
  BY NoHandleTyped DEF TypeInv
<1>2. Handles = {"writer", "reader", "opening", "collecting"}
  BY DEF Handles
<1>3. CASE PublishFlow(i)
  <2>1. CASE UNCHANGED open
    BY <1>1, <2>1 DEF OpenTyped
  <2>2. CASE made < MaxFlows /\ Open(i, "opening", [data |-> made + 1, rings |-> made + 1, lock |-> "shared"])
    <3>1. made + 1 \in Flows
      BY <1>1, <2>2, Bounds DEF DiskTyped, Flows
    <3>2. [data |-> made + 1, rings |-> made + 1, lock |-> "shared"] \in Handle
      BY <3>1 DEF Handle
    <3> QED
      BY <1>1, <1>2, <2>2, <3>2, HandleTyped
  <2> QED
    BY <1>3, <2>1, <2>2 DEF PublishFlow
<1>4. CASE OpenData(i) \/ LockData(i) \/ CollectOpen(i)
  <2>1. open[i]["opening"] \in Handle
    BY <1>1, <1>2 DEF OpenTyped
  <2>2. /\ [NoHandle EXCEPT !.data = path] \in Handle
        /\ [data |-> open[i]["opening"].data, rings |-> 0, lock |-> "shared"] \in Handle
    BY <1>1, <2>1, Bounds DEF Handle, DiskTyped
  <2>3. \E h \in Handles, handle \in Handle : Open(i, h, handle)
    BY <1>1, <1>2, <1>4, <2>2 DEF OpenData, LockData, CollectOpen, Fail
  <2> QED
    BY <1>1, <2>3, HandleTyped
<1>5. CASE OpenRings(i) \/ RefuseOpen(i)
  <2>1. CASE open' = [open EXCEPT ![i]["opening"].rings = path]
    BY <1>1, <1>2, <2>1, RingsTyped DEF DiskTyped
  <2>2. CASE Fail(i)
    BY <1>1, <1>2, <2>2, HandleTyped DEF Fail
  <2> QED
    BY <1>5, <2>1, <2>2 DEF OpenRings, RefuseOpen
<1>6. CASE Register(i)
  <2> DEFINE opened == open[i]["opening"]
  <2>1. opened \in Handle /\ open[i]["writer"] \in Handle /\ open[i] \in [Handles -> Handle]
    BY <1>1, <1>2 DEF OpenTyped
  <2>2. PICK h \in {"writer", "reader"}, handle \in Handle :
          open' = [open EXCEPT ![i][h] = handle, ![i]["opening"] = NoHandle]
    BY <1>6, <2>1 DEF Register
  <2>3. [open[i] EXCEPT ![h] = handle, !["opening"] = NoHandle] \in [Handles -> Handle]
    BY <1>1, <1>2, <2>1
  <2>4. open' = [open EXCEPT ![i] = [open[i] EXCEPT ![h] = handle, !["opening"] = NoHandle]]
    BY <1>1, <1>2, <2>1, <2>2 DEF OpenTyped
  <2> QED
    BY <1>1, <2>3, <2>4 DEF OpenTyped
<1>7. CASE UpgradeLock(i)
  BY <1>1, <1>2, <1>7, LockTyped, UpgradeTyped DEF UpgradeLock
<1>8. CASE CollectProbe(i)
  <2>1. CASE open' = [open EXCEPT ![i]["collecting"].lock = "exclusive"]
    BY <1>1, <1>2, <2>1, LockTyped DEF Locks
  <2>2. CASE Open(i, "collecting", NoHandle)
    BY <1>1, <1>2, <2>2, HandleTyped
  <2> QED
    BY <1>8, <2>1, <2>2 DEF CollectProbe
<1>9. CASE EraseWriter(i) \/ ReleaseReader(i) \/ DestroyInstance(i) \/ CollectClose(i)
  <2>1. UNCHANGED open \/ \E h \in Handles : Open(i, h, NoHandle)
    BY <1>2, <1>9 DEF EraseWriter, ReleaseReader, DestroyInstance, CollectClose
  <2> QED
    BY <1>1, <2>1, HandleTyped DEF OpenTyped
<1>10. CASE Crash(i)
  BY <1>1, <1>10 DEF Crash, OpenTyped
<1>11. CASE DeleteFlow(i) \/ UnlinkPart(i) \/ RemoveDirectory(i) \/ CollectDelete(i) \/ CollectPart(i) \/ CollectDirectory(i)
  <2>1. UNCHANGED open
    BY <1>11 DEF DeleteFlow, UnlinkPart, RemoveDirectory, CollectDelete, CollectPart, CollectDirectory
  <2> QED
    BY <1>1, <2>1 DEF OpenTyped
<1> QED
  BY <1>3, <1>4, <1>5, <1>6, <1>7, <1>8, <1>9, <1>10, <1>11 DEF CallStep, CollectStep

(* What is on disk.                                                        *)
LEMMA DiskStep ==
  ASSUME TypeInv, NEW i \in Instances, CallStep(i) \/ CollectStep(i)
  PROVE  DiskTyped'
<1>1. DiskTyped /\ 0 \in Flows
  BY Bounds DEF TypeInv
<1>2. CASE PublishFlow(i)
  <2>1. CASE UNCHANGED disk
    BY <1>1, <2>1 DEF DiskTyped, disk
  <2>2. CASE made < MaxFlows /\ made' = made + 1 /\ path' = made + 1 /\ parts' = [parts EXCEPT ![made + 1] = Parts]
    <3>1. made + 1 \in Flows
      BY <1>1, <2>2, Bounds DEF DiskTyped, Flows
    <3> QED
      BY <1>1, <2>2, <3>1 DEF DiskTyped
  <2> QED
    BY <1>2, <2>1, <2>2 DEF PublishFlow
<1>3. CASE UnlinkPart(i) \/ CollectPart(i)
  <2>1. PICK p \in Parts, c \in Calls : parts' = [parts EXCEPT ![doomed[i][c]] = @ \ {p}]
    BY <1>3 DEF UnlinkPart, CollectPart, Calls
  <2>2. UNCHANGED <<path, made>>
    BY <1>3 DEF UnlinkPart, CollectPart
  <2> QED
    BY <1>1, <2>1, <2>2 DEF DiskTyped
<1>4. CASE RemoveDirectory(i) \/ CollectDirectory(i)
  <2>1. path' \in Flows
    BY <1>1, <1>4 DEF RemoveDirectory, CollectDirectory, PathAfterRmdir, DiskTyped
  <2>2. UNCHANGED <<parts, made>>
    BY <1>4 DEF RemoveDirectory, CollectDirectory
  <2> QED
    BY <1>1, <2>1, <2>2 DEF DiskTyped
<1>5. CASE \/ OpenData(i) \/ LockData(i) \/ OpenRings(i) \/ RefuseOpen(i) \/ Register(i) \/ UpgradeLock(i)
           \/ DeleteFlow(i) \/ EraseWriter(i) \/ CollectProbe(i) \/ CollectClose(i) \/ CollectDelete(i)
  <2>1. UNCHANGED disk
    BY <1>5 DEF OpenData, LockData, OpenRings, RefuseOpen, Refusable, Register, UpgradeLock, DeleteFlow, EraseWriter,
       CollectProbe, CollectClose, CollectDelete
  <2> QED
    BY <1>1, <2>1 DEF DiskTyped, disk
<1> QED
  BY <1>2, <1>3, <1>4, <1>5 DEF CallStep, CollectStep

-----------------------------------------------------------------------------
(* What is counted.                                                        *)

LEMMA RefsStep ==
  ASSUME TypeInv, NEW i \in Instances,
         \/ CreateFlowWriter(i) \/ GetFlowReader(i) \/ CallStep(i)
         \/ ReleaseReader(i) \/ ReleaseWriter(i) \/ DestroyInstance(i) \/ Crash(i)
  PROVE  RefsTyped'
<1>1. RefsTyped /\ MaxReferences \in Nat
  BY Bounds DEF TypeInv
<1>2. writers[i] \in 0..MaxReferences /\ readers[i] \in 0..MaxReferences
  BY <1>1 DEF RefsTyped
<1>3. CASE CreateFlowWriter(i)
  <2>1. mode' = [mode EXCEPT ![i] = "write"] /\ UNCHANGED refs /\ writers[i] < MaxReferences
    BY <1>3 DEF CreateFlowWriter
  <2> QED
    BY <1>1, <2>1 DEF RefsTyped, Promised, refs
<1>4. CASE GetFlowReader(i)
  <2>1. readers[i] < MaxReferences /\ writers' = writers
    BY <1>4 DEF GetFlowReader
  <2>2. CASE readers' = [readers EXCEPT ![i] = @ + 1] /\ mode' = mode
    BY <1>1, <1>2, <2>1, <2>2 DEF RefsTyped, Promised
  <2>3. CASE readers' = readers /\ mode' = [mode EXCEPT ![i] = "read"]
    BY <1>1, <1>2, <2>1, <2>3 DEF RefsTyped, Promised
  <2> QED
    BY <1>4, <2>2, <2>3 DEF GetFlowReader
<1>5. CASE OpenData(i) \/ LockData(i) \/ OpenRings(i) \/ RefuseOpen(i)
  <2>1. UNCHANGED refs /\ (mode' = mode \/ mode' = [mode EXCEPT ![i] = "none"])
    BY <1>5 DEF OpenData, LockData, OpenRings, RefuseOpen, Fail
  <2> QED
    BY <1>1, <2>1 DEF RefsTyped, Promised, refs
<1>6. CASE Register(i)
  <2>1. mode' = [mode EXCEPT ![i] = "none"]
    BY <1>6 DEF Register
  <2>2. CASE mode[i] = "write" /\ writers' = [writers EXCEPT ![i] = @ + 1] /\ readers' = readers
    BY <1>1, <1>2, <2>1, <2>2 DEF RefsTyped, Promised
  <2>3. CASE mode[i] = "read" /\ readers' = [readers EXCEPT ![i] = 1] /\ writers' = writers
    BY <1>1, <1>2, <2>1, <2>3 DEF RefsTyped, Promised
  <2> QED
    BY <1>6, <2>2, <2>3 DEF Register
<1>7. CASE ReleaseReader(i)
  <2>1. readers' = [readers EXCEPT ![i] = @ - 1] /\ readers[i] > 0 /\ UNCHANGED <<writers, mode>>
    BY <1>7 DEF ReleaseReader, HasReader
  <2> QED
    BY <1>1, <1>2, <2>1 DEF RefsTyped, Promised
<1>8. CASE ReleaseWriter(i)
  <2>1. writers' = [writers EXCEPT ![i] = @ - 1] /\ writers[i] > 0 /\ UNCHANGED <<readers, mode>>
    BY <1>8 DEF ReleaseWriter
  <2> QED
    BY <1>1, <1>2, <2>1 DEF RefsTyped, Promised
<1>9. CASE DestroyInstance(i) \/ Crash(i)
  <2>1. /\ writers' = [writers EXCEPT ![i] = 0] /\ readers' = [readers EXCEPT ![i] = 0]
        /\ mode' = mode \/ mode' = [mode EXCEPT ![i] = "none"]
    BY <1>9 DEF DestroyInstance, Crash
  <2> QED
    BY <1>1, <1>2, <2>1 DEF RefsTyped, Promised
<1>10. CASE \/ PublishFlow(i) \/ UpgradeLock(i) \/ DeleteFlow(i) \/ UnlinkPart(i)
            \/ RemoveDirectory(i) \/ EraseWriter(i)
  <2>1. UNCHANGED <<refs, mode>>
    BY <1>10 DEF PublishFlow, UpgradeLock, DeleteFlow, UnlinkPart, RemoveDirectory, EraseWriter, refs
  <2> QED
    BY <1>1, <2>1 DEF RefsTyped, Promised, refs
<1> QED
  BY <1>3, <1>4, <1>5, <1>6, <1>7, <1>8, <1>9, <1>10 DEF CallStep

(* Where calls are.                                                        *)
LEMMA CallsStep ==
  ASSUME TypeInv, NEW i \in Instances,
         \/ CreateFlowWriter(i) \/ GetFlowReader(i) \/ CallStep(i)
         \/ ReleaseReader(i) \/ ReleaseWriter(i) \/ DestroyInstance(i) \/ Crash(i)
         \/ CollectOpen(i) \/ CollectStep(i)
  PROVE  CallsTyped'
<1>1. CallsTyped /\ 0 \in Flows /\ path \in Flows
  BY Bounds DEF TypeInv, DiskTyped
<1>2. pc' = pc \/ \E where \in Pcs : pc' = [pc EXCEPT ![i] = where]
  BY DEF CreateFlowWriter, GetFlowReader, CallStep, ReleaseReader, ReleaseWriter, DestroyInstance, Crash, CollectOpen,
     CollectStep, PublishFlow, OpenData, LockData, OpenRings, RefuseOpen, Refusable, Register, UpgradeLock, DeleteFlow,
     UnlinkPart, RemoveDirectory, EraseWriter, CollectProbe, CollectClose, CollectDelete, CollectPart,
     CollectDirectory, Fail, Goto, Pcs
<1>3. gcpc' = gcpc \/ \E where \in GcPcs : gcpc' = [gcpc EXCEPT ![i] = where]
  BY DEF CreateFlowWriter, GetFlowReader, CallStep, ReleaseReader, ReleaseWriter, DestroyInstance, Crash, CollectOpen,
     CollectStep, PublishFlow, OpenData, LockData, OpenRings, RefuseOpen, Refusable, Register, UpgradeLock, DeleteFlow,
     UnlinkPart, RemoveDirectory, EraseWriter, CollectProbe, CollectClose, CollectDelete, CollectPart,
     CollectDirectory, Fail, GcGoto, GcPcs
<1>4. doomed' \in [Instances -> [Calls -> Flows]]
  <2>1. doomed \in [Instances -> [Calls -> Flows]] /\ doomed[i] \in [Calls -> Flows]
    BY <1>1 DEF CallsTyped
  <2>2. \/ doomed' = doomed
        \/ \E c \in Calls, f \in Flows : doomed' = [doomed EXCEPT ![i][c] = f]
        \/ doomed' = [doomed EXCEPT ![i] = [c \in Calls |-> 0]]
    BY <1>1 DEF CreateFlowWriter, GetFlowReader, CallStep, ReleaseReader, ReleaseWriter, DestroyInstance, Crash,
       CollectOpen, CollectStep, PublishFlow, OpenData, LockData, OpenRings, RefuseOpen, Refusable, Register,
       UpgradeLock, DeleteFlow, UnlinkPart, RemoveDirectory, EraseWriter, CollectProbe, CollectClose, CollectDelete,
       CollectPart, CollectDirectory, Calls
  <2>3. CASE \E c \in Calls, f \in Flows : doomed' = [doomed EXCEPT ![i][c] = f]
    <3>1. PICK c \in Calls, f \in Flows : doomed' = [doomed EXCEPT ![i][c] = f]
      BY <2>3
    <3>2. [doomed[i] EXCEPT ![c] = f] \in [Calls -> Flows]
      BY <2>1
    <3>3. doomed' = [doomed EXCEPT ![i] = [doomed[i] EXCEPT ![c] = f]]
      BY <2>1, <3>1
    <3> QED
      BY <2>1, <3>2, <3>3
  <2> QED
    BY <1>1, <2>1, <2>2, <2>3
<1>5. crashes' \in 0..MaxCrashes
  <2>1. crashes' = crashes \/ (crashes < MaxCrashes /\ crashes' = crashes + 1)
    BY DEF CreateFlowWriter, GetFlowReader, CallStep, ReleaseReader, ReleaseWriter, DestroyInstance, Crash,
       CollectOpen, CollectStep, PublishFlow, OpenData, LockData, OpenRings, RefuseOpen, Refusable, Register,
       UpgradeLock, DeleteFlow, UnlinkPart, RemoveDirectory, EraseWriter, CollectProbe, CollectClose, CollectDelete,
       CollectPart, CollectDirectory
  <2> QED
    BY <1>1, <2>1, Bounds DEF CallsTyped
<1>6. deserted' \in BOOLEAN
  <2>1. deserted' = deserted \/ deserted' = FALSE \/ RefuseOpen(i)
    BY DEF CreateFlowWriter, GetFlowReader, CallStep, ReleaseReader, ReleaseWriter, DestroyInstance, Crash,
       CollectOpen, CollectStep, PublishFlow, OpenData, LockData, OpenRings, Register, UpgradeLock, DeleteFlow,
       UnlinkPart, RemoveDirectory, EraseWriter, CollectProbe, CollectClose, CollectDelete, CollectPart,
       CollectDirectory
  <2> QED
    BY <1>1, <2>1 DEF RefuseOpen, CallsTyped
<1> QED
  BY <1>1, <1>2, <1>3, <1>4, <1>5, <1>6 DEF CallsTyped

LEMMA TypeInvNext ==
  ASSUME TypeInv, [Next]_vars
  PROVE  TypeInv'
<1>1. CASE UNCHANGED vars
  BY <1>1 DEF TypeInv, DiskTyped, OpenTyped, RefsTyped, Promised, CallsTyped, vars, disk, refs
<1>2. ASSUME NEW i \in Instances,
             \/ CreateFlowWriter(i) \/ GetFlowReader(i) \/ CallStep(i)
             \/ ReleaseReader(i) \/ ReleaseWriter(i) \/ DestroyInstance(i) \/ Crash(i)
             \/ CollectOpen(i) \/ CollectStep(i)
      PROVE  TypeInv'
  <2>1. DiskTyped'
    <3>1. CASE CallStep(i) \/ CollectStep(i)
      BY <3>1, DiskStep
    <3>2. CASE UNCHANGED disk
      BY <3>2 DEF TypeInv, DiskTyped, disk
    <3> QED
      BY <1>2, <3>1, <3>2 DEF CreateFlowWriter, GetFlowReader, ReleaseReader, ReleaseWriter, DestroyInstance, Crash,
         CollectOpen
  <2>2. OpenTyped'
    <3>1. CASE UNCHANGED open
      BY <3>1 DEF TypeInv, OpenTyped
    <3> QED
      BY <1>2, <3>1, OpenStep DEF CreateFlowWriter, GetFlowReader, ReleaseWriter
  <2>3. RefsTyped'
    <3>1. CASE UNCHANGED <<refs, mode>>
      BY <3>1 DEF TypeInv, RefsTyped, Promised, refs
    <3>2. CASE CollectOpen(i) \/ CollectStep(i)
      <4>1. UNCHANGED <<refs, mode>>
        BY <3>2 DEF CollectOpen, CollectStep, CollectProbe, CollectClose, CollectDelete, CollectPart,
           CollectDirectory, refs
      <4> QED
        BY <3>1, <4>1
    <3> QED
      BY <1>2, <3>2, RefsStep
  <2> QED
    BY <1>2, <2>1, <2>2, <2>3, CallsStep DEF TypeInv
<1> QED
  BY <1>1, <1>2 DEF Next

(* Whatever instances, collectors and crashes do between the steps of a    *)
(* call: what it has open, counts and removes stays what it can be, and no *)
(* reference count leaves its bounds, although a release and an opening    *)
(* that fails take it back in different places.                            *)
THEOREM TypeCorrect == Spec => []TypeOK
  BY TypeInvInit, TypeInvNext, TypeInvImpliesTypeOK, PTL DEF Spec

-----------------------------------------------------------------------------
(* What a step of one instance does to what another has.                   *)
Step(i) ==
    \/ CreateFlowWriter(i) \/ GetFlowReader(i) \/ CallStep(i)
    \/ ReleaseReader(i) \/ ReleaseWriter(i) \/ DestroyInstance(i) \/ Crash(i)
    \/ CollectOpen(i) \/ CollectStep(i)

LEMMA OthersUntouched ==
  ASSUME TypeInv, NEW i \in Instances, Step(i), NEW j \in Instances, j # i
  PROVE  /\ open'[j] = open[j] /\ writers'[j] = writers[j] /\ mode'[j] = mode[j]
         /\ pc'[j] = pc[j] /\ gcpc'[j] = gcpc[j] /\ doomed'[j] = doomed[j]
<1> USE DEF Step, CallStep, CollectStep, CreateFlowWriter, GetFlowReader, ReleaseReader, ReleaseWriter,
    DestroyInstance, Crash, CollectOpen, PublishFlow, OpenData, LockData, OpenRings, RefuseOpen, Refusable, Register,
    UpgradeLock, DeleteFlow, UnlinkPart, RemoveDirectory, EraseWriter, CollectProbe, CollectClose, CollectDelete,
    CollectPart, CollectDirectory
<1>1. open \in [Instances -> [Handles -> Handle]]
  BY DEF TypeInv, OpenTyped
<1>2. open'[j] = open[j]
  BY <1>1 DEF Open, Fail
<1>3. writers'[j] = writers[j] /\ mode'[j] = mode[j]
  BY DEF TypeInv, RefsTyped, refs, Fail
<1>4. pc'[j] = pc[j] /\ gcpc'[j] = gcpc[j]
  BY DEF TypeInv, CallsTyped, Goto, GcGoto, Fail
<1>5. doomed'[j] = doomed[j]
  BY DEF TypeInv, CallsTyped
<1> QED
  BY <1>2, <1>3, <1>4, <1>5

(* One of the files an instance has open, closed or replaced by another,   *)
(* or changed in its lock or rings.                                        *)
LEMMA OpenIs ==
  ASSUME OpenTyped, NEW i \in Instances, NEW h \in Handles, NEW handle, Open(i, h, handle)
  PROVE  open'[i][h] = handle /\ \A g \in Handles : g # h => open'[i][g] = open[i][g]
  BY DEF OpenTyped, Open

LEMMA LockIs ==
  ASSUME OpenTyped, NEW i \in Instances, NEW h \in Handles, NEW l, open' = [open EXCEPT ![i][h].lock = l]
  PROVE  /\ open'[i][h].lock = l /\ open'[i][h].data = open[i][h].data
         /\ \A g \in Handles : g # h => open'[i][g] = open[i][g]
<1>1. open[i] \in [Handles -> Handle] /\ open[i][h] \in Handle
  BY DEF OpenTyped
<1>2. open'[i] = [open[i] EXCEPT ![h].lock = l]
  BY DEF OpenTyped
<1>3. open'[i][h] = [open[i][h] EXCEPT !.lock = l]
  BY <1>1, <1>2
<1> QED
  BY <1>1, <1>2, <1>3 DEF Handle

LEMMA RingsIs ==
  ASSUME OpenTyped, NEW i \in Instances, NEW h \in Handles, NEW f, open' = [open EXCEPT ![i][h].rings = f]
  PROVE  /\ open'[i][h].lock = open[i][h].lock /\ open'[i][h].data = open[i][h].data
         /\ \A g \in Handles : g # h => open'[i][g] = open[i][g]
<1>1. open[i] \in [Handles -> Handle] /\ open[i][h] \in Handle
  BY DEF OpenTyped
<1>2. open'[i] = [open[i] EXCEPT ![h].rings = f]
  BY DEF OpenTyped
<1>3. open'[i][h] = [open[i][h] EXCEPT !.rings = f]
  BY <1>1, <1>2
<1> QED
  BY <1>1, <1>2, <1>3 DEF Handle

LEMMA RegisterIs ==
  ASSUME OpenTyped, NEW i \in Instances, Register(i)
  PROVE  /\ open'[i]["opening"] = NoHandle /\ open'[i]["collecting"] = open[i]["collecting"]
         /\ \/ /\ mode[i] = "write" /\ open'[i]["reader"] = open[i]["reader"]
               /\ open'[i]["writer"] = IF writers[i] = 0 THEN open[i]["opening"] ELSE open[i]["writer"]
            \/ /\ mode[i] = "read" /\ open'[i]["writer"] = open[i]["writer"]
               /\ open'[i]["reader"] = open[i]["opening"]
<1>1. open[i] \in [Handles -> Handle] /\ Handles = {"writer", "reader", "opening", "collecting"}
  BY DEF OpenTyped, Handles
<1>2. CASE mode[i] = "write"
  <2>1. open'[i] = [open[i] EXCEPT !["writer"] = IF writers[i] = 0 THEN open[i]["opening"] ELSE open[i]["writer"],
                                   !["opening"] = NoHandle]
    BY <1>2 DEF Register, OpenTyped
  <2> QED
    BY <1>1, <1>2, <2>1
<1>3. CASE mode[i] = "read"
  <2>1. open'[i] = [open[i] EXCEPT !["reader"] = open[i]["opening"], !["opening"] = NoHandle]
    BY <1>3 DEF Register, OpenTyped
  <2> QED
    BY <1>1, <1>3, <2>1
<1> QED
  BY <1>2, <1>3 DEF Register

-----------------------------------------------------------------------------
(* Locks.                                                                  *)

(* The data files of whatever is open were published, and a new one is     *)
(* nobody's yet.                                                           *)
Published == path <= made /\ \A i \in Instances, h \in Handles : open[i][h].data <= made

(* An advisory lock is shared by all or held by one.                       *)
LocksAgree ==
    \A o, p \in Instances \X Handles :
        /\ o # p /\ open[o[1]][o[2]].data = open[p[1]][p[2]].data
        /\ open[o[1]][o[2]].lock # "none" /\ open[p[1]][p[2]].lock # "none"
        => open[o[1]][o[2]].lock = "shared"

(* Which locks an instance holds, from where its calls are.                *)
WriterLock(i) ==
    /\ open[i]["writer"].lock = "shared" <=> writers[i] > 0 \/ pc[i] = "upgrade"
    /\ writers[i] > 0 => pc[i] \notin {"upgrade", "delete", "unlink", "erase"}

OpeningLock(i) ==
    /\ pc[i] \in {"publish", "lock"} => mode[i] = "write"
    /\ open[i]["opening"].lock # "none" =>
            open[i]["opening"].lock = "shared" /\ pc[i] \in {"rings", "register"} /\ mode[i] = "write"
    /\ pc[i] \in {"rings", "register"} /\ mode[i] = "write" => open[i]["opening"].lock = "shared"

OtherLocks(i) ==
    /\ open[i]["reader"].lock = "none"
    /\ open[i]["collecting"].lock # "none" => open[i]["collecting"].lock = "exclusive" /\ gcpc[i] = "close"

LockState == \A i \in Instances : WriterLock(i) /\ OpeningLock(i) /\ OtherLocks(i)


LockInv == Published /\ LocksAgree /\ LockState

LEMMA LockStateOwn ==
  ASSUME TypeInv, NEW i \in Instances, WriterLock(i), OpeningLock(i), OtherLocks(i), Step(i)
  PROVE  WriterLock(i)' /\ OpeningLock(i)' /\ OtherLocks(i)'
<1> DEFINE w == open[i]["writer"]
           r == open[i]["reader"]
           o == open[i]["opening"]
           c == open[i]["collecting"]
<1>1. OpenTyped /\ Handles = {"writer", "reader", "opening", "collecting"} /\ NoHandle.lock = "none"
  BY DEF TypeInv, Handles, NoHandle
<1>2. /\ writers \in [Instances -> 0..MaxReferences] /\ mode \in [Instances -> {"none", "read", "write"}]
      /\ pc \in [Instances -> Pcs] /\ gcpc \in [Instances -> GcPcs] /\ MaxReferences \in Nat
      /\ writers[i] \in Nat
  BY Bounds DEF TypeInv, RefsTyped, CallsTyped
<1> USE DEF WriterLock, OpeningLock, OtherLocks
<1>3. CASE CreateFlowWriter(i)
  <2>1. open' = open /\ writers' = writers /\ gcpc' = gcpc /\ pc[i] = "idle" /\ pc'[i] = "publish" /\ mode'[i] = "write"
    BY <1>2, <1>3 DEF CreateFlowWriter, Goto, refs
  <2> QED
    BY <2>1
<1>4. CASE GetFlowReader(i)
  <2>1. /\ open' = open /\ writers' = writers /\ gcpc' = gcpc /\ pc[i] = "idle"
        /\ pc'[i] = "idle" \/ (pc'[i] = "data" /\ mode'[i] = "read")
    BY <1>2, <1>4 DEF GetFlowReader, Goto
  <2> QED
    BY <2>1
<1>5. CASE PublishFlow(i)
  <2>1. /\ UNCHANGED <<writers, mode, gcpc>> /\ pc[i] = "publish" /\ mode[i] = "write"
        /\ \/ pc'[i] = "data" /\ open' = open
           \/ /\ pc'[i] = "register" /\ w' = w /\ r' = r /\ c' = c /\ o'.lock = "shared"
    BY <1>1, <1>2, <1>5, OpenIs DEF PublishFlow, Goto, refs
  <2> QED
    BY <2>1
<1>6. CASE OpenData(i)
  <2>1. /\ UNCHANGED <<writers, gcpc>> /\ pc[i] = "data" /\ w' = w /\ r' = r /\ c' = c /\ o'.lock = "none"
        /\ pc'[i] = "idle" \/ (mode' = mode /\ pc'[i] = IF mode[i] = "write" THEN "lock" ELSE "rings")
    <3>1. [NoHandle EXCEPT !.data = path].lock = "none"
      BY DEF NoHandle
    <3>2. pc'[i] = "idle" \/ (mode' = mode /\ pc'[i] = IF mode[i] = "write" THEN "lock" ELSE "rings")
      BY <1>2, <1>6 DEF OpenData, Goto, Fail
    <3>3. Open(i, "opening", NoHandle) \/ Open(i, "opening", [NoHandle EXCEPT !.data = path])
      BY <1>6 DEF OpenData, Fail
    <3> QED
      BY <1>1, <1>6, <3>1, <3>2, <3>3, OpenIs DEF OpenData, refs
  <2> QED
    BY <2>1
<1>7. CASE LockData(i)
  <2>1. /\ UNCHANGED <<writers, gcpc>> /\ pc[i] = "lock" /\ w' = w /\ r' = r /\ c' = c
        /\ \/ pc'[i] = "idle" /\ o'.lock = "none"
           \/ pc'[i] = "rings" /\ mode' = mode /\ o'.lock = "shared"
    BY <1>1, <1>2, <1>7, OpenIs DEF LockData, Goto, Fail, refs
  <2> QED
    BY <2>1
<1>8. CASE OpenRings(i)
  <2>1. /\ UNCHANGED <<writers, gcpc>> /\ pc[i] = "rings" /\ w' = w /\ r' = r /\ c' = c
        /\ \/ pc'[i] = "idle" /\ o'.lock = "none"
           \/ pc'[i] = "register" /\ mode' = mode /\ o'.lock = o.lock
    BY <1>1, <1>2, <1>8, OpenIs, RingsIs DEF OpenRings, Goto, Fail, refs
  <2> QED
    BY <2>1
<1>9. CASE Register(i)
  <2>1. /\ gcpc' = gcpc /\ pc[i] = "register" /\ pc'[i] = "idle" /\ c' = c /\ o'.lock = "none"
        /\ \/ mode[i] = "write" /\ writers'[i] = writers[i] + 1 /\ r' = r /\ w' = IF writers[i] = 0 THEN o ELSE w
           \/ mode[i] = "read" /\ writers' = writers /\ w' = w /\ r' = o
    BY <1>1, <1>2, <1>9, RegisterIs DEF Register, Goto
  <2>2. o.lock # "none" => o.lock = "shared" /\ mode[i] = "write"
    OBVIOUS
  <2>3. mode[i] = "write" => o.lock = "shared"
    BY <2>1
  <2> QED
    BY <1>2, <2>1, <2>2, <2>3
<1>10. CASE ReleaseReader(i)
  <2>1. /\ UNCHANGED <<writers, gcpc, pc, mode>> /\ w' = w /\ o' = o /\ c' = c
        /\ r' = r \/ r' = NoHandle
    BY <1>1, <1>10, OpenIs DEF ReleaseReader
  <2> QED
    BY <1>1, <2>1
<1>11. CASE ReleaseWriter(i)
  <2>1. /\ UNCHANGED <<gcpc, open>> /\ pc[i] = "idle" /\ writers'[i] = writers[i] - 1 /\ writers[i] > 0
        /\ pc'[i] = IF writers[i] = 1 THEN "upgrade" ELSE "idle"
    BY <1>2, <1>11 DEF ReleaseWriter, Goto
  <2> QED
    BY <1>2, <2>1
<1>12. CASE DestroyInstance(i)
  <2>1. /\ gcpc' = gcpc /\ pc[i] = "idle" /\ writers'[i] = 0 /\ w' = w /\ o' = o /\ c' = c /\ r' = NoHandle
        /\ pc'[i] = IF writers[i] > 0 THEN "upgrade" ELSE "idle"
    BY <1>1, <1>2, <1>12, OpenIs DEF DestroyInstance, Goto
  <2> QED
    BY <1>1, <2>1
<1>13. CASE UpgradeLock(i)
  <2>1. /\ UNCHANGED <<writers, mode, gcpc>> /\ pc[i] = "upgrade" /\ pc'[i] \in {"delete", "erase"} /\ r' = r /\ o' = o /\ c' = c
        /\ w'.lock \in {"exclusive", "none"}
    <3> DEFINE got == LockAfterUpgrade(i, "writer")
    <3>1. got \in {"exclusive", "none"}
      BY DEF LockAfterUpgrade, FailedUpgrade
    <3>2. /\ UNCHANGED <<writers, mode, gcpc>> /\ pc[i] = "upgrade" /\ pc'[i] \in {"delete", "erase"}
          /\ \/ open' = [open EXCEPT ![i]["writer"].lock = "exclusive"]
             \/ open' = [open EXCEPT ![i]["writer"].lock = "none"]
      BY <1>2, <1>13, <3>1 DEF UpgradeLock, Goto, refs
    <3> QED
      BY <1>1, <3>2, LockIs
  <2> QED
    BY <2>1
<1>14. CASE DeleteFlow(i) \/ UnlinkPart(i) \/ RemoveDirectory(i)
  <2>1. /\ UNCHANGED <<open, writers, mode, gcpc>> /\ pc[i] \in {"delete", "unlink"}
        /\ pc'[i] \in {"unlink", "erase"}
    BY <1>2, <1>14 DEF DeleteFlow, UnlinkPart, RemoveDirectory, Goto, refs
  <2> QED
    BY <2>1
<1>15. CASE EraseWriter(i)
  <2>1. /\ UNCHANGED <<writers, mode, gcpc>> /\ pc[i] = "erase" /\ pc'[i] = "idle" /\ r' = r /\ o' = o /\ c' = c
        /\ w' = NoHandle
    BY <1>1, <1>2, <1>15, OpenIs DEF EraseWriter, Goto, refs
  <2> QED
    BY <1>1, <2>1
<1>16. CASE Crash(i)
  <2>1. /\ pc'[i] = "idle" /\ writers'[i] = 0 /\ \A h \in Handles : open'[i][h] = NoHandle
    BY <1>1, <1>2, <1>16 DEF Crash, Goto, OpenTyped
  <2> QED
    BY <1>1, <2>1
<1>17. CASE CollectOpen(i) \/ CollectProbe(i) \/ CollectClose(i)
  <2>1. UNCHANGED <<writers, mode, pc>> /\ w' = w /\ r' = r /\ o' = o
    BY <1>1, <1>17, OpenIs, LockIs DEF CollectOpen, CollectProbe, CollectClose, refs
  <2>2. c'.lock = "none" \/ (c'.lock = "exclusive" /\ gcpc'[i] = "close")
    <3>1. [NoHandle EXCEPT !.data = path].lock = "none"
      BY DEF NoHandle
    <3>2. CASE CollectOpen(i)
      <4>1. Open(i, "collecting", [NoHandle EXCEPT !.data = path])
        BY <3>2 DEF CollectOpen
      <4> QED
        BY <1>1, <3>1, <4>1, OpenIs
    <3>3. CASE CollectProbe(i) \/ CollectClose(i)
      <4>1. \/ open' = [open EXCEPT ![i]["collecting"].lock = "exclusive"] /\ gcpc'[i] = "close"
            \/ Open(i, "collecting", NoHandle)
        BY <1>2, <3>3 DEF CollectProbe, CollectClose, GcGoto
      <4> QED
        BY <1>1, <4>1, OpenIs, LockIs
    <3> QED
      BY <1>17, <3>2, <3>3
  <2> QED
    BY <2>1, <2>2
<1>18. CASE CollectDelete(i) \/ CollectPart(i) \/ CollectDirectory(i)
  <2>1. UNCHANGED <<open, writers, mode, pc>> /\ gcpc[i] # "close"
    BY <1>18 DEF CollectDelete, CollectPart, CollectDirectory, refs
  <2> QED
    BY <2>1
<1>19. CASE RefuseOpen(i)
  <2>1. /\ UNCHANGED <<writers, gcpc>> /\ pc[i] \in {"rings", "register"} /\ pc'[i] = "idle"
        /\ w' = w /\ r' = r /\ c' = c /\ o'.lock = "none"
    BY <1>1, <1>2, <1>19, OpenIs DEF RefuseOpen, Refusable, Goto, Fail, refs
  <2> QED
    BY <2>1
<1> QED
  BY <1>3, <1>4, <1>5, <1>6, <1>7, <1>8, <1>9, <1>10, <1>11, <1>12, <1>13, <1>14, <1>15, <1>16, <1>17, <1>18,
     <1>19 DEF Step, CallStep, CollectStep


(* A lock that is given up, or that stays where it is.                     *)
KeptOrDropped(i, h) ==
    \/ open'[i][h].lock = "none"
    \/ open'[i][h].lock = open[i][h].lock /\ open'[i][h].data = open[i][h].data

LEMMA OwnLocksKept ==
  ASSUME TypeInv, NEW i \in Instances, Step(i), NEW h \in Handles,
         ~(PublishFlow(i) \/ LockData(i) \/ Register(i) \/ UpgradeLock(i) \/ CollectProbe(i))
  PROVE  KeptOrDropped(i, h)
<1> USE DEF KeptOrDropped
<1>1. OpenTyped /\ Handles = {"writer", "reader", "opening", "collecting"}
  BY DEF TypeInv, Handles
<1>2. NoHandle.lock = "none" /\ [NoHandle EXCEPT !.data = path].lock = "none"
  BY DEF NoHandle
<1>3. CASE \/ EraseWriter(i) \/ ReleaseReader(i) \/ DestroyInstance(i) \/ CollectClose(i) \/ OpenData(i)
           \/ CollectOpen(i)
  <2>1. UNCHANGED open \/ \E g \in Handles : Open(i, g, NoHandle) \/ Open(i, g, [NoHandle EXCEPT !.data = path])
    BY <1>1, <1>3 DEF EraseWriter, ReleaseReader, DestroyInstance, CollectClose, OpenData, CollectOpen, Fail
  <2>2. ASSUME NEW g \in Handles, NEW handle, handle.lock = "none", Open(i, g, handle)
        PROVE  KeptOrDropped(i, h)
    <3>1. open'[i][g] = handle /\ (g # h => open'[i][h] = open[i][h])
      BY <1>1, <2>2, OpenIs
    <3> QED
      BY <2>2, <3>1
  <2> QED
    BY <1>2, <2>1, <2>2
<1>4. CASE OpenRings(i) \/ RefuseOpen(i)
  <2>1. open' = [open EXCEPT ![i]["opening"].rings = path] \/ Open(i, "opening", NoHandle)
    BY <1>4 DEF OpenRings, RefuseOpen, Fail
  <2> QED
    BY <1>1, <1>2, <2>1, OpenIs, RingsIs
<1>5. CASE Crash(i)
  BY <1>1, <1>2, <1>5 DEF Crash, OpenTyped
<1>6. CASE \/ CreateFlowWriter(i) \/ GetFlowReader(i) \/ ReleaseWriter(i) \/ DeleteFlow(i) \/ UnlinkPart(i)
           \/ RemoveDirectory(i) \/ CollectDelete(i) \/ CollectPart(i) \/ CollectDirectory(i)
  BY <1>6 DEF CreateFlowWriter, GetFlowReader, ReleaseWriter, DeleteFlow, UnlinkPart, RemoveDirectory, CollectDelete,
     CollectPart, CollectDirectory
<1> QED
  BY <1>3, <1>4, <1>5, <1>6 DEF Step, CallStep, CollectStep

LEMMA LocksKept ==
  ASSUME LocksAgree, \A j \in Instances, g \in Handles : KeptOrDropped(j, g)
  PROVE  LocksAgree'
<1> SUFFICES ASSUME NEW o \in Instances \X Handles, NEW p \in Instances \X Handles, o # p,
                    open'[o[1]][o[2]].data = open'[p[1]][p[2]].data,
                    open'[o[1]][o[2]].lock # "none", open'[p[1]][p[2]].lock # "none"
             PROVE  open'[o[1]][o[2]].lock = "shared"
  BY DEF LocksAgree
<1>1. KeptOrDropped(o[1], o[2]) /\ KeptOrDropped(p[1], p[2])
  OBVIOUS
<1> QED
  BY <1>1 DEF LocksAgree, KeptOrDropped

(* A lock that is taken agrees with those that are there.                  *)
LEMMA LockTaken ==
  ASSUME LocksAgree, NEW i \in Instances, NEW h \in Handles,
         \A j \in Instances, g \in Handles : <<j, g>> # <<i, h>> => KeptOrDropped(j, g),
         \A j \in Instances, g \in Handles :
            /\ <<j, g>> # <<i, h>> /\ open'[j][g].data = open'[i][h].data
            /\ open'[j][g].lock # "none" /\ open'[i][h].lock # "none"
            => open'[j][g].lock = "shared" /\ open'[i][h].lock = "shared"
  PROVE  LocksAgree'
<1> SUFFICES ASSUME NEW o \in Instances \X Handles, NEW p \in Instances \X Handles, o # p,
                    open'[o[1]][o[2]].data = open'[p[1]][p[2]].data,
                    open'[o[1]][o[2]].lock # "none", open'[p[1]][p[2]].lock # "none"
             PROVE  open'[o[1]][o[2]].lock = "shared"
  BY DEF LocksAgree
<1>1. o = <<o[1], o[2]>> /\ p = <<p[1], p[2]>> /\ o[1] \in Instances /\ p[1] \in Instances
      /\ o[2] \in Handles /\ p[2] \in Handles
  OBVIOUS
<1>2. CASE o = <<i, h>>
  <2>1. p # <<i, h>> /\ o[1] = i /\ o[2] = h
    BY <1>2
  <2> QED
    BY <1>1, <2>1
<1>3. CASE p = <<i, h>>
  <2>1. o # <<i, h>> /\ p[1] = i /\ p[2] = h
    BY <1>3
  <2> QED
    BY <1>1, <2>1
<1>4. CASE o # <<i, h>> /\ p # <<i, h>>
  <2>1. KeptOrDropped(o[1], o[2]) /\ KeptOrDropped(p[1], p[2])
    BY <1>1, <1>4
  <2> QED
    BY <2>1 DEF LocksAgree, KeptOrDropped
<1> QED
  BY <1>2, <1>3, <1>4

LEMMA NobodyElse ==
  ASSUME NEW i \in Instances, NEW h \in Handles, NEW f, OthersLocking(i, h, f) = {},
         NEW j \in Instances, NEW g \in Handles, <<j, g>> # <<i, h>>, open[j][g].data = f
  PROVE  open[j][g].lock = "none"
<1> DEFINE o == <<j, g>>
<1>1. o \in Instances \X Handles /\ o[1] = j /\ o[2] = g
  OBVIOUS
<1> QED
  BY <1>1 DEF OthersLocking

LEMMA EverybodyShares ==
  ASSUME NEW i \in Instances, NEW h \in Handles, NEW f, CanShare(i, h, f),
         NEW j \in Instances, NEW g \in Handles, <<j, g>> # <<i, h>>, open[j][g].data = f, open[j][g].lock # "none"
  PROVE  open[j][g].lock = "shared"
<1> DEFINE o == <<j, g>>
<1>1. o \in OthersLocking(i, h, f) /\ o[1] = j /\ o[2] = g
  BY DEF OthersLocking
<1> QED
  BY <1>1 DEF CanShare

LEMMA LocksAgreeStep ==
  ASSUME TypeInv, LockInv, NEW i \in Instances, Step(i)
  PROVE  LocksAgree'
<1>1. /\ OpenTyped /\ Handles = {"writer", "reader", "opening", "collecting"} /\ NoHandle.lock = "none"
      /\ LocksAgree /\ Published /\ made \in Nat
  BY Bounds DEF TypeInv, LockInv, Handles, NoHandle, DiskTyped, Flows
<1>2. ASSUME NEW j \in Instances \ {i}, NEW g \in Handles
      PROVE  open'[j][g] = open[j][g] /\ KeptOrDropped(j, g)
  BY <1>2, OthersUntouched DEF KeptOrDropped
<1>3. CASE PublishFlow(i)
  <2>1. CASE open' = open
    BY <1>1, <2>1, LocksKept DEF KeptOrDropped
  <2>2. CASE Open(i, "opening", [data |-> made + 1, rings |-> made + 1, lock |-> "shared"])
    <3>1. open'[i]["opening"].data = made + 1 /\ \A g \in Handles \ {"opening"} : open'[i][g] = open[i][g]
      BY <1>1, <2>2, OpenIs
    <3>2. \A j \in Instances, g \in Handles : <<j, g>> # <<i, "opening">> => open'[j][g] = open[j][g]
      BY <1>2, <3>1
    <3>3. \A j \in Instances, g \in Handles : open[j][g].data \in Nat /\ open[j][g].data <= made
      BY <1>1, Bounds DEF Published, OpenTyped, Handle, Flows
    <3>4. \A j \in Instances, g \in Handles : <<j, g>> # <<i, "opening">> => open'[j][g].data # open'[i]["opening"].data
      BY <1>1, <3>1, <3>2, <3>3
    <3> QED
      BY <1>1, <3>2, <3>4, LockTaken DEF KeptOrDropped
  <2> QED
    BY <1>3, <2>1, <2>2 DEF PublishFlow
<1>4. CASE LockData(i)
  <2> DEFINE f == open[i]["opening"].data
  <2>1. CASE Open(i, "opening", NoHandle)
    <3>1. \A g \in Handles : KeptOrDropped(i, g)
      BY <1>1, <2>1, OpenIs DEF KeptOrDropped
    <3> QED
      BY <1>1, <1>2, <3>1, LocksKept
  <2>2. CASE CanShare(i, "opening", f) /\ Open(i, "opening", [data |-> f, rings |-> 0, lock |-> "shared"])
    <3>1. /\ open'[i]["opening"].data = f /\ open'[i]["opening"].lock = "shared"
          /\ \A g \in Handles \ {"opening"} : open'[i][g] = open[i][g]
      BY <1>1, <2>2, OpenIs
    <3>2. \A j \in Instances, g \in Handles : <<j, g>> # <<i, "opening">> => open'[j][g] = open[j][g]
      BY <1>2, <3>1
    <3>3. ASSUME NEW j \in Instances, NEW g \in Handles, <<j, g>> # <<i, "opening">>,
                 open'[j][g].data = open'[i]["opening"].data, open'[j][g].lock # "none"
          PROVE  open'[j][g].lock = "shared"
      BY <1>1, <2>2, <3>1, <3>2, <3>3, EverybodyShares
    <3> QED
      BY <1>1, <3>1, <3>2, <3>3, LockTaken DEF KeptOrDropped
  <2> QED
    BY <1>4, <2>1, <2>2 DEF LockData, Fail
<1>5. CASE Register(i)
  <2>1. open'[i]["opening"] = NoHandle /\ open'[i]["collecting"] = open[i]["collecting"]
    BY <1>1, <1>5, RegisterIs
  <2>2. ASSUME NEW h \in {"writer", "reader"}, open'[i][h] = open[i]["opening"],
               \A g \in Handles \ {h, "opening"} : open'[i][g] = open[i][g]
        PROVE  LocksAgree'
    <3>1. \A j \in Instances, g \in Handles : <<j, g>> # <<i, h>> => KeptOrDropped(j, g)
      BY <1>1, <1>2, <2>1, <2>2 DEF KeptOrDropped
    <3>2. ASSUME NEW j \in Instances, NEW g \in Handles, <<j, g>> # <<i, h>>,
                 open'[j][g].data = open'[i][h].data, open'[j][g].lock # "none", open'[i][h].lock # "none"
          PROVE  open'[j][g].lock = "shared" /\ open'[i][h].lock = "shared"
      <4>1. <<j, g>> # <<i, "opening">> /\ open'[j][g] = open[j][g]
        BY <1>1, <1>2, <2>1, <2>2, <3>2
      <4> DEFINE o == <<j, g>>
                 p == <<i, "opening">>
      <4>2. o \in Instances \X Handles /\ p \in Instances \X Handles /\ o # p
            /\ o[1] = j /\ o[2] = g /\ p[1] = i /\ p[2] = "opening"
        BY <1>1, <4>1
      <4>3. open[o[1]][o[2]].data = open[p[1]][p[2]].data /\ open[o[1]][o[2]].lock # "none" /\ open[p[1]][p[2]].lock # "none"
        BY <2>2, <3>2, <4>1, <4>2
      <4>4. open[o[1]][o[2]].lock = "shared" /\ open[p[1]][p[2]].lock = "shared"
        BY <1>1, <4>2, <4>3 DEF LocksAgree
      <4> QED
        BY <2>2, <4>1, <4>2, <4>4
    <3> QED
      BY <1>1, <3>1, <3>2, LockTaken
  <2>3. CASE \A g \in Handles \ {"opening"} : open'[i][g] = open[i][g]
    <3>1. \A g \in Handles : KeptOrDropped(i, g)
      BY <1>1, <2>1, <2>3 DEF KeptOrDropped
    <3> QED
      BY <1>1, <1>2, <3>1, LocksKept
  <2> QED
    BY <1>1, <1>5, <2>1, <2>2, <2>3, RegisterIs
<1>6. ASSUME NEW h \in {"writer", "collecting"},
             \/ open' = [open EXCEPT ![i][h].lock = "exclusive"] /\ OthersLocking(i, h, open[i][h].data) = {}
             \/ open' = [open EXCEPT ![i][h].lock = "none"]
             \/ Open(i, h, NoHandle)
      PROVE  LocksAgree'
  <2>1. CASE open' = [open EXCEPT ![i][h].lock = "none"] \/ Open(i, h, NoHandle)
    <3>1. open'[i][h].lock = "none" /\ \A g \in Handles \ {h} : open'[i][g] = open[i][g]
      BY <1>1, <2>1, OpenIs, LockIs
    <3> QED
      BY <1>1, <1>2, <3>1, LocksKept DEF KeptOrDropped
  <2>2. CASE open' = [open EXCEPT ![i][h].lock = "exclusive"] /\ OthersLocking(i, h, open[i][h].data) = {}
    <3>1. open'[i][h].data = open[i][h].data /\ \A g \in Handles \ {h} : open'[i][g] = open[i][g]
      BY <1>1, <2>2, LockIs
    <3>2. \A j \in Instances, g \in Handles : <<j, g>> # <<i, h>> => open'[j][g] = open[j][g]
      BY <1>2, <3>1
    <3>3. ASSUME NEW j \in Instances, NEW g \in Handles, <<j, g>> # <<i, h>>, open'[j][g].data = open'[i][h].data
          PROVE  open'[j][g].lock = "none"
      BY <1>1, <2>2, <3>1, <3>2, <3>3, NobodyElse
    <3>4. \A j \in Instances, g \in Handles : <<j, g>> # <<i, h>> => KeptOrDropped(j, g)
      BY <3>2 DEF KeptOrDropped
    <3> QED
      BY <1>1, <3>3, <3>4, LockTaken
  <2> QED
    BY <1>6, <2>1, <2>2
<1>7. CASE UpgradeLock(i)
  <2>1. CASE OthersLocking(i, "writer", open[i]["writer"].data) = {}
    <3>1. open' = [open EXCEPT ![i]["writer"].lock = "exclusive"]
      BY <1>7, <2>1 DEF UpgradeLock, LockAfterUpgrade
    <3> QED
      BY <1>6, <2>1, <3>1
  <2>2. CASE OthersLocking(i, "writer", open[i]["writer"].data) # {}
    <3>1. open' = [open EXCEPT ![i]["writer"].lock = "none"]
      BY <1>7, <2>2 DEF UpgradeLock, LockAfterUpgrade, FailedUpgrade
    <3> QED
      BY <1>6, <3>1
  <2> QED
    BY <2>1, <2>2
<1>8. CASE CollectProbe(i)
  <2>1. CASE ProbeResult(i) = "exclusive"
    <3>1. OthersLocking(i, "collecting", open[i]["collecting"].data) = {}
      BY <2>1 DEF ProbeResult, LockAfterUpgrade, FailedUpgrade
    <3>2. open' = [open EXCEPT ![i]["collecting"].lock = "exclusive"]
      BY <1>8, <2>1 DEF CollectProbe
    <3> QED
      BY <1>6, <3>1, <3>2
  <2>2. CASE Open(i, "collecting", NoHandle)
    BY <1>6, <2>2
  <2> QED
    BY <1>8, <2>1, <2>2 DEF CollectProbe
<1>9. CASE ~(PublishFlow(i) \/ LockData(i) \/ Register(i) \/ UpgradeLock(i) \/ CollectProbe(i))
  <2>1. \A g \in Handles : KeptOrDropped(i, g)
    BY <1>9, OwnLocksKept
  <2> QED
    BY <1>1, <1>2, <2>1, LocksKept
<1> QED
  BY <1>3, <1>4, <1>5, <1>7, <1>8, <1>9

LEMMA PublishedStep ==
  ASSUME TypeInv, Published, NEW i \in Instances, Step(i)
  PROVE  Published'
<1>1. /\ OpenTyped /\ Handles = {"writer", "reader", "opening", "collecting"} /\ NoHandle.data = 0
      /\ [NoHandle EXCEPT !.data = path].data = path /\ made \in Nat /\ path \in Nat
      /\ \A j \in Instances, g \in Handles : open[j][g].data \in Nat /\ open[j][g].data <= made
  BY Bounds DEF TypeInv, Handles, NoHandle, DiskTyped, OpenTyped, Handle, Flows, Published
<1>2. path' \in Nat /\ made' \in Nat /\ path' <= made' /\ made <= made'
  <2>1. CASE PublishFlow(i)
    BY <1>1, <2>1 DEF PublishFlow, Published, disk
  <2>2. CASE RemoveDirectory(i) \/ CollectDirectory(i)
    BY <1>1, <2>2 DEF RemoveDirectory, CollectDirectory, PathAfterRmdir, Published
  <2>3. CASE ~(PublishFlow(i) \/ RemoveDirectory(i) \/ CollectDirectory(i))
    <3>1. UNCHANGED <<path, made>>
      BY <2>3 DEF Step, CallStep, CollectStep, CreateFlowWriter, GetFlowReader, ReleaseReader, ReleaseWriter,
         DestroyInstance, Crash, CollectOpen, OpenData, LockData, OpenRings, RefuseOpen, Refusable, Register,
         UpgradeLock, DeleteFlow, UnlinkPart, EraseWriter, CollectProbe, CollectClose, CollectDelete, CollectPart, disk
    <3> QED
      BY <1>1, <3>1 DEF Published
  <2> QED
    BY <2>1, <2>2, <2>3
<1>3. ASSUME NEW j \in Instances \ {i}, NEW g \in Handles
      PROVE  open'[j][g].data <= made'
  BY <1>1, <1>2, <1>3, OthersUntouched
<1>4. ASSUME NEW h \in Handles, NEW handle, handle.data \in Nat, handle.data <= made', Open(i, h, handle), NEW g \in Handles
      PROVE  open'[i][g].data <= made'
  <2>1. open'[i][h] = handle /\ (g # h => open'[i][g] = open[i][g])
    BY <1>1, <1>4, OpenIs
  <2> QED
    BY <1>1, <1>2, <1>4, <2>1
<1>5. ASSUME NEW g \in Handles
      PROVE  open'[i][g].data <= made'
  <2>1. CASE PublishFlow(i)
    <3>1. \/ open' = open
          \/ made' = made + 1 /\ Open(i, "opening", [data |-> made + 1, rings |-> made + 1, lock |-> "shared"])
      BY <2>1 DEF PublishFlow
    <3>2. CASE open' = open
      BY <1>1, <1>2, <3>2
    <3>3. CASE made' = made + 1 /\ Open(i, "opening", [data |-> made + 1, rings |-> made + 1, lock |-> "shared"])
      <4> DEFINE handle == [data |-> made + 1, rings |-> made + 1, lock |-> "shared"]
      <4>1. handle.data \in Nat /\ handle.data <= made' /\ Open(i, "opening", handle)
        BY <1>1, <3>3
      <4> HIDE DEF handle
      <4> QED
        BY <1>1, <1>4, <4>1
    <3> QED
      BY <3>1, <3>2, <3>3
  <2>2. CASE LockData(i)
    <3> DEFINE handle == [data |-> open[i]["opening"].data, rings |-> 0, lock |-> "shared"]
    <3>1. Open(i, "opening", NoHandle) \/ Open(i, "opening", handle)
      BY <2>2 DEF LockData, Fail
    <3>2. handle.data = open[i]["opening"].data
      OBVIOUS
    <3> HIDE DEF handle
    <3> QED
      BY <1>1, <1>2, <1>4, <3>1, <3>2
  <2>3. CASE Register(i)
    BY <1>1, <1>2, <2>3, RegisterIs
  <2>4. CASE UpgradeLock(i) \/ CollectProbe(i)
    <3>1. \E h \in Handles, l \in {"exclusive", "none"} : open' = [open EXCEPT ![i][h].lock = l] \/ Open(i, h, NoHandle)
      BY <1>1, <2>4 DEF UpgradeLock, CollectProbe, LockAfterUpgrade, FailedUpgrade
    <3>2. ASSUME NEW h \in Handles, NEW l \in {"exclusive", "none"}, open' = [open EXCEPT ![i][h].lock = l]
          PROVE  open'[i][g].data <= made'
      <4>1. open'[i][h].data = open[i][h].data /\ (g # h => open'[i][g] = open[i][g])
        BY <1>1, <3>2, LockIs
      <4> QED
        BY <1>1, <1>2, <4>1
    <3> QED
      BY <1>1, <1>2, <1>4, <3>1, <3>2
  <2>5. CASE OpenRings(i) \/ RefuseOpen(i)
    <3>1. open' = [open EXCEPT ![i]["opening"].rings = path] \/ Open(i, "opening", NoHandle)
      BY <2>5 DEF OpenRings, RefuseOpen, Fail
    <3>2. CASE open' = [open EXCEPT ![i]["opening"].rings = path]
      <4>1. open'[i]["opening"].data = open[i]["opening"].data /\ (g # "opening" => open'[i][g] = open[i][g])
        BY <1>1, <3>2, RingsIs
      <4> QED
        BY <1>1, <1>2, <4>1
    <3> QED
      BY <1>1, <1>2, <1>4, <3>1, <3>2
  <2>6. CASE Crash(i)
    BY <1>1, <1>2, <2>6 DEF Crash, OpenTyped
  <2>7. CASE \/ EraseWriter(i) \/ ReleaseReader(i) \/ DestroyInstance(i) \/ CollectClose(i) \/ OpenData(i)
             \/ CollectOpen(i)
    <3> DEFINE handle == [NoHandle EXCEPT !.data = path]
    <3>1. UNCHANGED open \/ \E h \in Handles : Open(i, h, NoHandle) \/ Open(i, h, handle)
      BY <1>1, <2>7 DEF EraseWriter, ReleaseReader, DestroyInstance, CollectClose, OpenData, CollectOpen, Fail
    <3>2. handle.data = path /\ path <= made'
      BY <1>1, <1>2 DEF Published
    <3> HIDE DEF handle
    <3> QED
      BY <1>1, <1>2, <1>4, <3>1, <3>2
  <2>8. CASE \/ CreateFlowWriter(i) \/ GetFlowReader(i) \/ ReleaseWriter(i) \/ DeleteFlow(i) \/ UnlinkPart(i)
             \/ RemoveDirectory(i) \/ CollectDelete(i) \/ CollectPart(i) \/ CollectDirectory(i)
    <3>1. UNCHANGED open
      BY <2>8 DEF CreateFlowWriter, GetFlowReader, ReleaseWriter, DeleteFlow, UnlinkPart, RemoveDirectory, CollectDelete,
         CollectPart, CollectDirectory
    <3> QED
      BY <1>1, <1>2, <3>1
  <2> QED
    BY <2>1, <2>2, <2>3, <2>4, <2>5, <2>6, <2>7, <2>8 DEF Step, CallStep, CollectStep
<1> QED
  BY <1>2, <1>3, <1>5 DEF Published

LEMMA LockInvStep ==
  ASSUME TypeInv, LockInv, NEW i \in Instances, Step(i)
  PROVE  LockInv'
<1>1. Published' /\ LocksAgree'
  BY PublishedStep, LocksAgreeStep DEF LockInv
<1>2. ASSUME NEW j \in Instances PROVE (WriterLock(j) /\ OpeningLock(j) /\ OtherLocks(j))'
  <2>1. WriterLock(j) /\ OpeningLock(j) /\ OtherLocks(j)
    BY DEF LockInv, LockState
  <2>2. CASE j = i
    BY <2>1, <2>2, LockStateOwn
  <2>3. CASE j # i
    <3>1. /\ open'[j] = open[j] /\ writers'[j] = writers[j] /\ mode'[j] = mode[j]
          /\ pc'[j] = pc[j] /\ gcpc'[j] = gcpc[j]
      BY <2>3, OthersUntouched
    <3> QED
      BY <2>1, <3>1 DEF WriterLock, OpeningLock, OtherLocks
  <2> QED
    BY <2>2, <2>3
<1> QED
  BY <1>1, <1>2 DEF LockInv, LockState

LEMMA LockInvInit == Init => LockInv
<1> SUFFICES ASSUME Init PROVE LockInv
  OBVIOUS
<1>1. \A i \in Instances, h \in Handles : open[i][h].lock = "none" /\ open[i][h].data = 0
  BY DEF Init, NoHandle
<1>2. Handles = {"writer", "reader", "opening", "collecting"} /\ path = 0 /\ made = 0
  BY DEF Handles, Init
<1>3. Published
  BY <1>1, <1>2 DEF Published
<1>4. LocksAgree
  <2>1. \A o \in Instances \X Handles : open[o[1]][o[2]].lock = "none"
    BY <1>1
  <2> QED
    BY <2>1 DEF LocksAgree
<1>5. LockState
  <2>1. \A i \in Instances : writers[i] = 0 /\ pc[i] = "idle"
    BY DEF Init
  <2> QED
    BY <1>1, <1>2, <2>1 DEF LockState, WriterLock, OpeningLock, OtherLocks
<1> QED
  BY <1>3, <1>4, <1>5 DEF LockInv

-----------------------------------------------------------------------------
(* Who removes the flow.                                                   *)

(* i is removing the directory at the path.                                *)
Unlinking(i) ==
    \/ pc[i] = "unlink" /\ doomed[i]["release"] = path
    \/ gcpc[i] = "unlink" /\ doomed[i]["collect"] = path

(* i holds a lock it will release, or has found itself to be the last.     *)
Responsible(i) ==
    \/ open[i]["writer"].lock = "shared" \/ open[i]["opening"].lock = "shared"
    \/ pc[i] = "delete" \/ gcpc[i] \in {"close", "delete"}
    \/ Unlinking(i)

PartlyRemoved == crashes = 0 /\ path # 0 /\ parts[path] # Parts => \E i \in Instances : Unlinking(i)

(* It takes a lock to become responsible, and one that is let go of leaves *)
(* another of those that share it, unless the call was refused.            *)
SomeoneIs == crashes = 0 /\ path # 0 => deserted \/ \E i \in Instances : Responsible(i)

LEMMA UnlinkingStays ==
  ASSUME TypeInv, NEW i \in Instances, Step(i), NEW k \in Instances, Unlinking(k), crashes' = 0, path # 0,
         path' # 0, ~PublishFlow(i)
  PROVE  Unlinking(k)' /\ path' = path
<1>1. path' = path /\ (parts[path] = {} => ~RemoveDirectory(i) /\ ~CollectDirectory(i))
  BY DEF Step, CallStep, CollectStep, CreateFlowWriter, GetFlowReader, ReleaseReader, ReleaseWriter, DestroyInstance,
     Crash, CollectOpen, OpenData, LockData, OpenRings, RefuseOpen, Refusable, Register, UpgradeLock, DeleteFlow,
     UnlinkPart, RemoveDirectory, EraseWriter, CollectProbe, CollectClose, CollectDelete, CollectPart,
     CollectDirectory, disk, PathAfterRmdir
<1>2. CASE k # i
  <2>1. pc'[k] = pc[k] /\ gcpc'[k] = gcpc[k] /\ doomed'[k] = doomed[k]
    BY <1>2, OthersUntouched
  <2> QED
    BY <1>1, <2>1 DEF Unlinking
<1>3. CASE k = i
  <2>1. /\ pc \in [Instances -> Pcs] /\ gcpc \in [Instances -> GcPcs] /\ doomed \in [Instances -> [Calls -> Flows]]
        /\ Calls = {"release", "collect"} /\ crashes \in Nat
    BY Bounds DEF TypeInv, CallsTyped, Calls
  <2>2. ~Crash(i)
    BY <2>1 DEF Crash
  <2>3. CASE pc[i] = "unlink" /\ doomed[i]["release"] = path
    <3>1. pc'[i] = "unlink" /\ doomed'[i]["release"] = doomed[i]["release"]
      <4>1. ~RemoveDirectory(i)
        BY <1>1, <2>3 DEF RemoveDirectory
      <4> QED
        BY <2>1, <2>2, <2>3, <4>1 DEF Step, CallStep, CollectStep, CreateFlowWriter, GetFlowReader, ReleaseReader,
           ReleaseWriter, DestroyInstance, CollectOpen, OpenData, LockData, OpenRings, RefuseOpen, Refusable, Register,
           UpgradeLock, DeleteFlow, UnlinkPart, EraseWriter, CollectProbe, CollectClose, CollectDelete, CollectPart,
           CollectDirectory
    <3> QED
      BY <1>1, <1>3, <2>3, <3>1 DEF Unlinking
  <2>4. CASE gcpc[i] = "unlink" /\ doomed[i]["collect"] = path
    <3>1. gcpc'[i] = "unlink" /\ doomed'[i]["collect"] = doomed[i]["collect"]
      <4>1. ~CollectDirectory(i)
        BY <1>1, <2>4 DEF CollectDirectory
      <4> QED
        BY <2>1, <2>2, <2>4, <4>1 DEF Step, CallStep, CollectStep, CreateFlowWriter, GetFlowReader, ReleaseReader,
           ReleaseWriter, DestroyInstance, CollectOpen, OpenData, LockData, OpenRings, RefuseOpen, Refusable, Register,
           UpgradeLock, DeleteFlow, UnlinkPart, RemoveDirectory, EraseWriter, CollectProbe, CollectClose,
           CollectDelete, CollectPart
    <3> QED
      BY <1>1, <1>3, <2>4, <3>1 DEF Unlinking
  <2> QED
    BY <1>3, <2>3, <2>4 DEF Unlinking
<1> QED
  BY <1>2, <1>3

LEMMA PartlyRemovedStep ==
  ASSUME TypeInv, PartlyRemoved, NEW i \in Instances, Step(i)
  PROVE  PartlyRemoved'
<1> SUFFICES ASSUME crashes' = 0, path' # 0, parts'[path'] # Parts
             PROVE  \E k \in Instances : Unlinking(k)'
  BY DEF PartlyRemoved
<1>1. crashes = 0
  BY Bounds DEF TypeInv, CallsTyped, Step, CallStep, CollectStep, CreateFlowWriter, GetFlowReader, ReleaseReader,
     ReleaseWriter, DestroyInstance, Crash, CollectOpen, PublishFlow, OpenData, LockData, OpenRings, RefuseOpen,
     Refusable, Register, UpgradeLock, DeleteFlow, UnlinkPart, RemoveDirectory, EraseWriter, CollectProbe,
     CollectClose, CollectDelete, CollectPart, CollectDirectory
<1>2. CASE PublishFlow(i)
  <2>1. CASE path = 0
    <3>1. made + 1 \in Flows
      BY <1>2, <2>1, Bounds DEF PublishFlow, TypeInv, DiskTyped, Flows
    <3>2. parts'[path'] = Parts
      BY <1>2, <2>1, <3>1 DEF PublishFlow, TypeInv, DiskTyped
    <3> QED
      BY <3>2
  <2>2. CASE path # 0
    <3>1. UNCHANGED <<path, parts, gcpc, doomed>> /\ pc[i] = "publish" /\ \A j \in Instances \ {i} : pc'[j] = pc[j]
      BY <1>2, <2>2, OthersUntouched DEF PublishFlow, disk
    <3>2. PICK k \in Instances : Unlinking(k)
      BY <1>1, <2>2, <3>1 DEF PartlyRemoved
    <3>3. Unlinking(k)'
      BY <3>1, <3>2 DEF Unlinking
    <3> QED
      BY <3>3
  <2> QED
    BY <2>1, <2>2
<1>3. CASE ~PublishFlow(i)
  <2>1. path' = path /\ path # 0
    BY <1>3 DEF Step, CallStep, CollectStep, CreateFlowWriter, GetFlowReader, ReleaseReader, ReleaseWriter,
       DestroyInstance, Crash, CollectOpen, OpenData, LockData, OpenRings, RefuseOpen, Refusable, Register,
       UpgradeLock, DeleteFlow, UnlinkPart, RemoveDirectory, EraseWriter, CollectProbe, CollectClose, CollectDelete,
       CollectPart, CollectDirectory, disk, PathAfterRmdir
  <2>2. CASE parts[path] # Parts
    BY <1>1, <1>3, <2>1, <2>2, UnlinkingStays DEF PartlyRemoved
  <2>3. CASE parts[path] = Parts
    <3>1. parts' # parts
      BY <2>1, <2>3
    <3>2. UnlinkPart(i) \/ CollectPart(i)
      BY <1>3, <3>1 DEF Step, CallStep, CollectStep, CreateFlowWriter, GetFlowReader, ReleaseReader, ReleaseWriter,
         DestroyInstance, Crash, CollectOpen, OpenData, LockData, OpenRings, RefuseOpen, Refusable, Register,
         UpgradeLock, DeleteFlow, RemoveDirectory, EraseWriter, CollectProbe, CollectClose, CollectDelete,
         CollectDirectory, disk
    <3>3. /\ UNCHANGED <<path, pc, gcpc, doomed>>
          /\ \/ pc[i] = "unlink" /\ \E p \in Parts : parts' = [parts EXCEPT ![doomed[i]["release"]] = @ \ {p}]
             \/ gcpc[i] = "unlink" /\ \E p \in Parts : parts' = [parts EXCEPT ![doomed[i]["collect"]] = @ \ {p}]
      BY <3>2 DEF UnlinkPart, CollectPart
    <3>4. Unlinking(i)
      BY <2>1, <2>3, <3>3 DEF Unlinking, TypeInv, DiskTyped
    <3> QED
      BY <3>3, <3>4 DEF Unlinking
  <2> QED
    BY <2>2, <2>3
<1> QED
  BY <1>2, <1>3

(* Whoever has to see to the removal of the flow goes on doing so, hands   *)
(* it over to another with a lock on the same file, or has done it.        *)
LEMMA ResponsibleStep ==
  ASSUME TypeInv, LockInv, PartlyRemoved, NEW i \in Instances, Step(i), Responsible(i),
         crashes' = 0, path # 0, path' # 0
  PROVE  deserted' \/ \E k \in Instances : Responsible(k)'
<1>1. /\ WriterLock(i) /\ OpeningLock(i) /\ OtherLocks(i) /\ OpenTyped /\ LocksAgree
      /\ writers \in [Instances -> 0..MaxReferences] /\ mode \in [Instances -> {"none", "read", "write"}]
      /\ pc \in [Instances -> Pcs] /\ gcpc \in [Instances -> GcPcs] /\ doomed \in [Instances -> [Calls -> Flows]]
      /\ Calls = {"release", "collect"} /\ crashes \in Nat /\ MaxReferences \in Nat /\ writers[i] \in Nat
      /\ Handles = {"writer", "reader", "opening", "collecting"}
  BY Bounds DEF TypeInv, RefsTyped, CallsTyped, LockInv, LockState, Calls, Handles
<1>2. (WriterLock(i) /\ OpeningLock(i) /\ OtherLocks(i))'
  BY LockInvStep DEF LockInv, LockState
<1>3. ~Crash(i) /\ crashes = 0
  BY <1>1 DEF Crash, Step, CallStep, CollectStep, CreateFlowWriter, GetFlowReader, ReleaseReader, ReleaseWriter,
     DestroyInstance, CollectOpen, PublishFlow, OpenData, LockData, OpenRings, RefuseOpen, Refusable, Register,
     UpgradeLock, DeleteFlow, UnlinkPart, RemoveDirectory, EraseWriter, CollectProbe, CollectClose, CollectDelete,
     CollectPart, CollectDirectory
<1>4. path' = path
  BY DEF Step, CallStep, CollectStep, CreateFlowWriter, GetFlowReader, ReleaseReader, ReleaseWriter, DestroyInstance,
     Crash, CollectOpen, PublishFlow, OpenData, LockData, OpenRings, RefuseOpen, Refusable, Register, UpgradeLock,
     DeleteFlow, UnlinkPart, RemoveDirectory, EraseWriter, CollectProbe, CollectClose, CollectDelete, CollectPart,
     CollectDirectory, disk, PathAfterRmdir
<1>5. CASE open[i]["writer"].lock = "shared" /\ ~UpgradeLock(i)
  <2>1. writers[i] > 0 \/ pc[i] = "upgrade"
    BY <1>1, <1>5 DEF WriterLock
  <2>2. writers'[i] > 0 \/ pc'[i] = "upgrade"
    BY <1>1, <1>3, <1>5, <2>1 DEF WriterLock, Step, CallStep, CollectStep, CreateFlowWriter, GetFlowReader,
       ReleaseReader, ReleaseWriter, DestroyInstance, CollectOpen, PublishFlow, OpenData, LockData, OpenRings,
       RefuseOpen, Refusable, Register, DeleteFlow, UnlinkPart, RemoveDirectory, EraseWriter, CollectProbe,
       CollectClose, CollectDelete, CollectPart, CollectDirectory, refs, Goto, Fail
  <2>3. open'[i]["writer"].lock = "shared"
    BY <1>2, <2>2 DEF WriterLock
  <2> QED
    BY <2>3 DEF Responsible
<1>6. CASE UpgradeLock(i)
  <2> DEFINE f == open[i]["writer"].data
  <2>1. CASE OthersLocking(i, "writer", f) = {}
    <3>1. pc'[i] = "delete"
      BY <1>1, <1>6, <2>1 DEF UpgradeLock, LockAfterUpgrade, Goto
    <3> QED
      BY <3>1 DEF Responsible
  <2>2. CASE OthersLocking(i, "writer", f) # {}
    <3>1. PICK o \in Instances \X Handles : o # <<i, "writer">> /\ open[o[1]][o[2]].data = f /\ open[o[1]][o[2]].lock # "none"
      BY <2>2 DEF OthersLocking
    <3>2. open[i]["writer"].lock = "shared"
      BY <1>1, <1>6 DEF UpgradeLock, WriterLock
    <3> DEFINE p == <<i, "writer">>
    <3>3. p \in Instances \X Handles /\ p[1] = i /\ p[2] = "writer" /\ o # p /\ o = <<o[1], o[2]>>
          /\ o[1] \in Instances /\ o[2] \in Handles
      BY <1>1, <3>1
    <3>4. open[o[1]][o[2]].lock = "shared"
      BY <1>1, <3>1, <3>2, <3>3 DEF LocksAgree
    <3>5. o[2] \in {"writer", "opening"}
      BY <1>1, <3>3, <3>4 DEF LockInv, LockState, OtherLocks
    <3>6. open'[o[1]][o[2]] = open[o[1]][o[2]]
      <4>1. CASE o[1] # i
        BY <3>3, <4>1, OthersUntouched
      <4>2. CASE o[1] = i
        <5>1. o[2] # "writer"
          BY <3>1, <3>3, <4>2
        <5>2. \E l \in {"exclusive", "none"} : open' = [open EXCEPT ![i]["writer"].lock = l]
          BY <1>6 DEF UpgradeLock, LockAfterUpgrade, FailedUpgrade
        <5> QED
          BY <1>1, <3>3, <4>2, <5>1, <5>2, LockIs
      <4> QED
        BY <4>1, <4>2
    <3>7. Responsible(o[1])'
      BY <3>4, <3>5, <3>6 DEF Responsible
    <3> QED
      BY <3>3, <3>7
  <2> QED
    BY <2>1, <2>2
<1>7. CASE open[i]["opening"].lock = "shared"
  <2>1. pc[i] \in {"rings", "register"} /\ mode[i] = "write"
    BY <1>1, <1>7 DEF OpeningLock
  <2>2. CASE OpenRings(i)
    <3>1. CASE path # 0 /\ "rings" \in parts[path]
      <4>1. pc'[i] = "register" /\ mode'[i] = "write"
        BY <1>1, <2>1, <2>2, <3>1 DEF OpenRings, Goto
      <4>2. open'[i]["opening"].lock = "shared"
        BY <1>2, <4>1 DEF OpeningLock
      <4> QED
        BY <4>2 DEF Responsible
    <3>2. CASE "rings" \notin parts[path]
      <4>1. PICK k \in Instances : Unlinking(k)
        BY <1>3, <3>2 DEF PartlyRemoved, Parts
      <4>2. ~PublishFlow(i)
        BY <2>1 DEF PublishFlow
      <4>3. Unlinking(k)'
        BY <4>1, <4>2, UnlinkingStays
      <4> QED
        BY <4>3 DEF Responsible
    <3> QED
      BY <3>1, <3>2
  <2>3. CASE Register(i)
    <3>1. writers'[i] = writers[i] + 1
      BY <1>1, <2>1, <2>3 DEF Register
    <3>2. open'[i]["writer"].lock = "shared"
      BY <1>1, <1>2, <3>1 DEF WriterLock
    <3> QED
      BY <3>2 DEF Responsible
  <2>4. CASE RefuseOpen(i)
    <3>1. CASE OthersSharing(i) = {}
      BY <2>1, <2>4, <3>1 DEF RefuseOpen
    <3>2. CASE OthersSharing(i) # {}
      <4>1. PICK o \in Instances \X Handles : o # <<i, "opening">> /\ open[o[1]][o[2]].lock = "shared"
        BY <3>2 DEF OthersSharing
      <4>2. o = <<o[1], o[2]>> /\ o[1] \in Instances /\ o[2] \in Handles
        BY <4>1
      <4>3. o[2] \in {"writer", "opening"}
        BY <1>1, <4>1, <4>2 DEF LockInv, LockState, OtherLocks
      <4>4. open'[o[1]][o[2]] = open[o[1]][o[2]]
        <5>1. CASE o[1] # i
          BY <4>2, <5>1, OthersUntouched
        <5>2. CASE o[1] = i
          <6>1. o[2] # "opening"
            BY <4>1, <4>2, <5>2
          <6>2. Open(i, "opening", NoHandle)
            BY <2>4 DEF RefuseOpen, Fail
          <6> QED
            BY <1>1, <4>2, <5>2, <6>1, <6>2, OpenIs
        <5> QED
          BY <5>1, <5>2
      <4>5. Responsible(o[1])'
        BY <4>1, <4>3, <4>4 DEF Responsible
      <4> QED
        BY <4>2, <4>5
    <3> QED
      BY <3>1, <3>2
  <2>5. CASE ~OpenRings(i) /\ ~RefuseOpen(i) /\ ~Register(i)
    <3>1. pc'[i] = pc[i] /\ mode'[i] = mode[i]
      BY <1>1, <1>3, <2>1, <2>5 DEF Step, CallStep, CollectStep, CreateFlowWriter, GetFlowReader, ReleaseReader,
         ReleaseWriter, DestroyInstance, CollectOpen, PublishFlow, OpenData, LockData, UpgradeLock,
         DeleteFlow, UnlinkPart, RemoveDirectory, EraseWriter, CollectProbe, CollectClose, CollectDelete, CollectPart,
         CollectDirectory
    <3>2. open'[i]["opening"].lock = "shared"
      BY <1>2, <2>1, <3>1 DEF OpeningLock
    <3> QED
      BY <3>2 DEF Responsible
  <2> QED
    BY <2>2, <2>3, <2>4, <2>5
<1>8. CASE pc[i] = "delete"
  <2>1. CASE DeleteFlow(i)
    <3>1. pc'[i] = "unlink" /\ doomed'[i]["release"] = path
      BY <1>1, <2>1 DEF DeleteFlow, Goto
    <3> QED
      BY <1>4, <3>1 DEF Responsible, Unlinking
  <2>2. CASE ~DeleteFlow(i)
    <3>1. pc'[i] = pc[i]
      BY <1>3, <1>8, <2>2 DEF Step, CallStep, CollectStep, CreateFlowWriter, GetFlowReader, ReleaseReader,
         ReleaseWriter, DestroyInstance, CollectOpen, PublishFlow, OpenData, LockData, OpenRings, RefuseOpen,
         Refusable, Register, UpgradeLock, UnlinkPart, RemoveDirectory, EraseWriter, CollectProbe, CollectClose,
         CollectDelete, CollectPart, CollectDirectory
    <3> QED
      BY <1>8, <3>1 DEF Responsible
  <2> QED
    BY <2>1, <2>2
<1>9. CASE gcpc[i] \in {"close", "delete"}
  <2>1. CASE CollectClose(i)
    <3>1. gcpc'[i] = "delete"
      BY <1>1, <2>1 DEF CollectClose, GcGoto
    <3> QED
      BY <3>1 DEF Responsible
  <2>2. CASE CollectDelete(i)
    <3>1. gcpc'[i] = "unlink" /\ doomed'[i]["collect"] = path
      BY <1>1, <2>2 DEF CollectDelete, GcGoto
    <3> QED
      BY <1>4, <3>1 DEF Responsible, Unlinking
  <2>3. CASE ~CollectClose(i) /\ ~CollectDelete(i)
    <3>1. gcpc'[i] = gcpc[i]
      BY <1>3, <1>9, <2>3 DEF Step, CallStep, CollectStep, CreateFlowWriter, GetFlowReader, ReleaseReader,
         ReleaseWriter, DestroyInstance, CollectOpen, PublishFlow, OpenData, LockData, OpenRings, RefuseOpen,
         Refusable, Register, UpgradeLock, DeleteFlow, UnlinkPart, RemoveDirectory, EraseWriter, CollectProbe,
         CollectPart, CollectDirectory
    <3> QED
      BY <1>9, <3>1 DEF Responsible
  <2> QED
    BY <2>1, <2>2, <2>3
<1>10. CASE Unlinking(i)
  <2>1. CASE PublishFlow(i)
    <3>1. UNCHANGED <<gcpc, doomed>> /\ pc[i] = "publish"
      BY <2>1 DEF PublishFlow
    <3> QED
      BY <1>4, <1>10, <3>1 DEF Responsible, Unlinking
  <2>2. CASE ~PublishFlow(i)
    BY <1>10, <2>2, UnlinkingStays DEF Responsible
  <2> QED
    BY <2>1, <2>2
<1> QED
  BY <1>5, <1>6, <1>7, <1>8, <1>9, <1>10 DEF Responsible

LEMMA SomeoneIsStep ==
  ASSUME TypeInv, LockInv, PartlyRemoved, SomeoneIs, NEW i \in Instances, Step(i)
  PROVE  SomeoneIs'
<1> SUFFICES ASSUME crashes' = 0, path' # 0
             PROVE  deserted' \/ \E k \in Instances : Responsible(k)'
  BY DEF SomeoneIs
<1>1. crashes = 0
  BY Bounds DEF TypeInv, CallsTyped, Step, CallStep, CollectStep, CreateFlowWriter, GetFlowReader, ReleaseReader,
     ReleaseWriter, DestroyInstance, Crash, CollectOpen, PublishFlow, OpenData, LockData, OpenRings, RefuseOpen,
     Refusable, Register, UpgradeLock, DeleteFlow, UnlinkPart, RemoveDirectory, EraseWriter, CollectProbe,
     CollectClose, CollectDelete, CollectPart, CollectDirectory
<1>2. CASE path = 0
  <2>1. PublishFlow(i)
    BY <1>2 DEF Step, CallStep, CollectStep, CreateFlowWriter, GetFlowReader, ReleaseReader, ReleaseWriter,
       DestroyInstance, Crash, CollectOpen, OpenData, LockData, OpenRings, RefuseOpen, Refusable, Register,
       UpgradeLock, DeleteFlow, UnlinkPart, RemoveDirectory, EraseWriter, CollectProbe, CollectClose, CollectDelete,
       CollectPart, CollectDirectory, disk, PathAfterRmdir
  <2>2. Open(i, "opening", [data |-> made + 1, rings |-> made + 1, lock |-> "shared"])
    BY <1>2, <2>1 DEF PublishFlow
  <2>3. open'[i]["opening"].lock = "shared"
    BY <2>2, OpenIs DEF TypeInv, Handles
  <2> QED
    BY <2>3 DEF Responsible
<1>3. CASE path # 0 /\ deserted
  <2>1. CASE deserted'
    BY <2>1
  <2>2. CASE ~deserted'
    <3>1. /\ LockData(i) /\ Open(i, "opening", [data |-> open[i]["opening"].data, rings |-> 0, lock |-> "shared"])
      BY <1>3, <2>2 DEF Step, CallStep, CollectStep, CreateFlowWriter, GetFlowReader, ReleaseReader, ReleaseWriter,
         DestroyInstance, Crash, CollectOpen, PublishFlow, OpenData, LockData, OpenRings, RefuseOpen, Register,
         UpgradeLock, DeleteFlow, UnlinkPart, RemoveDirectory, EraseWriter, CollectProbe, CollectClose, CollectDelete,
         CollectPart, CollectDirectory
    <3>2. open'[i]["opening"].lock = "shared"
      BY <3>1, OpenIs DEF TypeInv, Handles
    <3> QED
      BY <3>2 DEF Responsible
  <2> QED
    BY <2>1, <2>2
<1>4. CASE path # 0 /\ ~deserted
  <2>1. PICK k \in Instances : Responsible(k)
    BY <1>1, <1>4 DEF SomeoneIs
  <2>2. CASE k = i
    BY <1>4, <2>1, <2>2, ResponsibleStep
  <2>3. CASE k # i
    <3>1. open'[k] = open[k] /\ pc'[k] = pc[k] /\ gcpc'[k] = gcpc[k] /\ doomed'[k] = doomed[k]
      BY <2>3, OthersUntouched
    <3>2. path' = path
      BY <1>4 DEF Step, CallStep, CollectStep, CreateFlowWriter, GetFlowReader, ReleaseReader, ReleaseWriter,
         DestroyInstance, Crash, CollectOpen, PublishFlow, OpenData, LockData, OpenRings, RefuseOpen, Refusable,
         Register, UpgradeLock, DeleteFlow, UnlinkPart, RemoveDirectory, EraseWriter, CollectProbe, CollectClose,
         CollectDelete, CollectPart, CollectDirectory, disk, PathAfterRmdir
    <3>3. Responsible(k)'
      BY <2>1, <3>1, <3>2 DEF Responsible, Unlinking
    <3> QED
      BY <3>3
  <2> QED
    BY <2>2, <2>3
<1> QED
  BY <1>2, <1>3, <1>4

(* As long as no process dies, a flow whose writers were all released is   *)
(* gone once calls have come to their end: of those that lock its data     *)
(* file one finds itself to be the last, however their releases, openings  *)
(* that fail and garbage collections interleave.  Only a call that was     *)
(* refused while it held the last lock leaves the flow behind.             *)
THEOREM ReleasedFlowsGo == Spec => []ReleasedFlowIsGone
<1> DEFINE Inv == TypeInv /\ LockInv /\ PartlyRemoved /\ SomeoneIs
<1>1. Init => Inv
  BY TypeInvInit, LockInvInit DEF Init, PartlyRemoved, SomeoneIs
<1>2. Inv /\ [Next]_vars => Inv'
  <2> SUFFICES ASSUME Inv, [Next]_vars PROVE Inv'
    OBVIOUS
  <2>1. TypeInv'
    BY TypeInvNext
  <2>2. ASSUME NEW i \in Instances, Step(i) PROVE LockInv' /\ PartlyRemoved' /\ SomeoneIs'
    BY <2>2, LockInvStep, PartlyRemovedStep, SomeoneIsStep
  <2>3. CASE UNCHANGED vars
    <3>1. UNCHANGED <<path, parts, made, open, writers, pc, mode, gcpc, doomed, deserted, crashes>>
      BY <2>3 DEF vars, disk, refs
    <3>2. LockInv'
      BY <3>1 DEF LockInv, Published, LocksAgree, LockState, WriterLock, OpeningLock, OtherLocks
    <3>3. PartlyRemoved' /\ SomeoneIs'
      BY <3>1 DEF PartlyRemoved, SomeoneIs, Responsible, Unlinking
    <3> QED
      BY <2>1, <3>2, <3>3
  <2> QED
    BY <2>1, <2>2, <2>3 DEF Next, Step
<1>3. Inv => ReleasedFlowIsGone
  <2> SUFFICES ASSUME Inv, Calm, crashes = 0, \A i \in Instances : writers[i] = 0, path # 0, ~deserted PROVE FALSE
    BY DEF ReleasedFlowIsGone
  <2>1. PICK i \in Instances : Responsible(i)
    BY DEF SomeoneIs
  <2>2. pc[i] = "idle" /\ gcpc[i] = "idle" /\ writers[i] = 0 /\ WriterLock(i) /\ OpeningLock(i)
    BY DEF Calm, LockInv, LockState
  <2> QED
    BY <2>1, <2>2 DEF Responsible, Unlinking, WriterLock, OpeningLock
<1> QED
  BY <1>1, <1>2, <1>3, PTL DEF Spec

=============================================================================
