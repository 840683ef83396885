------------------------ MODULE DiscreteFlow_proofs ------------------------
(* What TLAPS proves about discrete flows, for rings, gaps and crashes of  *)
(* any number and size.                                                    *)
EXTENDS DiscreteFlow, TLAPS

LEMMA CommitOrderInit == Init => CommitOrder
  BY DEF Init, CommitOrder, HeadCoversCompleted, UNDEFINED

(* Readers and the removal of the flow leave the commit order alone.       *)
LEMMA CommitOrderFrame ==
  ASSUME CommitOrder, UNCHANGED <<head, cur, last, opening, wpc, pending>>
  PROVE  CommitOrder'
  BY DEF CommitOrder, HeadCoversCompleted

LEMMA CommitOrderWriter ==
  ASSUME CommitOrder, WriterNext
  PROVE  CommitOrder'
  <1> USE DEF CommitOrder, HeadCoversCompleted, UNDEFINED
  <1>1. CASE AttachWriter
    BY <1>1 DEF AttachWriter, shared
  <1>2. CASE CancelGrain \/ WriteSlice
    BY <1>2 DEF CancelGrain, WriteSlice, shared
  <1>3. CASE ReleaseWriter \/ WriterCrash
    BY <1>3 DEF ReleaseWriter, WriterCrash, Detach, shared
  <1>4. ASSUME NEW i \in 0..MaxIndex, OpenGrain(i)
        PROVE  CommitOrder'
    <2>1. MaxIndex \in Nat
      BY DiscreteAssumption
    <2> QED BY <1>4, <2>1 DEF OpenGrain, OpenAccepted, shared
  <1>5. ASSUME NEW b \in BOOLEAN, CommitGrain(b)
        PROVE  CommitOrder'
    <2>1. <<"head", SlotOf(cur)>> \in pending' /\ cur # UNDEFINED /\ wpc' = "commit"
          /\ UNCHANGED <<head, cur, last, opening>>
      BY <1>5 DEF CommitGrain, CommitAccepted, shared
    <2> QED BY <2>1
  <1>6. CASE StoreHeader
    <2>1. PICK f \in Fields, s \in Slots : pending' = pending \ {<<f, s>>}
      BY <1>6 DEF StoreHeader
    <2>2. f # "head"
      BY DEF Fields
    <2>3. <<"head", SlotOf(cur)>> \in pending => <<"head", SlotOf(cur)>> \in pending'
      BY <2>1, <2>2
    <2>4. UNCHANGED <<head, cur, last, opening, wpc>>
      BY <1>6 DEF StoreHeader
    <2> QED BY <2>3, <2>4
  <1>7. CASE GapMarked \/ GrainOpened
    BY <1>7 DEF GapMarked, GrainOpened, shared
  <1>8. CASE StoreHead
    BY <1>8 DEF StoreHead
  <1>9. CASE BumpSync
    <2>1. /\ wpc = "commit" /\ pending = {} /\ wpc' = "wake" /\ UNCHANGED <<head, opening>>
          /\ \/ last' = cur /\ cur' = UNDEFINED
             \/ last' = last /\ cur' = cur
      BY <1>9 DEF BumpSync, LastCommitted
    <2> QED BY <2>1
  <1>10. CASE WakeAll
    BY <1>10 DEF WakeAll, shared
  <1> QED BY <1>1, <1>2, <1>3, <1>4, <1>5, <1>6, <1>7, <1>8, <1>9, <1>10 DEF WriterNext, InCall

(* However the producer opens, cancels, jumps and goes back, and however   *)
(* the stores of its calls and its crashes fall: the head never lies       *)
(* behind a grain the writer has completed.                                *)
THEOREM HeadNeverBehindCompleted == Spec => []HeadCoversCompleted
  <1>1. CommitOrder /\ [Next]_vars => CommitOrder'
    <2> SUFFICES ASSUME CommitOrder, [Next]_vars PROVE CommitOrder'
      OBVIOUS
    <2>1. CASE RemoveFlow \/ UNCHANGED vars
      BY <2>1, CommitOrderFrame DEF RemoveFlow, vars, shared, writer
    <2>2. ASSUME NEW r \in Readers, ReaderNext(r) PROVE CommitOrder'
      <3>1. UNCHANGED <<head, cur, last, opening, wpc, pending>>
        BY <2>2 DEF ReaderNext, ReaderStep, LoadSync, LoadHead, LoadSlices, LoadFlags, CopyField, Wait,
           Deadline, Interrupted, GetGrain, shared, writer
      <3> QED BY <3>1, CommitOrderFrame
    <2> QED BY <2>1, <2>2, CommitOrderWriter DEF Next
  <1>2. CommitOrder => HeadCoversCompleted
    BY DEF CommitOrder
  <1> QED BY <1>1, <1>2, CommitOrderInit, PTL DEF Spec

-----------------------------------------------------------------------------
(* Type correctness.                                                       *)

(* The types alone are not inductive: a store to a header is of the grain  *)
(* being opened, of one that is marked as missing, or of the one being     *)
(* committed, and a commit under way is one of those that are counted.     *)
StoresTyped ==
    /\ wpc \in {"gap", "reset"} => opening \in 0..MaxIndex
    /\ wpc = "gap" => \A p \in pending : \E m \in Missing(opening) : p[2] = SlotOf(m)
    /\ wpc = "commit" => cur \in 0..MaxIndex /\ sync < MaxCommits

(* What writers and readers change, each apart from the other.             *)
MemoryTyped ==
    /\ head \in 0..MaxIndex /\ sync \in 0..MaxCommits
    /\ hdr \in [Slots -> GrainInfo]
    /\ body \in [Slots -> [1..TotalSlices -> UNDEFINED..MaxIndex]]

WriterTyped ==
    /\ wpc \in {"down", "idle", "gap", "reset", "commit", "wake"}
    /\ pending \subseteq (Fields \cup {"head"}) \X Slots
    /\ {opening, cur, last, base} \subseteq UNDEFINED..MaxIndex
    /\ info \in GrainInfo /\ releases \in 0..MaxReleases /\ crashes \in 0..MaxCrashes
    /\ done \subseteq 0..MaxIndex

ReadersTyped ==
    /\ rpc \in [Readers -> {"idle", "sync", "head", "slices", "flags", "copy", "early", "asleep"}]
    /\ want \in [Readers -> 0..MaxIndex]
    /\ need \in [Readers -> MinSlices \cup {0}]
    /\ prev \in [Readers -> 0..MaxCommits]
    /\ seen \in [Readers -> 0..MaxIndex]
    /\ got \in [Readers -> GrainInfo]
    /\ rtodo \in [Readers -> SUBSET Fields]
    /\ status \in [Readers -> {"none", "OK", "TOO_LATE", "TOO_EARLY", "FLOW_INVALID"}]

TypeInv == MemoryTyped /\ WriterTyped /\ ReadersTyped /\ StoresTyped /\ valid \in BOOLEAN

LEMMA TypeInvImpliesTypeOK == TypeInv => TypeOK
  BY DEF TypeInv, MemoryTyped, WriterTyped, ReadersTyped, TypeOK

(* Every index has a slot.                                                 *)
LEMMA SlotTyped == \A i \in Nat : SlotOf(i) \in Slots
  BY DiscreteAssumption DEF SlotOf, Slots

(* The grains marked as missing are real ones, before the one opened.      *)
LEMMA MissingTyped ==
  ASSUME last \in UNDEFINED..MaxIndex, NEW i \in 0..MaxIndex
  PROVE  Missing(i) \subseteq 0..MaxIndex
<1>1. CASE last # UNDEFINED /\ i > last + 1
  <2>1. InvalidatedCount(i) \in Nat /\ InvalidatedCount(i) <= i - last - 1
    BY <1>1, DiscreteAssumption DEF InvalidatedCount, MinOf, UNDEFINED
  <2> QED
    BY <1>1, <2>1, DiscreteAssumption DEF Missing, UNDEFINED
<1> QED
  BY <1>1 DEF Missing

LEMMA MissingHeaderTyped ==
  ASSUME last \in UNDEFINED..MaxIndex, NEW i \in 0..MaxIndex, NEW m \in Missing(i)
  PROVE  MissingHeader(i, SlotOf(m)) \in GrainInfo
<1> DEFINE n == CHOOSE k \in Missing(i) : SlotOf(k) = SlotOf(m)
<1>1. n \in Missing(i)
  OBVIOUS
<1>2. n \in 0..MaxIndex
  BY <1>1, MissingTyped
<1>3. MissingHeader(i, SlotOf(m)) = [index |-> n, invalid |-> TRUE, slices |-> 0]
  BY DEF MissingHeader
<1>4. 0 \in 0..TotalSlices
  BY DiscreteAssumption
<1> HIDE DEF n
<1> QED
  BY <1>2, <1>3, <1>4 DEF GrainInfo

LEMMA StoresAreTyped ==
  ASSUME NEW s \in Slots, NEW h
  PROVE  Stores(s, h) \subseteq (Fields \cup {"head"}) \X Slots /\ \A p \in Stores(s, h) : p[2] = s
  BY DEF Stores

LEMMA TypeInvInit == Init => TypeInv
<1> SUFFICES ASSUME Init PROVE TypeInv
  OBVIOUS
<1>1. NewGrain \in GrainInfo
  BY DiscreteAssumption DEF NewGrain, GrainInfo
<1>2. MaxIndex \in Nat /\ MaxCommits \in Nat /\ MaxReleases \in Nat /\ MaxCrashes \in Nat
  BY DiscreteAssumption
<1>3. MemoryTyped
  BY <1>1, <1>2 DEF Init, MemoryTyped, UNDEFINED
<1>4. WriterTyped
  BY <1>1, <1>2 DEF Init, WriterTyped, UNDEFINED
<1>5. ReadersTyped
  BY <1>1, <1>2 DEF Init, ReadersTyped
<1>6. StoresTyped /\ valid \in BOOLEAN
  BY DEF Init, StoresTyped
<1> QED
  BY <1>3, <1>4, <1>5, <1>6 DEF TypeInv

-----------------------------------------------------------------------------
(* The steps of a writer.                                                  *)

LEMMA OpenTyped ==
  ASSUME TypeInv, NEW i \in 0..MaxIndex, OpenGrain(i)
  PROVE  TypeInv'
<1>1. UNCHANGED <<shared, cur, last, info, releases, crashes, readers, history>>
      /\ opening' = i /\ wpc' = "gap" /\ Missing(i)' = Missing(i)
  BY DEF OpenGrain, Missing, InvalidatedCount
<1>2. last \in UNDEFINED..MaxIndex
  BY DEF TypeInv, WriterTyped
<1>3. ASSUME NEW p \in pending'
      PROVE  p \in (Fields \cup {"head"}) \X Slots /\ \E m \in Missing(i) : p[2] = SlotOf(m)
  <2>1. PICK m \in Missing(i) : p \in Stores(SlotOf(m), MissingHeader(i, SlotOf(m)))
    BY <1>3 DEF OpenGrain
  <2>2. SlotOf(m) \in Slots
    BY <1>2, MissingTyped, SlotTyped
  <2> QED
    BY <2>1, <2>2, StoresAreTyped
<1>4. MemoryTyped' /\ ReadersTyped' /\ (valid \in BOOLEAN)'
  BY <1>1 DEF TypeInv, MemoryTyped, ReadersTyped, shared, readers
<1>5. WriterTyped'
  BY <1>1, <1>3, DiscreteAssumption DEF TypeInv, WriterTyped, history, UNDEFINED
<1>6. StoresTyped'
  BY <1>1, <1>3 DEF StoresTyped
<1> QED
  BY <1>4, <1>5, <1>6 DEF TypeInv

LEMMA StoreHeaderTyped ==
  ASSUME TypeInv, StoreHeader
  PROVE  TypeInv'
<1>1. PICK f \in Fields, s \in Slots :
        /\ wpc \in {"gap", "reset", "commit"}
        /\ <<f, s>> \in pending
        /\ hdr' = [hdr EXCEPT ![s] = [@ EXCEPT ![f] = NewHeader(s)[f]]]
        /\ pending' = pending \ {<<f, s>>}
  BY DEF StoreHeader
<1>2. UNCHANGED <<head, body, sync, valid, wpc, opening, cur, last, info, releases, crashes, readers, history>>
  BY DEF StoreHeader
<1>3. NewHeader(s) \in GrainInfo
  <2>1. CASE wpc = "gap"
    <3>1. PICK m \in Missing(opening) : s = SlotOf(m)
      BY <1>1, <2>1 DEF TypeInv, StoresTyped
    <3>2. MissingHeader(opening, s) \in GrainInfo
      BY <2>1, <3>1, MissingHeaderTyped DEF TypeInv, StoresTyped, WriterTyped
    <3> QED
      BY <2>1, <3>2 DEF NewHeader
  <2>2. CASE wpc = "reset"
    <3>1. opening \in 0..MaxIndex /\ 0 \in 0..TotalSlices
      BY <2>2, DiscreteAssumption DEF TypeInv, StoresTyped
    <3> QED
      BY <2>2, <3>1 DEF NewHeader, GrainInfo
  <2>3. CASE wpc = "commit"
    BY <2>3 DEF NewHeader, TypeInv, WriterTyped
  <2> QED
    BY <1>1, <2>1, <2>2, <2>3
<1>4. hdr' \in [Slots -> GrainInfo]
  <2>1. hdr[s] \in GrainInfo
    BY DEF TypeInv, MemoryTyped
  <2>2. [hdr[s] EXCEPT ![f] = NewHeader(s)[f]] \in GrainInfo
    BY <1>3, <2>1 DEF GrainInfo, Fields
  <2> QED
    BY <1>1, <2>2 DEF TypeInv, MemoryTyped
<1>5. MemoryTyped' /\ ReadersTyped' /\ (valid \in BOOLEAN)'
  BY <1>2, <1>4 DEF TypeInv, MemoryTyped, ReadersTyped, readers
<1>6. WriterTyped'
  BY <1>1, <1>2 DEF TypeInv, WriterTyped, history
<1>7. StoresTyped'
  <2>1. Missing(opening)' = Missing(opening)
    BY <1>2 DEF Missing, InvalidatedCount
  <2> QED
    BY <1>1, <1>2, <2>1 DEF TypeInv, StoresTyped
<1> QED
  BY <1>5, <1>6, <1>7 DEF TypeInv

LEMMA CommitTyped ==
  ASSUME TypeInv, NEW flagged \in BOOLEAN, CommitGrain(flagged)
  PROVE  TypeInv'
<1>1. UNCHANGED <<shared, opening, cur, last, releases, crashes, readers, history>>
      /\ wpc' = "commit" /\ cur # UNDEFINED /\ sync < MaxCommits
  BY DEF CommitGrain, CommitAccepted
<1>2. info' \in GrainInfo
  BY DEF CommitGrain, TypeInv, WriterTyped, GrainInfo
<1>3. cur \in 0..MaxIndex /\ SlotOf(cur) \in Slots
  <2>1. cur \in 0..MaxIndex
    BY <1>1, DiscreteAssumption DEF TypeInv, WriterTyped, UNDEFINED
  <2> QED
    BY <2>1, SlotTyped
<1>4. pending' \subseteq (Fields \cup {"head"}) \X Slots
  BY <1>3, StoresAreTyped DEF CommitGrain
<1>5. MemoryTyped' /\ ReadersTyped' /\ (valid \in BOOLEAN)'
  BY <1>1 DEF TypeInv, MemoryTyped, ReadersTyped, shared, readers
<1>6. WriterTyped'
  BY <1>1, <1>2, <1>4 DEF TypeInv, WriterTyped, history
<1>7. StoresTyped'
  BY <1>1, <1>3 DEF StoresTyped, shared
<1> QED
  BY <1>5, <1>6, <1>7 DEF TypeInv

LEMMA ResetTyped ==
  ASSUME TypeInv, GapMarked \/ GrainOpened
  PROVE  TypeInv'
<1>1. opening \in 0..MaxIndex
  BY DEF TypeInv, StoresTyped, GapMarked, GrainOpened
<1>2. SlotOf(opening) \in Slots
  BY <1>1, SlotTyped
<1>3. UNCHANGED <<shared, last, releases, crashes, readers, history>>
  BY DEF GapMarked, GrainOpened
<1>4. MemoryTyped' /\ ReadersTyped' /\ (valid \in BOOLEAN)'
  BY <1>3 DEF TypeInv, MemoryTyped, ReadersTyped, shared, readers
<1>5. CASE GapMarked
  <2>1. pending' \subseteq (Fields \cup {"head"}) \X Slots
    BY <1>2, <1>5, StoresAreTyped DEF GapMarked, ResetStores
  <2>2. WriterTyped'
    BY <1>5, <2>1 DEF GapMarked, TypeInv, WriterTyped, history
  <2>3. StoresTyped'
    BY <1>1, <1>5 DEF GapMarked, StoresTyped
  <2> QED
    BY <1>4, <2>2, <2>3 DEF TypeInv
<1>6. CASE GrainOpened
  <2>1. info' \in GrainInfo /\ cur' \in UNDEFINED..MaxIndex /\ opening' \in UNDEFINED..MaxIndex
    BY <1>1, <1>2, <1>6, DiscreteAssumption DEF GrainOpened, TypeInv, MemoryTyped, UNDEFINED
  <2>2. WriterTyped'
    BY <1>6, <2>1 DEF GrainOpened, TypeInv, WriterTyped, history
  <2>3. StoresTyped'
    BY <1>6 DEF GrainOpened, StoresTyped
  <2> QED
    BY <1>4, <2>2, <2>3 DEF TypeInv
<1> QED
  BY <1>5, <1>6

LEMMA WriteSliceTyped ==
  ASSUME TypeInv, WriteSlice
  PROVE  TypeInv'
<1>1. UNCHANGED <<head, hdr, sync, valid, wpc, pending, opening, cur, last, releases, crashes, readers, history>>
      /\ wpc = "idle"
  BY DEF WriteSlice
<1>2. cur \in 0..MaxIndex /\ info.slices \in 0..TotalSlices /\ info.slices < TotalSlices /\ info \in GrainInfo
  BY DiscreteAssumption DEF WriteSlice, TypeInv, WriterTyped, UNDEFINED, GrainInfo
<1>3. SlotOf(cur) \in Slots /\ info.slices + 1 \in 1..TotalSlices /\ info.slices + 1 \in 0..TotalSlices
  BY <1>2, SlotTyped, DiscreteAssumption
<1>4. info' \in GrainInfo
  BY <1>2, <1>3 DEF WriteSlice, GrainInfo
<1>5. body' \in [Slots -> [1..TotalSlices -> UNDEFINED..MaxIndex]]
  <2>1. cur \in UNDEFINED..MaxIndex /\ body[SlotOf(cur)] \in [1..TotalSlices -> UNDEFINED..MaxIndex]
    BY <1>3 DEF TypeInv, MemoryTyped, WriterTyped
  <2>2. [body[SlotOf(cur)] EXCEPT ![info.slices + 1] = cur] \in [1..TotalSlices -> UNDEFINED..MaxIndex]
    BY <2>1
  <2>3. body' = [body EXCEPT ![SlotOf(cur)] = [body[SlotOf(cur)] EXCEPT ![info.slices + 1] = cur]]
    BY <1>3 DEF WriteSlice, TypeInv, MemoryTyped
  <2> QED
    BY <2>2, <2>3 DEF TypeInv, MemoryTyped
<1>6. MemoryTyped' /\ ReadersTyped' /\ (valid \in BOOLEAN)'
  BY <1>1, <1>5 DEF TypeInv, MemoryTyped, ReadersTyped, readers
<1>7. WriterTyped' /\ StoresTyped'
  BY <1>1, <1>4 DEF TypeInv, WriterTyped, StoresTyped, history
<1> QED
  BY <1>6, <1>7 DEF TypeInv

LEMMA BumpTyped ==
  ASSUME TypeInv, BumpSync
  PROVE  TypeInv'
<1>1. /\ UNCHANGED <<head, hdr, body, valid, pending, opening, releases, crashes, readers>>
      /\ wpc' = "wake" /\ sync' = sync + 1
      /\ cur \in 0..MaxIndex /\ sync < MaxCommits
      /\ MaxCommits \in Nat /\ MaxIndex \in Nat
  BY DiscreteAssumption DEF BumpSync, TypeInv, StoresTyped
<1>2. sync' \in 0..MaxCommits
  BY <1>1 DEF TypeInv, MemoryTyped
<1>3. MemoryTyped' /\ ReadersTyped' /\ (valid \in BOOLEAN)'
  BY <1>1, <1>2 DEF TypeInv, MemoryTyped, ReadersTyped, readers
<1>4. NewGrain \in GrainInfo /\ UNDEFINED \in UNDEFINED..MaxIndex /\ cur \in UNDEFINED..MaxIndex
  BY <1>1, DiscreteAssumption DEF NewGrain, GrainInfo, UNDEFINED
<1>5. info' \in GrainInfo /\ {cur', last', base'} \subseteq UNDEFINED..MaxIndex /\ done' \subseteq 0..MaxIndex
  BY <1>1, <1>4 DEF BumpSync, LastCommitted, TypeInv, WriterTyped
<1>6. WriterTyped'
  BY <1>1, <1>5 DEF TypeInv, WriterTyped
<1>7. StoresTyped'
  BY <1>1 DEF StoresTyped
<1> QED
  BY <1>3, <1>6, <1>7 DEF TypeInv

LEMMA WriterNextTyped ==
  ASSUME TypeInv, WriterNext
  PROVE  TypeInv'
<1>1. NewGrain \in GrainInfo /\ UNDEFINED \in UNDEFINED..MaxIndex
  BY DiscreteAssumption DEF NewGrain, GrainInfo, UNDEFINED
<1>2. CASE AttachWriter
  BY <1>1, <1>2 DEF AttachWriter, TypeInv, MemoryTyped, WriterTyped, ReadersTyped, StoresTyped, shared, readers, history
<1>3. CASE CancelGrain
  BY <1>1, <1>3 DEF CancelGrain, TypeInv, MemoryTyped, WriterTyped, ReadersTyped, StoresTyped, shared, readers, history
<1>4. CASE ReleaseWriter \/ WriterCrash
  <2>1. releases' \in 0..MaxReleases /\ crashes' \in 0..MaxCrashes
    BY <1>4, DiscreteAssumption DEF ReleaseWriter, WriterCrash, TypeInv, WriterTyped
  <2>2. /\ wpc' = "down" /\ pending' = {} /\ opening' = UNDEFINED /\ cur' = UNDEFINED /\ last' = UNDEFINED
        /\ info' = NewGrain /\ base' = UNDEFINED /\ UNCHANGED <<shared, readers, done>>
    BY <1>4 DEF ReleaseWriter, WriterCrash, Detach
  <2>3. MemoryTyped' /\ ReadersTyped' /\ (valid \in BOOLEAN)'
    BY <2>2 DEF TypeInv, MemoryTyped, ReadersTyped, shared, readers
  <2>4. WriterTyped' /\ StoresTyped'
    BY <1>1, <2>1, <2>2 DEF TypeInv, WriterTyped, StoresTyped
  <2> QED
    BY <2>3, <2>4 DEF TypeInv
<1>5. CASE StoreHead
  <2>1. /\ UNCHANGED <<hdr, body, sync, valid, wpc, opening, cur, last, info, releases, crashes, readers, history>>
        /\ head' \in 0..MaxIndex /\ pending' \subseteq pending /\ wpc = "commit"
    BY <1>5 DEF StoreHead, TypeInv, StoresTyped
  <2> QED
    BY <2>1 DEF TypeInv, MemoryTyped, WriterTyped, ReadersTyped, StoresTyped, readers, history
<1>6. CASE WakeAll
  <2>1. /\ UNCHANGED <<shared, pending, opening, cur, last, info, releases, crashes>>
        /\ UNCHANGED <<want, need, prev, seen, got, rtodo, status, history>>
        /\ wpc' = "idle" /\ rpc' = [r \in Readers |-> IF rpc[r] = "asleep" THEN "early" ELSE rpc[r]]
    BY <1>6 DEF WakeAll
  <2>2. MemoryTyped' /\ (valid \in BOOLEAN)' /\ WriterTyped' /\ StoresTyped'
    BY <2>1 DEF TypeInv, MemoryTyped, WriterTyped, StoresTyped, shared, history
  <2>3. ReadersTyped'
    BY <2>1 DEF TypeInv, ReadersTyped
  <2> QED
    BY <2>2, <2>3 DEF TypeInv
<1> QED
  BY <1>2, <1>3, <1>4, <1>5, <1>6, OpenTyped, StoreHeaderTyped, CommitTyped, ResetTyped, WriteSliceTyped, BumpTyped
  DEF WriterNext, InCall

-----------------------------------------------------------------------------
(* The steps of a reader, which change what is theirs.                     *)

LEMMA ReturnTyped ==
  ASSUME ReadersTyped, NEW r \in Readers, NEW result \in {"OK", "TOO_LATE", "TOO_EARLY", "FLOW_INVALID"},
         Return(r, result), 0 \in 0..MaxIndex, 0 \in 0..MaxCommits
  PROVE  /\ rpc' \in [Readers -> {"idle", "sync", "head", "slices", "flags", "copy", "early", "asleep"}]
         /\ want' \in [Readers -> 0..MaxIndex]
         /\ need' \in [Readers -> MinSlices \cup {0}]
         /\ prev' \in [Readers -> 0..MaxCommits]
         /\ status' \in [Readers -> {"none", "OK", "TOO_LATE", "TOO_EARLY", "FLOW_INVALID"}]
  BY DEF ReadersTyped, Return, Goto

LEMMA ReaderTyped ==
  ASSUME TypeInv, NEW r \in Readers, ReaderNext(r)
  PROVE  ReadersTyped'
<1>1. ReadersTyped /\ MemoryTyped /\ 0 \in 0..MaxIndex /\ 0 \in 0..MaxCommits /\ 0 \in 0..TotalSlices
  BY DiscreteAssumption DEF TypeInv
<1>2. ASSUME NEW i \in 0..MaxIndex, NEW k \in MinSlices, GetGrain(r, i, k)
      PROVE  ReadersTyped'
  <2>1. NewGrain \in GrainInfo
    BY <1>1 DEF NewGrain, GrainInfo
  <2> QED
    BY <1>1, <1>2, <2>1 DEF GetGrain, Goto, ReadersTyped
<1>3. CASE LoadSync(r)
  BY <1>1, <1>3 DEF LoadSync, Goto, ReadersTyped, MemoryTyped
<1>4. CASE LoadHead(r)
  <2>1. CASE Return(r, "TOO_LATE") /\ UNCHANGED <<seen, got, rtodo>>
    BY <1>1, <2>1, ReturnTyped DEF ReadersTyped
  <2>2. CASE /\ Goto(r, "early") \/ Goto(r, "slices")
             /\ seen' = seen \/ seen' = [seen EXCEPT ![r] = head]
             /\ UNCHANGED <<want, need, prev, got, rtodo, status>>
    BY <1>1, <2>2 DEF Goto, ReadersTyped, MemoryTyped
  <2> QED
    BY <1>4, <2>1, <2>2 DEF LoadHead
<1>5. CASE LoadSlices(r)
  <2>1. /\ Goto(r, "copy") \/ Goto(r, "flags")
        /\ rtodo' = rtodo \/ rtodo' = [rtodo EXCEPT ![r] = Fields]
        /\ UNCHANGED <<want, need, prev, seen, got, status>>
    BY <1>5 DEF LoadSlices
  <2> QED
    BY <1>1, <2>1 DEF Goto, ReadersTyped
<1>6. CASE LoadFlags(r)
  <2>1. /\ Goto(r, "copy") \/ Goto(r, "early")
        /\ rtodo' = rtodo \/ rtodo' = [rtodo EXCEPT ![r] = Fields]
        /\ seen' = seen \/ seen' = [seen EXCEPT ![r] = 0]
        /\ UNCHANGED <<want, need, prev, got, status>>
    BY <1>6 DEF LoadFlags
  <2> QED
    BY <1>1, <2>1 DEF Goto, ReadersTyped
<1>7. CASE CopyField(r)
  <2>1. PICK f \in rtodo[r] :
          /\ got' = [got EXCEPT ![r] = [@ EXCEPT ![f] = hdr[SlotOf(want[r])][f]]]
          /\ rtodo' = [rtodo EXCEPT ![r] = @ \ {f}]
          /\ Return(r, "OK") \/ UNCHANGED <<rpc, want, need, prev, status>>
          /\ UNCHANGED seen
    BY <1>7 DEF CopyField
  <2>2. f \in Fields /\ got[r] \in GrainInfo /\ hdr[SlotOf(want[r])] \in GrainInfo
    <3>1. SlotOf(want[r]) \in Slots
      BY <1>1, SlotTyped DEF ReadersTyped
    <3> QED
      BY <1>1, <2>1, <3>1 DEF ReadersTyped, MemoryTyped
  <2>3. [got[r] EXCEPT ![f] = hdr[SlotOf(want[r])][f]] \in GrainInfo
    BY <2>2 DEF GrainInfo, Fields
  <2>4. got' \in [Readers -> GrainInfo] /\ rtodo' \in [Readers -> SUBSET Fields]
    BY <1>1, <2>1, <2>3 DEF ReadersTyped
  <2> QED
    BY <1>1, <2>1, <2>4, ReturnTyped DEF ReadersTyped
<1>8. CASE Wait(r) \/ Interrupted(r)
  <2>1. /\ Goto(r, "sync") \/ Goto(r, "asleep") \/ Goto(r, "early")
        /\ UNCHANGED <<want, need, prev, seen, got, rtodo, status>>
    BY <1>8 DEF Wait, Interrupted
  <2> QED
    BY <1>1, <2>1 DEF Goto, ReadersTyped
<1>9. CASE Deadline(r)
  <2>1. (Return(r, "TOO_EARLY") \/ Return(r, "FLOW_INVALID")) /\ UNCHANGED <<seen, got, rtodo>>
    BY <1>9 DEF Deadline
  <2> QED
    BY <1>1, <2>1, ReturnTyped DEF ReadersTyped
<1> QED
  BY <1>2, <1>3, <1>4, <1>5, <1>6, <1>7, <1>8, <1>9 DEF ReaderNext, ReaderStep

LEMMA TypeInvNext ==
  ASSUME TypeInv, [Next]_vars
  PROVE  TypeInv'
<1>1. CASE RemoveFlow
  BY <1>1 DEF RemoveFlow, TypeInv, MemoryTyped, WriterTyped, ReadersTyped, StoresTyped, Missing, InvalidatedCount,
     writer, readers, history
<1>2. ASSUME NEW r \in Readers, ReaderNext(r) PROVE TypeInv'
  <2>1. UNCHANGED <<shared, writer, history>>
    BY <1>2 DEF ReaderNext, ReaderStep, LoadSync, LoadHead, LoadSlices, LoadFlags, CopyField, Wait,
       Deadline, Interrupted, GetGrain
  <2>2. MemoryTyped' /\ WriterTyped' /\ (valid \in BOOLEAN)'
    BY <2>1 DEF TypeInv, MemoryTyped, WriterTyped, shared, writer, history
  <2>3. StoresTyped'
    BY <2>1 DEF TypeInv, StoresTyped, Missing, InvalidatedCount, shared, writer
  <2> QED
    BY <1>2, <2>2, <2>3, ReaderTyped DEF TypeInv
<1>3. CASE UNCHANGED vars
  BY <1>3 DEF TypeInv, MemoryTyped, WriterTyped, ReadersTyped, StoresTyped, Missing, InvalidatedCount,
     vars, shared, writer, readers, history
<1> QED
  BY <1>1, <1>2, <1>3, WriterNextTyped DEF Next

(* Headers, payloads, counters and what readers hold keep their types,     *)
(* whatever the order of stores, and the counter its bound: no store of an *)
(* openGrain or a commit reaches beyond the grains it is about.            *)
THEOREM TypeCorrect == Spec => []TypeOK
  BY TypeInvInit, TypeInvNext, TypeInvImpliesTypeOK, PTL DEF Spec

-----------------------------------------------------------------------------
(* Slots and stores.                                                       *)

(* Grains less than a ring apart that share a slot are the same.           *)
LEMMA SameSlot ==
  ASSUME NEW a \in Nat, NEW b \in Nat, SlotOf(a) = SlotOf(b), a - b < GrainCount, b - a < GrainCount
  PROVE  a = b
<1> DEFINE N == GrainCount
           p == a \div N
           q == b \div N
           m == a % N
<1>1. N \in Nat /\ N >= 2
  BY DiscreteAssumption
<1> HIDE DEF N
<1>2. p \in Int /\ q \in Int /\ m \in Int /\ a = N * p + m /\ b = N * q + m
  BY <1>1 DEF SlotOf, N
<1> HIDE DEF p, q, m
<1>3. a - b = N * (p - q) /\ b - a = N * (q - p)
  BY <1>1, <1>2
<1>4. ~(p - q >= 1)
  <2> SUFFICES ASSUME p - q >= 1 PROVE FALSE
    OBVIOUS
  <2>1. N * (p - q) >= N
    BY <1>1, <1>2
  <2> QED
    BY <1>1, <1>2, <1>3, <2>1 DEF N
<1>5. ~(q - p >= 1)
  <2> SUFFICES ASSUME q - p >= 1 PROVE FALSE
    OBVIOUS
  <2>1. N * (q - p) >= N
    BY <1>1, <1>2
  <2> QED
    BY <1>1, <1>2, <1>3, <2>1 DEF N
<1>6. p = q
  BY <1>2, <1>4, <1>5
<1> QED
  BY <1>2, <1>6

(* The grains missing in front of i follow the last complete one, less     *)
(* than a ring and one away; those that have a slot are all there.         *)
LEMMA MissingRange ==
  ASSUME last \in UNDEFINED..MaxIndex, NEW i \in 0..MaxIndex
  PROVE  /\ \A m \in Missing(i) : /\ m \in Nat /\ last # UNDEFINED /\ last < m /\ m < i
                                  /\ m >= i - GrainCount
         /\ last # UNDEFINED => \A j \in Nat : last < j /\ j < i /\ j >= i - GrainCount => j \in Missing(i)
<1>1. last \in Int /\ i \in Nat /\ GrainCount \in Nat /\ UNDEFINED = -1 /\ MaxIndex \in Nat
  BY DiscreteAssumption DEF UNDEFINED
<1>2. CASE last # UNDEFINED /\ i > last + 1
  <2>1. /\ InvalidatedCount(i) \in Nat /\ InvalidatedCount(i) <= i - last - 1
        /\ InvalidatedCount(i) <= GrainCount
        /\ InvalidatedCount(i) = i - last - 1 \/ InvalidatedCount(i) = GrainCount
    BY <1>1, <1>2 DEF InvalidatedCount, MinOf
  <2>2. Missing(i) = i - InvalidatedCount(i) .. i - 1
    BY <1>2 DEF Missing
  <2>3. last \in Nat
    BY <1>1, <1>2
  <2> QED
    BY <1>1, <1>2, <2>1, <2>2, <2>3
<1>3. CASE ~(last # UNDEFINED /\ i > last + 1)
  BY <1>1, <1>3 DEF Missing
<1> QED
  BY <1>2, <1>3

(* What marks a slot is the header of one of the missing grains of it.     *)
LEMMA MissingHeaderIs ==
  ASSUME NEW i, NEW m \in Missing(i)
  PROVE  \E n \in Missing(i) :
            SlotOf(n) = SlotOf(m) /\ MissingHeader(i, SlotOf(m)) = [index |-> n, invalid |-> TRUE, slices |-> 0]
<1> DEFINE n == CHOOSE k \in Missing(i) : SlotOf(k) = SlotOf(m)
<1>1. n \in Missing(i) /\ SlotOf(n) = SlotOf(m)
  OBVIOUS
<1>2. MissingHeader(i, SlotOf(m)) = [index |-> n, invalid |-> TRUE, slices |-> 0]
  BY DEF MissingHeader
<1> HIDE DEF n
<1> QED
  BY <1>1, <1>2

(* A store that is left out was not needed.                                *)
LEMMA StoresLeftOut ==
  ASSUME NEW s \in Slots, NEW h, NEW f \in Fields, <<f, s>> \notin Stores(s, h)
  PROVE  hdr[s][f] = h[f]
  BY DEF Stores

(* The phases of a call: what is pending is of the slots the phase is      *)
(* about, and a header field that is no longer pending has its new value.  *)
PendingOfPhase ==
    /\ wpc \notin {"gap", "reset", "commit"} => pending = {}
    /\ wpc = "reset" => \A p \in pending : p[2] = SlotOf(opening)
    /\ wpc = "commit" => \A p \in pending : p[2] = SlotOf(cur)

GapStored ==
    wpc = "gap" =>
        \A m \in Missing(opening), f \in Fields :
            <<f, SlotOf(m)>> \notin pending => hdr[SlotOf(m)][f] = MissingHeader(opening, SlotOf(m))[f]

ResetStored ==
    wpc = "reset" =>
        /\ <<"index", SlotOf(opening)>> \notin pending => hdr[SlotOf(opening)].index = opening
        /\ pending # {} /\ <<"slices", SlotOf(opening)>> \notin pending => hdr[SlotOf(opening)].slices = 0

CommitStored ==
    wpc = "commit" => \A f \in Fields : <<f, SlotOf(cur)>> \notin pending => hdr[SlotOf(cur)][f] = info[f]

BetweenOpenings == wpc \in {"idle", "commit", "wake"}

(* The grain the producer has open is the one its slot holds.              *)
OpenIndexed ==
    BetweenOpenings /\ cur # UNDEFINED => hdr[SlotOf(cur)].index = cur /\ info.index = cur

StoreInv == PendingOfPhase /\ GapStored /\ ResetStored /\ CommitStored /\ OpenIndexed

LEMMA StoreInvInit == Init => StoreInv
  BY DEF Init, StoreInv, PendingOfPhase, GapStored, ResetStored, CommitStored, OpenIndexed, BetweenOpenings

LEMMA StoreInvFrame ==
  ASSUME StoreInv, UNCHANGED <<hdr, wpc, pending, opening, cur, last, info>>
  PROVE  StoreInv'
<1>1. Missing(opening)' = Missing(opening)
  BY DEF Missing, InvalidatedCount
<1>2. \A m \in Missing(opening) : MissingHeader(opening, SlotOf(m))' = MissingHeader(opening, SlotOf(m))
  BY <1>1 DEF MissingHeader
<1> QED
  BY <1>1, <1>2 DEF StoreInv, PendingOfPhase, GapStored, ResetStored, CommitStored, OpenIndexed, BetweenOpenings

LEMMA StoreInvOpen ==
  ASSUME TypeInv, StoreInv, NEW i \in 0..MaxIndex, OpenGrain(i)
  PROVE  StoreInv'
<1>1. UNCHANGED <<hdr, cur, last, info>> /\ opening' = i /\ wpc' = "gap"
      /\ pending' = UNION {Stores(SlotOf(m), MissingHeader(i, SlotOf(m))) : m \in Missing(i)}
  BY DEF OpenGrain, shared
<1>2. Missing(i)' = Missing(i)
  BY <1>1 DEF Missing, InvalidatedCount
<1>3. ASSUME NEW m \in Missing(i), NEW f \in Fields, <<f, SlotOf(m)>> \notin pending'
      PROVE  hdr[SlotOf(m)][f] = MissingHeader(i, SlotOf(m))[f]
  <2>1. SlotOf(m) \in Slots
    BY MissingTyped, SlotTyped DEF TypeInv, WriterTyped
  <2>2. <<f, SlotOf(m)>> \notin Stores(SlotOf(m), MissingHeader(i, SlotOf(m)))
    BY <1>1, <1>3
  <2> QED
    BY <2>1, <2>2, StoresLeftOut
<1>4. \A m \in Missing(i) : MissingHeader(i, SlotOf(m))' = MissingHeader(i, SlotOf(m))
  BY <1>2 DEF MissingHeader
<1> QED
  BY <1>1, <1>2, <1>3, <1>4 DEF StoreInv, PendingOfPhase, GapStored, ResetStored, CommitStored, OpenIndexed, BetweenOpenings

(* One store: which slot and field, in which phase, and what is stored.    *)
LEMMA StoreHeaderIs ==
  ASSUME TypeInv, StoreHeader
  PROVE  /\ UNCHANGED <<head, body, sync, valid, wpc, opening, cur, last, info, releases, crashes, readers, history>>
         /\ \E f \in Fields, s \in Slots :
              /\ <<f, s>> \in pending /\ pending' = pending \ {<<f, s>>}
              /\ wpc \in {"gap", "reset", "commit"}
              /\ hdr' \in [Slots -> GrainInfo]
              /\ hdr'[s][f] = NewHeader(s)[f]
              /\ \A t \in Slots, g \in Fields : <<g, t>> # <<f, s>> => hdr'[t][g] = hdr[t][g]
<1>1. PICK f \in Fields, s \in Slots :
        /\ wpc \in {"gap", "reset", "commit"}
        /\ <<f, s>> \in pending
        /\ hdr' = [hdr EXCEPT ![s] = [@ EXCEPT ![f] = NewHeader(s)[f]]]
        /\ pending' = pending \ {<<f, s>>}
  BY DEF StoreHeader
<1>2. hdr \in [Slots -> GrainInfo] /\ hdr[s] \in GrainInfo /\ hdr' \in [Slots -> GrainInfo]
  BY StoreHeaderTyped DEF TypeInv, MemoryTyped
<1>3. hdr'[s] = [hdr[s] EXCEPT ![f] = NewHeader(s)[f]] /\ \A t \in Slots \ {s} : hdr'[t] = hdr[t]
  BY <1>1, <1>2
<1>4. hdr'[s][f] = NewHeader(s)[f] /\ \A g \in Fields \ {f} : hdr'[s][g] = hdr[s][g]
  BY <1>2, <1>3 DEF GrainInfo, Fields
<1>5. \A t \in Slots, g \in Fields : <<g, t>> # <<f, s>> => hdr'[t][g] = hdr[t][g]
  BY <1>3, <1>4
<1>6. UNCHANGED <<head, body, sync, valid, wpc, opening, cur, last, info, releases, crashes, readers, history>>
  BY DEF StoreHeader
<1> QED
  BY <1>1, <1>2, <1>4, <1>5, <1>6

LEMMA StoreInvStore ==
  ASSUME TypeInv, StoreInv, StoreHeader
  PROVE  StoreInv'
<1>1. UNCHANGED <<wpc, opening, cur, last, info>>
  BY StoreHeaderIs
<1>2. PICK f \in Fields, s \in Slots :
        /\ <<f, s>> \in pending /\ pending' = pending \ {<<f, s>>}
        /\ wpc \in {"gap", "reset", "commit"}
        /\ hdr'[s][f] = NewHeader(s)[f]
        /\ \A t \in Slots, g \in Fields : <<g, t>> # <<f, s>> => hdr'[t][g] = hdr[t][g]
  BY StoreHeaderIs
<1>3. Missing(opening)' = Missing(opening)
  BY <1>1 DEF Missing, InvalidatedCount
<1>4. \A m \in Missing(opening) : MissingHeader(opening, SlotOf(m))' = MissingHeader(opening, SlotOf(m))
  BY <1>1, <1>3 DEF MissingHeader
<1>5. PendingOfPhase'
  BY <1>1, <1>2 DEF StoreInv, PendingOfPhase
<1>6. GapStored'
  <2> SUFFICES ASSUME wpc = "gap", NEW m \in Missing(opening), NEW g \in Fields, <<g, SlotOf(m)>> \notin pending'
               PROVE  hdr'[SlotOf(m)][g] = MissingHeader(opening, SlotOf(m))[g]
    BY <1>1, <1>3, <1>4 DEF GapStored
  <2>1. SlotOf(m) \in Slots
    BY MissingTyped, SlotTyped DEF TypeInv, WriterTyped, StoresTyped
  <2>2. CASE <<g, SlotOf(m)>> = <<f, s>>
    BY <1>2, <2>2 DEF NewHeader
  <2>3. CASE <<g, SlotOf(m)>> # <<f, s>>
    BY <1>2, <2>1, <2>3 DEF StoreInv, GapStored
  <2> QED
    BY <2>2, <2>3
<1>7. ResetStored'
  <2> SUFFICES ASSUME wpc = "reset"
               PROVE  /\ <<"index", SlotOf(opening)>> \notin pending' => hdr'[SlotOf(opening)].index = opening
                      /\ pending' # {} /\ <<"slices", SlotOf(opening)>> \notin pending'
                            => hdr'[SlotOf(opening)].slices = 0
    BY <1>1 DEF ResetStored
  <2>1. s = SlotOf(opening) /\ NewHeader(s) = [index |-> opening, invalid |-> FALSE, slices |-> 0]
    BY <1>2 DEF StoreInv, PendingOfPhase, NewHeader
  <2>2. {"index", "slices"} \subseteq Fields
    BY DEF Fields
  <2> QED
    BY <1>2, <2>1, <2>2 DEF StoreInv, ResetStored
<1>8. CommitStored'
  <2> SUFFICES ASSUME wpc = "commit", NEW g \in Fields, <<g, SlotOf(cur)>> \notin pending'
               PROVE  hdr'[SlotOf(cur)][g] = info[g]
    BY <1>1 DEF CommitStored
  <2>1. SlotOf(cur) \in Slots
    BY SlotTyped DEF TypeInv, StoresTyped
  <2>2. CASE <<g, SlotOf(cur)>> = <<f, s>>
    BY <1>2, <2>2 DEF NewHeader
  <2>3. CASE <<g, SlotOf(cur)>> # <<f, s>>
    BY <1>2, <2>1, <2>3 DEF StoreInv, CommitStored
  <2> QED
    BY <2>2, <2>3
<1>9. OpenIndexed'
  <2> SUFFICES ASSUME BetweenOpenings, cur # UNDEFINED
               PROVE  hdr'[SlotOf(cur)].index = cur /\ info.index = cur
    BY <1>1 DEF OpenIndexed, BetweenOpenings
  <2>1. wpc = "commit" /\ "index" \in Fields /\ SlotOf(cur) \in Slots
    BY <1>2, SlotTyped DEF BetweenOpenings, Fields, TypeInv, StoresTyped
  <2>2. NewHeader(s) = info
    BY <2>1 DEF NewHeader
  <2> QED
    BY <1>2, <2>1, <2>2 DEF StoreInv, OpenIndexed
<1> QED
  BY <1>5, <1>6, <1>7, <1>8, <1>9 DEF StoreInv

(* Leaving a phase for the next one.                                       *)
LEMMA StoreInvPhase ==
  ASSUME TypeInv, StoreInv, GapMarked \/ GrainOpened \/ (\E b \in BOOLEAN : CommitGrain(b)) \/ StoreHead \/ BumpSync
  PROVE  StoreInv'
<1> USE DEF StoreInv
<1>1. CASE GapMarked
  <2>1. UNCHANGED <<hdr, opening, cur, last, info>> /\ wpc' = "reset" /\ pending' = ResetStores(opening)
    BY <1>1 DEF GapMarked, shared
  <2>2. SlotOf(opening) \in Slots /\ {"index", "slices"} \subseteq Fields
    BY <1>1, SlotTyped DEF GapMarked, TypeInv, StoresTyped, Fields
  <2>3. CASE hdr[SlotOf(opening)].index = opening
    BY <2>1, <2>3 DEF ResetStores, PendingOfPhase, GapStored, ResetStored, CommitStored, OpenIndexed, BetweenOpenings
  <2>4. CASE hdr[SlotOf(opening)].index # opening
    <3> DEFINE h == [index |-> opening, invalid |-> FALSE, slices |-> 0]
    <3>1. pending' = Stores(SlotOf(opening), h)
      BY <2>1, <2>4 DEF ResetStores
    <3>2. \A f \in Fields : <<f, SlotOf(opening)>> \notin pending' => hdr[SlotOf(opening)][f] = h[f]
      BY <2>2, <3>1, StoresLeftOut
    <3>3. \A p \in pending' : p[2] = SlotOf(opening)
      BY <3>1 DEF Stores
    <3> QED
      BY <2>1, <2>2, <3>2, <3>3 DEF PendingOfPhase, GapStored, ResetStored, CommitStored, OpenIndexed, BetweenOpenings
  <2> QED
    BY <2>3, <2>4
<1>2. CASE GrainOpened
  <2>1. /\ hdr' = hdr /\ wpc = "reset" /\ pending = {} /\ pending' = {} /\ wpc' = "idle"
        /\ cur' = opening /\ info' = hdr[SlotOf(opening)]
    BY <1>2 DEF GrainOpened, shared
  <2> QED
    BY <2>1 DEF PendingOfPhase, GapStored, ResetStored, CommitStored, OpenIndexed, BetweenOpenings
<1>3. ASSUME NEW b \in BOOLEAN, CommitGrain(b)
      PROVE  StoreInv'
  <2>1. /\ UNCHANGED <<hdr, opening, cur, last>> /\ wpc = "idle" /\ wpc' = "commit" /\ cur # UNDEFINED
        /\ info' = [info EXCEPT !.invalid = @ \/ b]
        /\ pending' = Stores(SlotOf(cur), info') \cup {<<"head", SlotOf(cur)>>}
    BY <1>3 DEF CommitGrain, CommitAccepted, shared
  <2>2. info'.index = info.index
    BY <2>1 DEF TypeInv, WriterTyped, GrainInfo
  <2>3. SlotOf(cur) \in Slots
    BY <2>1, SlotTyped, DiscreteAssumption DEF TypeInv, WriterTyped, UNDEFINED
  <2>4. \A f \in Fields : <<f, SlotOf(cur)>> \notin pending' => hdr[SlotOf(cur)][f] = info'[f]
    BY <2>1, <2>3, StoresLeftOut
  <2>5. \A p \in pending' : p[2] = SlotOf(cur)
    BY <2>1 DEF Stores
  <2> QED
    BY <2>1, <2>2, <2>4, <2>5 DEF PendingOfPhase, GapStored, ResetStored, CommitStored, OpenIndexed, BetweenOpenings
<1>4. CASE StoreHead
  <2>1. /\ UNCHANGED <<hdr, wpc, opening, cur, last, info>> /\ wpc = "commit"
        /\ pending' = pending \ {<<"head", SlotOf(cur)>>}
    BY <1>4 DEF StoreHead
  <2>2. "head" \notin Fields
    BY DEF Fields
  <2> QED
    BY <2>1, <2>2 DEF PendingOfPhase, GapStored, ResetStored, CommitStored, OpenIndexed, BetweenOpenings
<1>5. CASE BumpSync
  <2>1. /\ UNCHANGED <<hdr, opening>> /\ pending = {} /\ pending' = {} /\ wpc = "commit" /\ wpc' = "wake"
        /\ cur' = UNDEFINED \/ UNCHANGED <<cur, info>>
    BY <1>5 DEF BumpSync
  <2> QED
    BY <2>1 DEF PendingOfPhase, GapStored, ResetStored, CommitStored, OpenIndexed, BetweenOpenings
<1> QED
  BY <1>1, <1>2, <1>3, <1>4, <1>5

LEMMA StoreInvWriter ==
  ASSUME TypeInv, StoreInv, WriterNext
  PROVE  StoreInv'
<1>1. CASE AttachWriter \/ ReleaseWriter \/ WriterCrash
  <2>1. hdr' = hdr /\ pending' = {} /\ cur' = UNDEFINED /\ wpc' \in {"down", "idle"}
    BY <1>1 DEF AttachWriter, ReleaseWriter, WriterCrash, Detach, shared, StoreInv, PendingOfPhase
  <2> QED
    BY <2>1 DEF StoreInv, PendingOfPhase, GapStored, ResetStored, CommitStored, OpenIndexed, BetweenOpenings
<1>2. CASE CancelGrain
  <2>1. UNCHANGED <<hdr, pending, opening>> /\ cur' = UNDEFINED /\ wpc = "idle" /\ wpc' = "idle"
    BY <1>2 DEF CancelGrain, shared
  <2> QED
    BY <2>1 DEF StoreInv, PendingOfPhase, GapStored, ResetStored, CommitStored, OpenIndexed, BetweenOpenings
<1>3. CASE WriteSlice
  <2>1. UNCHANGED <<hdr, pending, opening, cur, wpc>> /\ wpc = "idle" /\ info'.index = info.index
    BY <1>3 DEF WriteSlice, TypeInv, WriterTyped, GrainInfo
  <2> QED
    BY <2>1 DEF StoreInv, PendingOfPhase, GapStored, ResetStored, CommitStored, OpenIndexed, BetweenOpenings
<1>4. CASE WakeAll
  <2>1. UNCHANGED <<hdr, pending, opening, cur, info>> /\ wpc = "wake" /\ wpc' = "idle"
    BY <1>4 DEF WakeAll, shared
  <2> QED
    BY <2>1 DEF StoreInv, PendingOfPhase, GapStored, ResetStored, CommitStored, OpenIndexed, BetweenOpenings
<1> QED
  BY <1>1, <1>2, <1>3, <1>4, StoreInvOpen, StoreInvStore, StoreInvPhase DEF WriterNext, InCall

-----------------------------------------------------------------------------
(* Skipped grains never pass for older ones.                               *)

(* The slot of j holds j or a later grain, or is marked.                   *)
Fresh(j) == hdr[SlotOf(j)].index >= j \/ hdr[SlotOf(j)].invalid

(* As far as a window that ends with top reaches.                          *)
FreshUpTo(top) == \A j \in base..top : j > top - GrainCount => Fresh(j)

Storing(s) == \E f \in Fields : <<f, s>> \in pending

BaseKnown ==
    /\ base = UNDEFINED <=> last = UNDEFINED
    /\ base <= last
    /\ wpc = "down" => base = UNDEFINED

(* The producer is less than a ring behind the head.                       *)
NotFarBehind ==
    /\ BetweenOpenings /\ cur # UNDEFINED => cur > head - GrainCount
    /\ wpc \in {"gap", "reset"} => opening > head - GrainCount

FreshBetween ==
    base # UNDEFINED /\ BetweenOpenings =>
        FreshUpTo(last) /\ FreshUpTo(head) /\ (cur # UNDEFINED => FreshUpTo(cur))

(* While a gap is marked a slot may be between two states, but never looks *)
(* older than the last complete grain.                                     *)
FreshGap ==
    base # UNDEFINED /\ wpc = "gap" =>
        /\ FreshUpTo(last)
        /\ \A j \in base..head : j > head - GrainCount => Fresh(j) \/ Storing(SlotOf(j))

(* While a slot is reset that slot may look old, all the others do not.    *)
FreshReset ==
    base # UNDEFINED /\ wpc = "reset" =>
        \A j \in Nat : j >= base /\ SlotOf(j) # SlotOf(opening) =>
            /\ j <= last /\ j > last - GrainCount => Fresh(j)
            /\ j <= head /\ j > head - GrainCount => Fresh(j)
            /\ j \in Missing(opening) => hdr[SlotOf(j)].invalid

FreshInv == BaseKnown /\ NotFarBehind /\ FreshBetween /\ FreshGap /\ FreshReset

(* What the steps below rely on, and what TypeInv says of indexes.         *)
FlowInv == TypeInv /\ CommitOrder /\ StoreInv

LEMMA IndexTypes ==
  ASSUME TypeInv
  PROVE  /\ head \in Nat /\ GrainCount \in Nat /\ GrainCount >= 2 /\ MaxIndex \in Nat
         /\ {cur, last, base, opening} \subseteq Int /\ UNDEFINED = -1
         /\ \A x \in {cur, last, base, opening} : x # UNDEFINED => x \in 0..MaxIndex
         /\ \A s \in Slots : hdr[s].index \in Nat
<1>1. GrainCount \in Nat /\ GrainCount >= 2 /\ MaxIndex \in Nat /\ UNDEFINED = -1
  BY DiscreteAssumption DEF UNDEFINED
<1>2. head \in Nat
  BY <1>1 DEF TypeInv, MemoryTyped
<1>3. cur \in UNDEFINED..MaxIndex /\ last \in UNDEFINED..MaxIndex /\ base \in UNDEFINED..MaxIndex
      /\ opening \in UNDEFINED..MaxIndex
  BY DEF TypeInv, WriterTyped
<1>4. \A x \in UNDEFINED..MaxIndex : x \in Int /\ (x # UNDEFINED => x \in 0..MaxIndex)
  BY <1>1
<1>5. ASSUME NEW s \in Slots PROVE hdr[s].index \in Nat
  <2>1. hdr[s] \in GrainInfo
    BY DEF TypeInv, MemoryTyped
  <2>2. hdr[s].index \in 0..MaxIndex
    BY <2>1 DEF GrainInfo
  <2> QED
    BY <1>1, <2>2
<1> QED
  BY <1>1, <1>2, <1>3, <1>4, <1>5

LEMMA FreshInvInit == Init => FreshInv
  BY DEF Init, FreshInv, BaseKnown, NotFarBehind, FreshBetween, FreshGap, FreshReset, BetweenOpenings, UNDEFINED

LEMMA FreshInvFrame ==
  ASSUME FreshInv, UNCHANGED <<head, hdr, wpc, pending, opening, cur, last, base>>
  PROVE  FreshInv'
<1>1. Missing(opening)' = Missing(opening)
  BY DEF Missing, InvalidatedCount
<1> QED
  BY <1>1 DEF FreshInv, BaseKnown, NotFarBehind, FreshBetween, FreshGap, FreshReset, BetweenOpenings,
     FreshUpTo, Fresh, Storing

LEMMA FreshInvOpen ==
  ASSUME FlowInv, FreshInv, MaxBack < GrainCount, NEW i \in 0..MaxIndex, OpenGrain(i)
  PROVE  FreshInv'
<1>1. /\ UNCHANGED <<head, hdr, cur, last, base>> /\ wpc = "idle" /\ wpc' = "gap" /\ opening' = i
      /\ i >= head - MaxBack
  BY DEF OpenGrain, ProducerOpens, shared, history
<1>2. i > head - GrainCount
  BY <1>1, DiscreteAssumption, IndexTypes DEF FlowInv
<1> QED
  BY <1>1, <1>2 DEF FreshInv, BaseKnown, NotFarBehind, FreshBetween, FreshGap, FreshReset, BetweenOpenings,
     FreshUpTo, Fresh

LEMMA FreshInvStore ==
  ASSUME FlowInv, FreshInv, StoreHeader
  PROVE  FreshInv'
<1>1. UNCHANGED <<head, wpc, opening, cur, last, base, info>>
  BY StoreHeaderIs DEF FlowInv, history
<1>2. PICK f \in Fields, s \in Slots :
        /\ <<f, s>> \in pending /\ pending' = pending \ {<<f, s>>}
        /\ wpc \in {"gap", "reset", "commit"}
        /\ hdr' \in [Slots -> GrainInfo]
        /\ hdr'[s][f] = NewHeader(s)[f]
        /\ \A t \in Slots, g \in Fields : <<g, t>> # <<f, s>> => hdr'[t][g] = hdr[t][g]
  BY StoreHeaderIs DEF FlowInv
<1>3. StoreInv'
  BY StoreInvStore DEF FlowInv
<1>4. {"index", "invalid"} \subseteq Fields
  BY DEF Fields
<1>5. ASSUME NEW j \in Nat, SlotOf(j) # s
      PROVE  (Fresh(j)' <=> Fresh(j)) /\ hdr'[SlotOf(j)].invalid = hdr[SlotOf(j)].invalid
             /\ (Storing(SlotOf(j))' <=> Storing(SlotOf(j)))
  <2>1. SlotOf(j) \in Slots
    BY SlotTyped
  <2> QED
    BY <1>2, <1>4, <1>5, <2>1 DEF Fresh, Storing
<1>6. Missing(opening)' = Missing(opening)
  BY <1>1 DEF Missing, InvalidatedCount
<1>7. base # UNDEFINED => \A top \in Int : base..top \subseteq Nat
  BY IndexTypes DEF FlowInv
<1>8. CASE wpc = "gap"
  <2> SUFFICES ASSUME base # UNDEFINED PROVE FreshGap'
    BY <1>1, <1>8 DEF FreshInv, BaseKnown, NotFarBehind, FreshBetween, FreshReset, BetweenOpenings, FreshGap
  <2>1. PICK m \in Missing(opening) : s = SlotOf(m)
    BY <1>2, <1>8 DEF FlowInv, TypeInv, StoresTyped
  <2>2. PICK n \in Missing(opening) : MissingHeader(opening, s) = [index |-> n, invalid |-> TRUE, slices |-> 0]
    BY <2>1, MissingHeaderIs
  <2>3. n \in Nat /\ last < n /\ last \in Nat
    BY <1>8, MissingRange, IndexTypes DEF FlowInv, TypeInv, WriterTyped, StoresTyped
  <2>4. hdr'[s][f] = [index |-> n, invalid |-> TRUE, slices |-> 0][f]
    BY <1>2, <1>8, <2>2 DEF NewHeader
  <2>5. ASSUME NEW j \in Nat, j <= last, Fresh(j)
        PROVE  Fresh(j)'
    <3>1. CASE SlotOf(j) = s /\ f = "index"
      BY <2>3, <2>4, <2>5, <3>1 DEF Fresh
    <3>2. CASE SlotOf(j) = s /\ f # "index"
      <4>1. hdr'[s].index = hdr[s].index
        BY <1>2, <1>4, <3>2
      <4>2. hdr'[s].invalid = hdr[s].invalid \/ hdr'[s].invalid = TRUE
        <5>1. CASE f = "invalid"
          BY <2>4, <5>1
        <5>2. CASE f # "invalid"
          BY <1>2, <1>4, <5>2
        <5> QED
          BY <5>1, <5>2
      <4> QED
        BY <2>5, <3>2, <4>1, <4>2 DEF Fresh
    <3> QED
      BY <1>5, <2>5, <3>1, <3>2
  <2>6. ASSUME NEW j \in Nat, SlotOf(j) = s
        PROVE  Fresh(j)' \/ Storing(SlotOf(j))'
    <3>1. CASE <<"invalid", s>> \notin pending'
      <4>1. hdr'[s].invalid = MissingHeader(opening, s)'.invalid
        BY <1>1, <1>3, <1>4, <1>6, <1>8, <2>1, <3>1 DEF StoreInv, GapStored
      <4>2. MissingHeader(opening, s)' = MissingHeader(opening, s)
        BY <1>1, <1>6 DEF MissingHeader
      <4> QED
        BY <2>2, <2>6, <4>1, <4>2 DEF Fresh
    <3>2. CASE <<"invalid", s>> \in pending'
      BY <1>4, <2>6, <3>2 DEF Storing
    <3> QED
      BY <3>1, <3>2
  <2>7. FreshUpTo(last)'
    <3>1. ASSUME NEW j \in base..last, j > last - GrainCount
          PROVE  Fresh(j)'
      <4>1. j \in Nat /\ j <= last /\ Fresh(j)
        BY <1>7, <1>8, <2>3, <3>1 DEF FreshInv, FreshGap, FreshUpTo
      <4> QED
        BY <4>1, <2>5
    <3> QED
      BY <1>1, <3>1 DEF FreshUpTo
  <2>8. ASSUME NEW j \in base..head, j > head - GrainCount
        PROVE  Fresh(j)' \/ Storing(SlotOf(j))'
    <3>1. j \in Nat
      BY <1>7, IndexTypes DEF FlowInv
    <3>2. CASE SlotOf(j) = s
      BY <2>6, <3>1, <3>2
    <3>3. CASE SlotOf(j) # s
      BY <1>5, <1>8, <2>8, <3>1, <3>3 DEF FreshInv, FreshGap
    <3> QED
      BY <3>2, <3>3
  <2> QED
    BY <1>1, <2>7, <2>8 DEF FreshGap
<1>9. CASE wpc = "reset"
  <2>1. s = SlotOf(opening)
    BY <1>2, <1>9 DEF FlowInv, StoreInv, PendingOfPhase
  <2>2. FreshReset'
    BY <1>1, <1>5, <1>6, <1>9, <2>1 DEF FreshInv, FreshReset
  <2> QED
    BY <1>1, <1>9, <2>2 DEF FreshInv, BaseKnown, NotFarBehind, FreshBetween, FreshGap, BetweenOpenings
<1>10. CASE wpc = "commit"
  <2>1. s = SlotOf(cur) /\ cur # UNDEFINED /\ cur \in Nat
    BY <1>2, <1>10, IndexTypes DEF FlowInv, StoreInv, PendingOfPhase, CommitOrder, TypeInv, StoresTyped
  <2>2. hdr'[s].index = cur
    BY <1>1, <1>3, <1>10, <2>1 DEF StoreInv, OpenIndexed, BetweenOpenings
  <2>3. ASSUME NEW j \in Nat, j < cur + GrainCount, Fresh(j)
        PROVE  Fresh(j)'
    <3>1. CASE SlotOf(j) = s /\ j <= cur
      BY <2>2, <3>1 DEF Fresh
    <3>2. CASE SlotOf(j) = s /\ j > cur
      <4>1. j - cur < GrainCount /\ cur - j < GrainCount
        BY <2>1, <2>3, <3>2, IndexTypes DEF FlowInv
      <4> QED
        BY <2>1, <3>2, <4>1, SameSlot
    <3>3. CASE SlotOf(j) # s
      BY <1>5, <2>3, <3>3
    <3> QED
      BY <2>1, <3>1, <3>2, <3>3
  <2>4. base # UNDEFINED => last < cur /\ head < cur + GrainCount
    BY <1>10, <2>1, IndexTypes DEF FlowInv, CommitOrder, FreshInv, BaseKnown, NotFarBehind, BetweenOpenings
  <2>5. FreshBetween'
    <3> SUFFICES ASSUME base # UNDEFINED
                 PROVE  FreshUpTo(last)' /\ FreshUpTo(head)' /\ FreshUpTo(cur)'
      BY <1>1, <1>10, <2>1 DEF FreshBetween, BetweenOpenings
    <3>1. FreshUpTo(last) /\ FreshUpTo(head) /\ FreshUpTo(cur)
      BY <1>10, <2>1 DEF FreshInv, FreshBetween, BetweenOpenings
    <3>2. ASSUME NEW top \in {last, head, cur}, NEW j \in base..top, j > top - GrainCount
          PROVE  Fresh(j)'
      <4>1. j \in Nat /\ j <= top /\ top < cur + GrainCount
        BY <1>7, <2>1, <2>4, <3>2, IndexTypes DEF FlowInv
      <4>2. j < cur + GrainCount
        BY <2>1, <4>1, IndexTypes DEF FlowInv
      <4> QED
        BY <2>3, <3>1, <3>2, <4>1, <4>2 DEF FreshUpTo
    <3> QED
      BY <1>1, <3>2 DEF FreshUpTo
  <2> QED
    BY <1>1, <1>10, <2>5 DEF FreshInv, BaseKnown, NotFarBehind, FreshGap, FreshReset, BetweenOpenings
<1> QED
  BY <1>2, <1>8, <1>9, <1>10

(* From one phase of a call to the next.                                   *)
LEMMA FreshInvPhase ==
  ASSUME FlowInv, FreshInv, GapMarked \/ GrainOpened \/ (\E b \in BOOLEAN : CommitGrain(b)) \/ StoreHead \/ BumpSync
  PROVE  FreshInv'
<1>1. /\ TypeInv /\ CommitOrder /\ StoreInv /\ head \in Nat /\ GrainCount \in Nat /\ GrainCount >= 2
      /\ {cur, last, base, opening} \subseteq Int /\ UNDEFINED = -1
      /\ \A x \in {cur, last, base, opening} : x # UNDEFINED => x \in Nat
      /\ \A s \in Slots : hdr[s].index \in Nat
  BY IndexTypes DEF FlowInv
<1>2. CASE GapMarked
  <2>1. UNCHANGED <<head, hdr, opening, cur, last, base>> /\ wpc = "gap" /\ pending = {} /\ wpc' = "reset"
    BY <1>2 DEF GapMarked, shared, history
  <2>2. Missing(opening)' = Missing(opening)
    BY <2>1 DEF Missing, InvalidatedCount
  <2>3. ASSUME NEW m \in Missing(opening) PROVE hdr[SlotOf(m)].invalid
    <3>1. "invalid" \in Fields
      BY DEF Fields
    <3>2. hdr[SlotOf(m)]["invalid"] = MissingHeader(opening, SlotOf(m))["invalid"]
      BY <1>1, <2>1, <3>1 DEF StoreInv, GapStored
    <3>3. MissingHeader(opening, SlotOf(m)).invalid = TRUE
      BY DEF MissingHeader
    <3> QED
      BY <3>2, <3>3
  <2>4. ASSUME base # UNDEFINED, NEW j \in Nat, j >= base
        PROVE  /\ j <= last /\ j > last - GrainCount => Fresh(j)
               /\ j <= head /\ j > head - GrainCount => Fresh(j)
    BY <1>1, <2>1, <2>4 DEF FreshInv, FreshGap, FreshUpTo, Storing
  <2>5. FreshReset'
    BY <2>1, <2>2, <2>3, <2>4 DEF FreshReset, Fresh
  <2> QED
    BY <2>1, <2>5 DEF FreshInv, BaseKnown, NotFarBehind, FreshBetween, FreshGap, BetweenOpenings
<1>3. CASE GrainOpened
  <2>1. /\ UNCHANGED <<head, hdr, last, base>> /\ wpc = "reset" /\ pending = {} /\ wpc' = "idle"
        /\ cur' = opening
    BY <1>3 DEF GrainOpened, shared, history
  <2>2. opening \in 0..MaxIndex /\ opening \in Nat /\ SlotOf(opening) \in Slots
        /\ hdr[SlotOf(opening)].index = opening /\ opening > head - GrainCount
    BY <1>1, <2>1, SlotTyped DEF TypeInv, StoresTyped, StoreInv, ResetStored, FreshInv, NotFarBehind
  <2>3. ASSUME base # UNDEFINED
        PROVE  FreshUpTo(last) /\ FreshUpTo(head) /\ FreshUpTo(opening)
    <3>1. last \in Nat /\ base \in Nat /\ opening > last
      BY <1>1, <2>1, <2>3 DEF FreshInv, BaseKnown, CommitOrder
    <3>2. ASSUME NEW j \in Nat, j <= opening, SlotOf(j) = SlotOf(opening) PROVE Fresh(j)
      BY <2>2, <3>2 DEF Fresh
    <3>3. ASSUME NEW j \in base..last, j > last - GrainCount PROVE Fresh(j)
      BY <1>1, <2>1, <2>2, <2>3, <3>1, <3>2, <3>3 DEF FreshInv, FreshReset
    <3>4. ASSUME NEW j \in base..head, j > head - GrainCount PROVE Fresh(j)
      <4>1. CASE SlotOf(j) # SlotOf(opening)
        BY <1>1, <2>1, <2>3, <3>1, <3>4, <4>1 DEF FreshInv, FreshReset
      <4>2. CASE SlotOf(j) = SlotOf(opening) /\ j > opening
        <5>1. j - opening < GrainCount /\ opening - j < GrainCount /\ j \in Nat
          BY <1>1, <2>2, <3>1, <3>4, <4>2
        <5> QED
          BY <2>2, <4>2, <5>1, SameSlot
      <4> QED
        BY <2>2, <3>1, <3>2, <4>1, <4>2
    <3>5. ASSUME NEW j \in base..opening, j > opening - GrainCount PROVE Fresh(j)
      <4>1. CASE j <= last
        BY <1>1, <2>2, <3>1, <3>3, <3>5, <4>1
      <4>2. CASE j > last /\ j < opening /\ SlotOf(j) # SlotOf(opening)
        <5>1. last \in UNDEFINED..MaxIndex
          BY <1>1 DEF TypeInv, WriterTyped
        <5>2. j \in Nat /\ j >= opening - GrainCount
          BY <1>1, <2>2, <3>1, <3>5
        <5>3. j \in Missing(opening)
          BY <1>1, <2>2, <3>1, <4>2, <5>1, <5>2, MissingRange
        <5> QED
          BY <2>1, <2>3, <3>5, <4>2, <5>2, <5>3 DEF FreshInv, FreshReset, Fresh
      <4> QED
        BY <2>2, <3>1, <3>2, <4>1, <4>2
    <3> QED
      BY <3>3, <3>4, <3>5 DEF FreshUpTo
  <2>4. FreshBetween'
    <3>1. ASSUME base # UNDEFINED
          PROVE  (FreshUpTo(last) /\ FreshUpTo(head) /\ FreshUpTo(cur))'
      BY <2>1, <2>3, <3>1 DEF FreshUpTo, Fresh
    <3> QED
      BY <2>1, <3>1 DEF FreshBetween
  <2> QED
    BY <2>1, <2>2, <2>4 DEF FreshInv, BaseKnown, NotFarBehind, FreshGap, FreshReset
<1>4. ASSUME NEW b \in BOOLEAN, CommitGrain(b)
      PROVE  FreshInv'
  <2>1. UNCHANGED <<head, hdr, opening, cur, last, base>> /\ wpc = "idle" /\ wpc' = "commit"
    BY <1>4 DEF CommitGrain, shared, history
  <2> QED
    BY <2>1 DEF FreshInv, BaseKnown, NotFarBehind, FreshBetween, FreshGap, FreshReset, BetweenOpenings, FreshUpTo, Fresh
<1>5. CASE StoreHead
  <2>1. UNCHANGED <<hdr, opening, wpc, cur, last, base>> /\ wpc = "commit" /\ head' = cur /\ cur # UNDEFINED
    BY <1>1, <1>5 DEF StoreHead, history, CommitOrder
  <2>2. FreshBetween'
    BY <2>1 DEF FreshInv, FreshBetween, BetweenOpenings, FreshUpTo, Fresh
  <2>3. NotFarBehind'
    BY <1>1, <2>1 DEF NotFarBehind
  <2> QED
    BY <2>1, <2>2, <2>3 DEF FreshInv, BaseKnown, FreshGap, FreshReset
<1>6. CASE BumpSync
  <2>1. /\ UNCHANGED <<head, hdr, opening, pending>> /\ wpc = "commit" /\ wpc' = "wake" /\ pending = {}
        /\ head = cur /\ cur # UNDEFINED
        /\ \/ UNCHANGED <<cur, last, base>>
           \/ cur' = UNDEFINED /\ last' = cur /\ base' = (IF base = UNDEFINED THEN cur ELSE base)
    BY <1>1, <1>6 DEF BumpSync, LastCommitted, CommitOrder
  <2>2. CASE UNCHANGED <<cur, last, base>>
    BY <2>1, <2>2 DEF FreshInv, BaseKnown, NotFarBehind, FreshBetween, FreshGap, FreshReset, BetweenOpenings,
       FreshUpTo, Fresh
  <2>3. CASE cur' = UNDEFINED /\ last' = cur /\ base' = (IF base = UNDEFINED THEN cur ELSE base)
    <3>1. hdr[SlotOf(cur)].index = cur
      BY <1>1, <2>1 DEF StoreInv, OpenIndexed, BetweenOpenings
    <3>2. FreshUpTo(last)'
      <4>1. CASE base = UNDEFINED
        <5>1. ASSUME NEW j \in cur..cur PROVE Fresh(j)
          BY <1>1, <3>1, <5>1 DEF Fresh
        <5> QED
          BY <2>1, <2>3, <4>1, <5>1 DEF FreshUpTo, Fresh
      <4>2. CASE base # UNDEFINED
        BY <2>1, <2>3, <4>2 DEF FreshInv, FreshBetween, BetweenOpenings, FreshUpTo, Fresh
      <4> QED
        BY <4>1, <4>2
    <3>3. FreshBetween'
      BY <2>1, <2>3, <3>2 DEF FreshBetween, FreshUpTo, Fresh
    <3>4. BaseKnown'
      BY <1>1, <2>1, <2>3 DEF FreshInv, BaseKnown, CommitOrder
    <3> QED
      BY <2>1, <2>3, <3>3, <3>4 DEF FreshInv, NotFarBehind, FreshGap, FreshReset
  <2> QED
    BY <2>1, <2>2, <2>3
<1> QED
  BY <1>2, <1>3, <1>4, <1>5, <1>6

LEMMA FreshInvWriter ==
  ASSUME FlowInv, FreshInv, MaxBack < GrainCount, WriterNext
  PROVE  FreshInv'
<1>1. CASE AttachWriter \/ ReleaseWriter \/ WriterCrash
  <2>1. base' = UNDEFINED /\ last' = UNDEFINED /\ cur' = UNDEFINED /\ wpc' \in {"down", "idle"}
    BY <1>1 DEF AttachWriter, ReleaseWriter, WriterCrash, Detach, history, FreshInv, BaseKnown
  <2> QED
    BY <2>1 DEF FreshInv, BaseKnown, NotFarBehind, FreshBetween, FreshGap, FreshReset, UNDEFINED
<1>2. CASE CancelGrain \/ WriteSlice \/ WakeAll
  <2>1. /\ UNCHANGED <<head, hdr, last, base>> /\ wpc \in {"idle", "wake"} /\ wpc' = "idle"
        /\ cur' = cur \/ cur' = UNDEFINED
    BY <1>2 DEF CancelGrain, WriteSlice, WakeAll, shared, history
  <2> QED
    BY <2>1 DEF FreshInv, BaseKnown, NotFarBehind, FreshBetween, FreshGap, FreshReset, BetweenOpenings, FreshUpTo, Fresh
<1> QED
  BY <1>1, <1>2, FreshInvOpen, FreshInvStore, FreshInvPhase DEF WriterNext, InCall

(* The invariants of the three parts, step by step.                        *)
LEMMA ReaderNextFrame ==
  ASSUME NEW r \in Readers, ReaderNext(r)
  PROVE  UNCHANGED <<shared, writer, history>>
  BY DEF ReaderNext, ReaderStep, LoadSync, LoadHead, LoadSlices, LoadFlags, CopyField, Wait,
     Deadline, Interrupted, GetGrain

LEMMA FlowInvInit == Init => FlowInv
  BY TypeInvInit, CommitOrderInit, StoreInvInit DEF FlowInv

LEMMA FlowInvNext ==
  ASSUME FlowInv, [Next]_vars
  PROVE  FlowInv'
<1>1. TypeInv'
  BY TypeInvNext DEF FlowInv
<1>2. CASE WriterNext
  BY <1>1, <1>2, CommitOrderWriter, StoreInvWriter DEF FlowInv
<1>3. CASE UNCHANGED <<head, hdr, wpc, pending, opening, cur, last, info>>
  BY <1>1, <1>3, CommitOrderFrame, StoreInvFrame DEF FlowInv
<1>4. CASE RemoveFlow \/ UNCHANGED vars \/ \E r \in Readers : ReaderNext(r)
  BY <1>3, <1>4, ReaderNextFrame DEF RemoveFlow, vars, shared, writer
<1> QED
  BY <1>2, <1>4 DEF Next

(* What a writer skipped after its first complete grain is marked as       *)
(* missing before the head passes it: however the producer jumps and steps *)
(* back by less than a ring, the slot of a readable grain holds that grain *)
(* or a later one, or is marked.                                           *)
THEOREM SkippedNeverOlder ==
  ASSUME MaxBack < GrainCount
  PROVE  Spec => []NoStaleGrain
<1>1. Init => FlowInv /\ FreshInv
  BY FlowInvInit, FreshInvInit
<1>2. FlowInv /\ FreshInv /\ [Next]_vars => FlowInv' /\ FreshInv'
  <2> SUFFICES ASSUME FlowInv, FreshInv, [Next]_vars PROVE FlowInv' /\ FreshInv'
    OBVIOUS
  <2>1. FlowInv'
    BY FlowInvNext
  <2>2. CASE RemoveFlow \/ UNCHANGED vars \/ \E r \in Readers : ReaderNext(r)
    <3>1. UNCHANGED <<head, hdr, wpc, pending, opening, cur, last, base>>
      BY <2>2, ReaderNextFrame DEF RemoveFlow, vars, shared, writer, history
    <3> QED
      BY <2>1, <3>1, FreshInvFrame
  <2> QED
    BY <2>1, <2>2, FreshInvWriter DEF Next
<1>3. FlowInv /\ FreshInv => NoStaleGrain
  <2> SUFFICES ASSUME FlowInv, FreshInv, base # UNDEFINED, wpc \in {"idle", "commit", "wake"},
                      NEW i \in Window(head), i >= base
               PROVE  Fresh(i)
    BY DEF NoStaleGrain, Fresh
  <2>1. i \in base..head /\ i > head - GrainCount
    BY IndexTypes DEF FlowInv, Window, MinIndex
  <2> QED
    BY <2>1 DEF FreshInv, FreshBetween, BetweenOpenings, FreshUpTo
<1> QED
  BY <1>1, <1>2, <1>3, PTL DEF Spec

-----------------------------------------------------------------------------
(* A producer that does not skip grains, nor steps back.                   *)
Steady == MaxSkip = 0 /\ MaxBack = 0

(* What it opens is the head's grain or the next.                          *)
NearHead ==
    /\ BetweenOpenings /\ cur # UNDEFINED => cur \in {head, head + 1}
    /\ wpc \in {"gap", "reset"} => opening \in {head, head + 1}

LEMMA NearHeadInit == Init => NearHead
  BY DEF Init, NearHead, BetweenOpenings

LEMMA NearHeadNext ==
  ASSUME Steady, FlowInv, NearHead, [Next]_vars
  PROVE  NearHead'
<1>1. head \in Nat /\ UNDEFINED = -1 /\ {cur, opening} \subseteq Int
  BY IndexTypes DEF FlowInv
<1>2. ASSUME NEW i \in 0..MaxIndex, OpenGrain(i)
      PROVE  NearHead'
  <2>1. head' = head /\ opening' = i /\ wpc' = "gap" /\ i \in {head, head + 1}
    BY <1>1, <1>2 DEF OpenGrain, ProducerOpens, shared, Steady
  <2> QED
    BY <2>1 DEF NearHead, BetweenOpenings
<1>3. CASE \/ StoreHeader \/ CancelGrain \/ WriteSlice \/ WakeAll \/ RemoveFlow \/ GapMarked
           \/ (\E b \in BOOLEAN : CommitGrain(b)) \/ UNCHANGED vars \/ \E r \in Readers : ReaderNext(r)
  <2>1. /\ UNCHANGED <<head, opening>> /\ cur' \in {cur, UNDEFINED}
        /\ wpc' \in {"gap", "reset"} => wpc \in {"gap", "reset"}
        /\ BetweenOpenings' => BetweenOpenings
    BY <1>3, ReaderNextFrame DEF StoreHeader, CancelGrain, WriteSlice, WakeAll, RemoveFlow, GapMarked, CommitGrain,
       BetweenOpenings, vars, shared, writer
  <2> QED
    BY <2>1 DEF NearHead
<1>4. CASE AttachWriter \/ ReleaseWriter \/ WriterCrash
  <2>1. cur' = UNDEFINED /\ wpc' \in {"down", "idle"}
    <3>1. CASE AttachWriter
      BY <3>1 DEF AttachWriter
    <3>2. CASE ReleaseWriter \/ WriterCrash
      BY <3>2 DEF ReleaseWriter, WriterCrash, Detach
    <3> QED
      BY <1>4, <3>1, <3>2
  <2> QED
    BY <2>1 DEF NearHead
<1>5. CASE GrainOpened
  <2>1. wpc = "reset" /\ wpc' = "idle" /\ cur' = opening /\ head' = head
    BY <1>5 DEF GrainOpened, shared
  <2> QED
    BY <2>1 DEF NearHead
<1>6. CASE StoreHead
  <2>1. wpc = "commit" /\ wpc' = wpc /\ head' = cur /\ cur' = cur
    BY <1>6 DEF StoreHead
  <2> QED
    BY <2>1 DEF NearHead
<1>7. CASE BumpSync
  <2>1. wpc = "commit" /\ wpc' = "wake" /\ head' = head /\ cur' \in {cur, UNDEFINED}
    BY <1>7 DEF BumpSync
  <2> QED
    BY <2>1 DEF NearHead, BetweenOpenings
<1> QED
  BY <1>2, <1>3, <1>4, <1>5, <1>6, <1>7 DEF Next, WriterNext, InCall

(* The window of the new head has no grain but that one that was not in    *)
(* the old window, and none of them was the unreserved one.                *)
LEMMA WindowAdvances ==
  ASSUME NEW h \in Nat, NEW g \in {h, h + 1}, NEW i \in Window(g), ~Unreserved(g, i), i # g
  PROVE  i \in Window(h) /\ ~Unreserved(h, i) /\ i \in Nat /\ i < g
  BY DiscreteAssumption DEF Window, MinIndex, Unreserved

(* Readable grains have slots of their own, which the next grain's is not. *)
LEMMA WindowSlots ==
  ASSUME NEW h \in Nat, NEW i \in Window(h), ~Unreserved(h, i), NEW j \in Nat, j > h - GrainCount, j <= h + 1,
         SlotOf(i) = SlotOf(j)
  PROVE  i = j
<1>1. i \in Nat /\ i <= h /\ i > h - GrainCount + 1 /\ GrainCount \in Nat
  BY DiscreteAssumption DEF Window, MinIndex, Unreserved
<1>2. i - j < GrainCount /\ j - i < GrainCount
  BY <1>1
<1> QED
  BY <1>1, <1>2, SameSlot

-----------------------------------------------------------------------------
(* What a steady producer marks as missing are not readable grains, as     *)
(* long as it leaves less than a ring of them behind.                      *)
FewMissing == wpc \in {"gap", "reset"} /\ last # UNDEFINED => opening - last - 1 <= MaxMissing

(* The slot of a readable grain holds that grain's header.                 *)
IndexKept == \A i \in Window(head) : ~Unreserved(head, i) => hdr[SlotOf(i)].index = i

(* Where a reader is, and that what it has copied is what it asked for as  *)
(* long as the head has not moved on.                                      *)
ReaderAt(r) ==
    /\ seen[r] <= head
    /\ rpc[r] # "idle" => status[r] = "none"
    /\ rpc[r] \in {"slices", "flags", "copy"} => want[r] \in Window(seen[r])
    /\ rpc[r] = "copy" /\ "index" \notin rtodo[r] /\ head = seen[r] /\ ~Unreserved(seen[r], want[r]) =>
            got[r].index = want[r]
    /\ status[r] = "OK" /\ want[r] <= seen[r] /\ ~Unreserved(seen[r], want[r]) /\ head = seen[r] =>
            got[r].index = want[r]

KeptInv == FewMissing /\ IndexKept /\ \A r \in Readers : ReaderAt(r)

(* Only the slots the grains of a gap or the open grain have are stored in.*)
LEMMA StoredSlots ==
  ASSUME Steady, FlowInv, NearHead, FewMissing, MaxMissing < GrainCount, StoreHeader,
         NEW i \in Window(head), ~Unreserved(head, i), hdr[SlotOf(i)].index = i
  PROVE  hdr'[SlotOf(i)].index = i
<1>1. PICK f \in Fields, s \in Slots :
        /\ <<f, s>> \in pending /\ wpc \in {"gap", "reset", "commit"}
        /\ hdr'[s][f] = NewHeader(s)[f]
        /\ \A t \in Slots, g \in Fields : <<g, t>> # <<f, s>> => hdr'[t][g] = hdr[t][g]
  BY StoreHeaderIs DEF FlowInv
<1>2. i \in Nat /\ SlotOf(i) \in Slots /\ "index" \in Fields /\ head \in Nat /\ GrainCount \in Nat /\ GrainCount >= 2
  BY SlotTyped, IndexTypes, DiscreteAssumption DEF FlowInv, Window, MinIndex, Fields
<1>3. CASE SlotOf(i) # s \/ f # "index"
  BY <1>1, <1>2, <1>3
<1>4. CASE SlotOf(i) = s /\ f = "index"
  <2>1. CASE wpc = "gap"
    <3>1. PICK m \in Missing(opening) : s = SlotOf(m)
      BY <1>1, <2>1 DEF FlowInv, TypeInv, StoresTyped
    <3>2. PICK n \in Missing(opening) :
            SlotOf(n) = s /\ MissingHeader(opening, s) = [index |-> n, invalid |-> TRUE, slices |-> 0]
      BY <3>1, MissingHeaderIs
    <3>3. opening \in 0..MaxIndex /\ last \in UNDEFINED..MaxIndex /\ opening \in {head, head + 1}
      BY <2>1 DEF FlowInv, TypeInv, StoresTyped, WriterTyped, NearHead
    <3>4. n \in Nat /\ last # UNDEFINED /\ last < n /\ n < opening
      BY <3>3, MissingRange
    <3>5. opening - last - 1 <= MaxMissing /\ last \in Nat /\ opening \in Nat /\ MaxMissing \in Nat
      BY <2>1, <3>3, <3>4, DiscreteAssumption, IndexTypes DEF FewMissing, FlowInv
    <3>6. n > head - GrainCount /\ n <= head + 1
      BY <1>2, <3>3, <3>4, <3>5
    <3>7. n = i
      BY <1>2, <1>4, <3>2, <3>4, <3>6, WindowSlots
    <3> QED
      BY <1>1, <1>4, <2>1, <3>2, <3>7 DEF NewHeader
  <2>2. CASE wpc = "reset"
    <3>1. s = SlotOf(opening) /\ opening \in {head, head + 1}
      BY <1>1, <2>2 DEF FlowInv, StoreInv, PendingOfPhase, NearHead
    <3>2. opening = i
      BY <1>2, <1>4, <3>1, WindowSlots
    <3> QED
      BY <1>1, <1>4, <2>2, <3>2 DEF NewHeader
  <2>3. CASE wpc = "commit"
    <3>1. s = SlotOf(cur) /\ cur # UNDEFINED /\ BetweenOpenings /\ cur \in {head, head + 1} /\ info.index = cur
      BY <1>1, <2>3 DEF FlowInv, StoreInv, PendingOfPhase, CommitOrder, NearHead, BetweenOpenings, OpenIndexed
    <3>2. cur = i
      BY <1>2, <1>4, <3>1, WindowSlots
    <3> QED
      BY <1>1, <1>4, <2>3, <3>1, <3>2 DEF NewHeader
  <2> QED
    BY <1>1, <2>1, <2>2, <2>3
<1> QED
  BY <1>3, <1>4

LEMMA IndexKeptNext ==
  ASSUME Steady, FlowInv, NearHead, FewMissing, IndexKept, MaxMissing < GrainCount, [Next]_vars
  PROVE  IndexKept'
<1>1. CASE StoreHeader
  <2>1. head' = head
    BY <1>1, StoreHeaderIs DEF FlowInv
  <2> QED
    BY <1>1, <2>1, StoredSlots DEF IndexKept
<1>2. CASE StoreHead
  <2>1. wpc = "commit" /\ head' = cur /\ hdr' = hdr
    BY <1>2 DEF StoreHead
  <2>2. head \in Nat /\ cur \in {head, head + 1} /\ hdr[SlotOf(cur)].index = cur
    BY <2>1, IndexTypes DEF FlowInv, NearHead, BetweenOpenings, CommitOrder, StoreInv, OpenIndexed
  <2>3. ASSUME NEW i \in Window(cur), ~Unreserved(cur, i)
        PROVE  hdr[SlotOf(i)].index = i
    <3>1. CASE i = cur
      BY <2>2, <3>1
    <3>2. CASE i # cur
      BY <2>2, <2>3, <3>2, WindowAdvances DEF IndexKept
    <3> QED
      BY <3>1, <3>2
  <2> QED
    BY <2>1, <2>3 DEF IndexKept
<1>3. CASE ~StoreHeader /\ ~StoreHead
  <2>1. UNCHANGED <<head, hdr>>
    BY <1>3, ReaderNextFrame DEF Next, WriterNext, InCall, AttachWriter, CancelGrain, WriteSlice, ReleaseWriter,
       WriterCrash, Detach, OpenGrain, CommitGrain, GapMarked, GrainOpened, BumpSync, WakeAll, RemoveFlow, vars, shared
  <2> QED
    BY <2>1 DEF IndexKept
<1> QED
  BY <1>1, <1>2, <1>3

LEMMA FewMissingNext ==
  ASSUME FewMissing, [Next]_vars
  PROVE  FewMissing'
<1>1. ASSUME NEW i \in 0..MaxIndex, OpenGrain(i)
      PROVE  FewMissing'
  BY <1>1 DEF OpenGrain, ProducerOpens, FewMissing
<1>2. CASE ~\E i \in 0..MaxIndex : OpenGrain(i)
  <2>1. wpc' \in {"gap", "reset"} => wpc \in {"gap", "reset"} /\ UNCHANGED <<opening, last>>
    BY <1>2, ReaderNextFrame DEF Next, WriterNext, InCall, AttachWriter, CancelGrain, WriteSlice, ReleaseWriter,
       WriterCrash, Detach, StoreHeader, StoreHead, CommitGrain, GapMarked, GrainOpened, BumpSync, WakeAll, RemoveFlow,
       vars, shared, writer
  <2> QED
    BY <2>1 DEF FewMissing
<1> QED
  BY <1>1, <1>2

(* A step of the writer leaves a reader where it is, and the head moves on *)
(* past what the reader has seen or not at all.                            *)
LEMMA ReaderAtWriter ==
  ASSUME Steady, FlowInv, NearHead, WriterNext \/ RemoveFlow \/ UNCHANGED vars, NEW r \in Readers, ReaderAt(r)
  PROVE  ReaderAt(r)'
<1>1. head \in Nat /\ seen[r] \in Nat
  BY IndexTypes, DiscreteAssumption DEF FlowInv, TypeInv, ReadersTyped
<1>2. UNCHANGED <<want, seen, got, rtodo, status>>
  BY DEF WriterNext, InCall, AttachWriter, CancelGrain, WriteSlice, ReleaseWriter, WriterCrash, Detach, OpenGrain,
     StoreHeader, StoreHead, CommitGrain, GapMarked, GrainOpened, BumpSync, WakeAll, RemoveFlow, vars, readers
<1>3. rpc'[r] = rpc[r] \/ (rpc[r] = "asleep" /\ rpc'[r] = "early")
  <2>1. CASE WakeAll
    BY <2>1 DEF WakeAll
  <2>2. CASE ~WakeAll
    BY <2>2 DEF WriterNext, InCall, AttachWriter, CancelGrain, WriteSlice, ReleaseWriter, WriterCrash, Detach, OpenGrain,
       StoreHeader, StoreHead, CommitGrain, GapMarked, GrainOpened, BumpSync, RemoveFlow, vars, readers
  <2> QED
    BY <2>1, <2>2
<1>4. head' \in {head, head + 1}
  <2>1. CASE StoreHead
    BY <2>1 DEF StoreHead, FlowInv, CommitOrder, NearHead, BetweenOpenings
  <2>2. CASE ~StoreHead
    BY <2>2 DEF WriterNext, InCall, AttachWriter, CancelGrain, WriteSlice, ReleaseWriter, WriterCrash, Detach, OpenGrain,
       StoreHeader, WakeAll, CommitGrain, GapMarked, GrainOpened, BumpSync, RemoveFlow, vars, shared
  <2> QED
    BY <2>1, <2>2
<1>5. CASE head' = head + 1
  BY <1>1, <1>2, <1>3, <1>5 DEF ReaderAt
<1>6. CASE head' = head
  BY <1>2, <1>3, <1>6 DEF ReaderAt
<1> QED
  BY <1>4, <1>5, <1>6

LEMMA ReaderAtReader ==
  ASSUME FlowInv, IndexKept, NEW q \in Readers, ReaderNext(q), NEW r \in Readers, ReaderAt(r)
  PROVE  ReaderAt(r)'
<1>1. UNCHANGED <<shared, writer, history>> /\ head' = head
  BY ReaderNextFrame DEF shared
<1>2. ReadersTyped /\ head \in Nat /\ GrainCount \in Nat /\ GrainCount >= 2
  BY IndexTypes DEF FlowInv, TypeInv
<1>3. CASE q # r
  <2>1. /\ rpc'[r] = rpc[r] /\ want'[r] = want[r] /\ seen'[r] = seen[r] /\ got'[r] = got[r]
        /\ rtodo'[r] = rtodo[r] /\ status'[r] = status[r]
    <3>1. CASE \E i \in 0..MaxIndex, k \in MinSlices : GetGrain(q, i, k)
      BY <1>2, <1>3, <3>1 DEF GetGrain, Goto, ReadersTyped
    <3>2. CASE LoadSync(q) \/ LoadSlices(q) \/ LoadFlags(q) \/ Wait(q) \/ Interrupted(q)
      BY <1>2, <1>3, <3>2 DEF LoadSync, LoadSlices, LoadFlags, Wait, Interrupted, Goto, ReadersTyped
    <3>3. CASE LoadHead(q) \/ Deadline(q)
      BY <1>2, <1>3, <3>3 DEF LoadHead, Deadline, Return, Goto, ReadersTyped
    <3>4. CASE CopyField(q)
      BY <1>2, <1>3, <3>4 DEF CopyField, Return, Goto, ReadersTyped
    <3> QED
      BY <3>1, <3>2, <3>3, <3>4 DEF ReaderNext, ReaderStep
  <2> QED
    BY <1>1, <2>1 DEF ReaderAt
<1>4. CASE q = r
  <2>1. ASSUME NEW i \in 0..MaxIndex, NEW k \in MinSlices, GetGrain(r, i, k)
        PROVE  ReaderAt(r)'
    <3>1. rpc'[r] = "sync" /\ seen'[r] = 0 /\ status'[r] = "none"
      BY <1>2, <2>1 DEF GetGrain, Goto, ReadersTyped
    <3> QED
      BY <1>1, <1>2, <3>1 DEF ReaderAt
  <2>2. CASE LoadSync(r) \/ Wait(r) \/ Interrupted(r)
    <3>1. /\ rpc[r] # "idle" /\ rpc'[r] \in {"head", "sync", "asleep", "early"} /\ seen'[r] = seen[r] /\ status'[r] = status[r]
      BY <1>2, <2>2 DEF LoadSync, Wait, Interrupted, Goto, ReadersTyped
    <3> QED
      BY <1>1, <3>1 DEF ReaderAt
  <2>3. CASE LoadHead(r)
    <3>1. rpc[r] = "head" /\ status[r] = "none"
      BY <2>3 DEF LoadHead, ReaderAt
    <3>2. \/ rpc'[r] = "early" /\ seen'[r] = seen[r] /\ status'[r] = status[r]
          \/ want[r] \in Window(head) /\ rpc'[r] = "slices" /\ seen'[r] = head /\ want'[r] = want[r] /\ status'[r] = status[r]
          \/ rpc'[r] = "idle" /\ seen'[r] = seen[r] /\ status'[r] = "TOO_LATE"
      BY <1>2, <2>3 DEF LoadHead, Return, Goto, ReadersTyped
    <3> QED
      BY <1>1, <1>2, <3>1, <3>2 DEF ReaderAt
  <2>4. CASE LoadSlices(r) \/ LoadFlags(r)
    <3>1. /\ rpc[r] \in {"slices", "flags"} /\ status'[r] = status[r] /\ want'[r] = want[r]
          /\ \/ rpc'[r] = "copy" /\ rtodo'[r] = Fields /\ seen'[r] = seen[r]
             \/ rpc'[r] = "flags" /\ seen'[r] = seen[r]
             \/ rpc'[r] = "early" /\ seen'[r] = 0
      BY <1>2, <2>4 DEF LoadSlices, LoadFlags, Goto, ReadersTyped
    <3> QED
      BY <1>1, <1>2, <3>1 DEF ReaderAt, Fields
  <2>5. CASE CopyField(r)
    <3>1. PICK f \in rtodo[r] :
            /\ rpc[r] = "copy"
            /\ got' = [got EXCEPT ![r] = [@ EXCEPT ![f] = hdr[SlotOf(want[r])][f]]]
            /\ rtodo' = [rtodo EXCEPT ![r] = @ \ {f}]
            /\ IF rtodo[r] = {f} THEN Return(r, "OK") ELSE UNCHANGED <<rpc, want, need, prev, status>>
            /\ UNCHANGED <<shared, writer, seen, history>>
      BY <2>5 DEF CopyField
    <3>2. /\ got[r] \in GrainInfo /\ rtodo'[r] = rtodo[r] \ {f} /\ want'[r] = want[r] /\ seen'[r] = seen[r]
          /\ \/ rtodo[r] = {f} /\ rpc'[r] = "idle" /\ status'[r] = "OK"
             \/ rpc'[r] = rpc[r] /\ status'[r] = status[r]
      BY <1>2, <3>1 DEF Return, Goto, ReadersTyped
    <3>3. got'[r] = [got[r] EXCEPT ![f] = hdr[SlotOf(want[r])][f]]
      BY <1>2, <3>1 DEF ReadersTyped
    <3>4. f = "index" => got'[r].index = hdr[SlotOf(want[r])].index
      BY <3>2, <3>3 DEF GrainInfo
    <3>5. f # "index" => got'[r].index = got[r].index
      BY <3>2, <3>3 DEF GrainInfo
    <3>6. "index" \notin rtodo'[r] /\ head = seen[r] /\ ~Unreserved(seen[r], want[r]) => got'[r].index = want[r]
      BY <3>1, <3>2, <3>4, <3>5 DEF ReaderAt, IndexKept
    <3>7. rpc[r] = "copy" /\ status[r] = "none" /\ seen[r] <= head /\ want[r] \in Window(seen[r])
      BY <3>1 DEF ReaderAt
    <3> QED
      BY <1>1, <3>2, <3>6, <3>7 DEF ReaderAt
  <2>6. CASE Deadline(r)
    <3>1. rpc'[r] = "idle" /\ seen'[r] = seen[r] /\ status'[r] # "OK"
      BY <1>2, <2>6 DEF Deadline, Return, Goto, ReadersTyped
    <3> QED
      BY <1>1, <3>1 DEF ReaderAt
  <2> QED
    BY <1>4, <2>1, <2>2, <2>3, <2>4, <2>5, <2>6 DEF ReaderNext, ReaderStep
<1> QED
  BY <1>3, <1>4

(* With a producer that leaves no gap of a ring behind, a call returns the *)
(* grain it was asked for unless another was committed while it ran: the   *)
(* slots of all readable grains but one hold them.                         *)
THEOREM ReadReturnsRequested ==
  ASSUME MaxSkip = 0, MaxBack = 0, MaxMissing < GrainCount
  PROVE  Spec => []ReadIsRequested
<1>1. Steady
  BY DEF Steady
<1>2. Init => FlowInv /\ NearHead /\ KeptInv
  <2> SUFFICES ASSUME Init PROVE FlowInv /\ NearHead /\ KeptInv
    OBVIOUS
  <2>1. head = 0 /\ hdr[SlotOf(0)].index = 0 /\ Window(head) = {0}
    BY SlotTyped, DiscreteAssumption DEF Init, NewGrain, Window, MinIndex
  <2>2. IndexKept
    BY <2>1 DEF IndexKept
  <2>3. FewMissing
    BY DEF Init, FewMissing
  <2>4. ASSUME NEW r \in Readers PROVE ReaderAt(r)
    BY DEF Init, ReaderAt
  <2> QED
    BY <2>2, <2>3, <2>4, FlowInvInit, NearHeadInit DEF KeptInv
<1>3. FlowInv /\ NearHead /\ KeptInv /\ [Next]_vars => FlowInv' /\ NearHead' /\ KeptInv'
  <2> SUFFICES ASSUME FlowInv, NearHead, KeptInv, [Next]_vars PROVE FlowInv' /\ NearHead' /\ KeptInv'
    OBVIOUS
  <2>1. FewMissing /\ IndexKept /\ \A r \in Readers : ReaderAt(r)
    BY DEF KeptInv
  <2>2. ASSUME NEW r \in Readers PROVE ReaderAt(r)'
    BY <1>1, <2>1, ReaderAtWriter, ReaderAtReader DEF Next
  <2> QED
    BY <1>1, <2>1, <2>2, FlowInvNext, NearHeadNext, IndexKeptNext, FewMissingNext DEF KeptInv
<1>4. KeptInv => ReadIsRequested
  BY DEF KeptInv, ReaderAt, ReadIsRequested
<1> QED
  BY <1>2, <1>3, <1>4, PTL DEF Spec

-----------------------------------------------------------------------------
(* Complete grains of a steady producer.                                   *)

DoneBelow == \A d \in done : d <= head /\ (last # UNDEFINED => d <= last)

(* The header of a readable complete grain is not touched,                 *)
DoneHeaders ==
    \A i \in done : i \in Window(head) /\ ~Unreserved(head, i) =>
        hdr[SlotOf(i)].index = i /\ hdr[SlotOf(i)].slices = TotalSlices

(* and one that is opened again is neither reset nor continued.            *)
DoneOpen ==
    /\ BetweenOpenings /\ cur # UNDEFINED /\ cur \in done => info.slices = TotalSlices
    /\ wpc = "reset" /\ pending # {} => opening \notin done

DoneInv == DoneBelow /\ DoneHeaders /\ DoneOpen

(* What is being stored to the slot of such a grain is a commit of it.     *)
LEMMA StoringDone ==
  ASSUME Steady, FlowInv, NearHead, DoneInv, NEW i \in done, i \in Window(head), ~Unreserved(head, i),
         NEW f, <<f, SlotOf(i)>> \in pending
  PROVE  wpc = "commit" /\ cur = i /\ info.index = i /\ info.slices = TotalSlices
<1>1. i \in Nat /\ head \in Nat /\ GrainCount \in Nat /\ GrainCount >= 2 /\ i > head - GrainCount
  BY IndexTypes DEF FlowInv, Window, MinIndex, TypeInv, WriterTyped
<1>2. CASE wpc = "gap"
  <2>1. PICK m \in Missing(opening) : SlotOf(i) = SlotOf(m)
    BY <1>2 DEF FlowInv, TypeInv, StoresTyped
  <2>2. opening \in 0..MaxIndex /\ last \in UNDEFINED..MaxIndex /\ opening \in {head, head + 1}
    BY <1>2 DEF FlowInv, TypeInv, StoresTyped, WriterTyped, NearHead
  <2>3. m \in Nat /\ last # UNDEFINED /\ last < m /\ m < opening
    BY <2>2, MissingRange
  <2>4. i <= last /\ last \in Nat
    BY <2>3, IndexTypes DEF DoneInv, DoneBelow, FlowInv
  <2>5. m > head - GrainCount /\ m <= head + 1 /\ m # i
    BY <1>1, <2>2, <2>3, <2>4
  <2> QED
    BY <1>1, <2>1, <2>3, <2>5, WindowSlots
<1>3. CASE wpc = "reset"
  <2>1. SlotOf(i) = SlotOf(opening) /\ opening \in {head, head + 1} /\ opening \notin done
    BY <1>3 DEF FlowInv, StoreInv, PendingOfPhase, NearHead, DoneInv, DoneOpen
  <2> QED
    BY <1>1, <2>1, WindowSlots
<1>4. CASE wpc = "commit"
  <2>1. SlotOf(i) = SlotOf(cur) /\ cur # UNDEFINED /\ cur \in {head, head + 1} /\ info.index = cur
    BY <1>4 DEF FlowInv, StoreInv, PendingOfPhase, CommitOrder, OpenIndexed, NearHead, BetweenOpenings
  <2>2. cur = i
    BY <1>1, <2>1, WindowSlots
  <2> QED
    BY <1>4, <2>1, <2>2 DEF DoneInv, DoneOpen, BetweenOpenings
<1> QED
  BY <1>2, <1>3, <1>4 DEF FlowInv, StoreInv, PendingOfPhase

(* A complete grain that is opened again is the head's, and readable.      *)
LEMMA DoneAtHead ==
  ASSUME FlowInv, DoneInv, NEW i \in {head, head + 1}, i \in done
  PROVE  i = head /\ i \in Window(head) /\ ~Unreserved(head, i)
         /\ hdr[SlotOf(i)].index = i /\ hdr[SlotOf(i)].slices = TotalSlices
<1>1. i = head /\ i \in Window(head) /\ ~Unreserved(head, i)
  BY IndexTypes DEF FlowInv, DoneInv, DoneBelow, Window, MinIndex, Unreserved
<1> QED
  BY <1>1 DEF DoneInv, DoneHeaders

LEMMA DoneInvNext ==
  ASSUME Steady, FlowInv, NearHead, DoneInv, [Next]_vars
  PROVE  DoneInv'
<1>1. head \in Nat /\ UNDEFINED = -1 /\ {cur, last, opening} \subseteq Int /\ "head" \notin Fields
      /\ {"index", "slices"} \subseteq Fields /\ done \subseteq Nat
  BY IndexTypes DEF FlowInv, Fields, TypeInv, WriterTyped
<1>2. CASE StoreHeader
  <2>1. UNCHANGED <<head, last, cur, info, wpc, opening, done>>
    BY <1>2, StoreHeaderIs DEF FlowInv, history
  <2>2. PICK f \in Fields, s \in Slots :
          /\ <<f, s>> \in pending /\ pending' = pending \ {<<f, s>>}
          /\ hdr'[s][f] = NewHeader(s)[f]
          /\ \A t \in Slots, g \in Fields : <<g, t>> # <<f, s>> => hdr'[t][g] = hdr[t][g]
    BY <1>2, StoreHeaderIs DEF FlowInv
  <2>3. ASSUME NEW i \in done, i \in Window(head), ~Unreserved(head, i), NEW g \in {"index", "slices"}
        PROVE  hdr'[SlotOf(i)][g] = (IF g = "index" THEN i ELSE TotalSlices)
    <3>1. CASE <<g, SlotOf(i)>> = <<f, s>>
      BY <2>2, <2>3, <3>1, StoringDone DEF NewHeader
    <3>2. CASE <<g, SlotOf(i)>> # <<f, s>>
      <4>1. SlotOf(i) \in Slots
        BY <1>1, SlotTyped
      <4> QED
        BY <1>1, <2>2, <2>3, <3>2, <4>1 DEF DoneInv, DoneHeaders
    <3> QED
      BY <3>1, <3>2
  <2>4. DoneHeaders'
    BY <2>1, <2>3 DEF DoneHeaders
  <2> QED
    BY <2>1, <2>2, <2>4 DEF DoneInv, DoneBelow, DoneOpen, BetweenOpenings
<1>3. CASE GapMarked
  <2>1. /\ UNCHANGED <<head, hdr, last, cur, info, opening, done>> /\ wpc = "gap" /\ wpc' = "reset"
        /\ pending' = ResetStores(opening)
    BY <1>3 DEF GapMarked, shared, history
  <2>2. pending' # {} => opening \notin done
    BY <2>1, DoneAtHead DEF NearHead, ResetStores
  <2> QED
    BY <2>1, <2>2 DEF DoneInv, DoneBelow, DoneHeaders, DoneOpen, BetweenOpenings
<1>4. CASE GrainOpened
  <2>1. /\ UNCHANGED <<head, hdr, last, done>> /\ wpc = "reset" /\ wpc' = "idle"
        /\ cur' = opening /\ info' = hdr[SlotOf(opening)]
    BY <1>4 DEF GrainOpened, shared, history
  <2>2. opening \in done => info'.slices = TotalSlices
    BY <2>1, DoneAtHead DEF NearHead
  <2> QED
    BY <2>1, <2>2 DEF DoneInv, DoneBelow, DoneHeaders, DoneOpen
<1>5. CASE StoreHead
  <2>1. /\ UNCHANGED <<hdr, last, cur, info, opening, done, wpc>> /\ wpc = "commit" /\ head' = cur
        /\ cur \in {head, head + 1} /\ cur # UNDEFINED
    BY <1>5 DEF StoreHead, history, FlowInv, CommitOrder, NearHead, BetweenOpenings
  <2>2. DoneBelow'
    BY <1>1, <2>1 DEF DoneInv, DoneBelow
  <2>3. ASSUME NEW i \in done, i \in Window(cur), ~Unreserved(cur, i)
        PROVE  hdr[SlotOf(i)].index = i /\ hdr[SlotOf(i)].slices = TotalSlices
    <3>1. CASE i = cur
      BY <2>1, <2>3, <3>1, DoneAtHead
    <3>2. CASE i # cur
      BY <1>1, <2>1, <2>3, <3>2, WindowAdvances DEF DoneInv, DoneHeaders
    <3> QED
      BY <3>1, <3>2
  <2>4. DoneHeaders'
    BY <2>1, <2>3 DEF DoneHeaders
  <2> QED
    BY <2>1, <2>2, <2>4 DEF DoneInv, DoneOpen, BetweenOpenings
<1>6. CASE BumpSync
  <2>1. /\ UNCHANGED <<head, hdr, opening>> /\ wpc = "commit" /\ wpc' = "wake" /\ pending = {}
        /\ cur # UNDEFINED /\ head = cur /\ cur \in Nat
        /\ \/ UNCHANGED <<last, cur, info, done>>
           \/ info.slices = TotalSlices /\ last' = cur /\ cur' = UNDEFINED /\ done' = done \cup {cur}
    BY <1>1, <1>6 DEF BumpSync, LastCommitted, FlowInv, CommitOrder
  <2>2. CASE UNCHANGED <<last, cur, info, done>>
    BY <2>1, <2>2 DEF DoneInv, DoneBelow, DoneHeaders, DoneOpen, BetweenOpenings
  <2>3. CASE info.slices = TotalSlices /\ last' = cur /\ cur' = UNDEFINED /\ done' = done \cup {cur}
    <3>1. hdr[SlotOf(cur)].index = cur /\ hdr[SlotOf(cur)].slices = TotalSlices
      <4>1. \A f \in Fields : hdr[SlotOf(cur)][f] = info[f]
        BY <2>1 DEF FlowInv, StoreInv, CommitStored
      <4>2. hdr[SlotOf(cur)]["slices"] = info["slices"]
        BY <1>1, <4>1
      <4>3. hdr[SlotOf(cur)].index = cur
        BY <2>1 DEF FlowInv, StoreInv, OpenIndexed, BetweenOpenings
      <4> QED
        BY <2>3, <4>2, <4>3
    <3>2. DoneBelow'
      BY <1>1, <2>1, <2>3 DEF DoneInv, DoneBelow
    <3>3. DoneHeaders'
      BY <2>1, <2>3, <3>1 DEF DoneInv, DoneHeaders
    <3> QED
      BY <2>1, <2>3, <3>2, <3>3 DEF DoneInv, DoneOpen
  <2> QED
    BY <2>1, <2>2, <2>3
<1>7. CASE WriteSlice
  <2>1. UNCHANGED <<head, hdr, last, cur, opening, done, wpc, pending>> /\ wpc = "idle" /\ cur \notin done
    <3>1. UNCHANGED <<head, hdr, last, cur, opening, done, wpc, pending>> /\ wpc = "idle" /\ cur # UNDEFINED
          /\ info.slices < TotalSlices /\ TotalSlices \in Nat
      BY <1>7, DiscreteAssumption DEF WriteSlice, history
    <3>2. info.slices # TotalSlices
      BY <3>1 DEF FlowInv, TypeInv, WriterTyped, GrainInfo
    <3> QED
      BY <3>1, <3>2 DEF DoneInv, DoneOpen, BetweenOpenings
  <2> QED
    BY <2>1 DEF DoneInv, DoneBelow, DoneHeaders, DoneOpen
<1>8. ASSUME NEW b \in BOOLEAN, CommitGrain(b)
      PROVE  DoneInv'
  <2>1. UNCHANGED <<head, hdr, last, cur, opening, done>> /\ wpc = "idle" /\ wpc' = "commit"
        /\ info' = [info EXCEPT !.invalid = @ \/ b]
    BY <1>8 DEF CommitGrain, shared, history
  <2>2. info'.slices = info.slices
    BY <2>1 DEF FlowInv, TypeInv, WriterTyped, GrainInfo
  <2> QED
    BY <2>1, <2>2 DEF DoneInv, DoneBelow, DoneHeaders, DoneOpen, BetweenOpenings
<1>9. CASE AttachWriter \/ ReleaseWriter \/ WriterCrash \/ CancelGrain
  <2>1. /\ UNCHANGED <<head, hdr, done>> /\ cur' = UNDEFINED /\ last' \in {last, UNDEFINED} /\ wpc' # "reset"
    BY <1>9 DEF AttachWriter, ReleaseWriter, WriterCrash, Detach, CancelGrain, shared, history
  <2> QED
    BY <2>1 DEF DoneInv, DoneBelow, DoneHeaders, DoneOpen
<1>10. CASE WakeAll \/ (\E i \in 0..MaxIndex : OpenGrain(i))
  <2>1. /\ UNCHANGED <<head, hdr, done, cur, last, info>>
        /\ \/ wpc = "wake" /\ wpc' = "idle"
           \/ wpc' = "gap"
    BY <1>10 DEF WakeAll, OpenGrain, shared, history
  <2> QED
    BY <2>1 DEF DoneInv, DoneBelow, DoneHeaders, DoneOpen, BetweenOpenings
<1>11. CASE RemoveFlow \/ UNCHANGED vars \/ \E r \in Readers : ReaderNext(r)
  <2>1. UNCHANGED <<head, hdr, done, cur, last, info, wpc, pending, opening>>
    BY <1>11, ReaderNextFrame DEF RemoveFlow, vars, shared, writer, history
  <2> QED
    BY <2>1 DEF DoneInv, DoneBelow, DoneHeaders, DoneOpen, BetweenOpenings
<1> QED
  BY <1>2, <1>3, <1>4, <1>5, <1>6, <1>7, <1>8, <1>9, <1>10, <1>11 DEF Next, WriterNext, InCall

LEMMA DoneInvInit == Init => DoneInv
  BY DEF Init, DoneInv, DoneBelow, DoneHeaders, DoneOpen, BetweenOpenings

(* Payloads: the slices a header counts were written for its grain. A      *)
(* crash can leave a header whose slices are another grain's.              *)
HeaderFilled ==
    \A s \in Slots : ~Storing(s) => \A k \in 1..hdr[s].slices : body[s][k] = hdr[s].index

OpenFilled ==
    BetweenOpenings /\ cur # UNDEFINED => \A k \in 1..info.slices : body[SlotOf(cur)][k] = cur

FilledInv == HeaderFilled /\ OpenFilled

LEMMA FilledInvInit == Init => FilledInv
<1> SUFFICES ASSUME Init PROVE FilledInv
  OBVIOUS
<1>1. \A s \in Slots : hdr[s].slices = 0
  BY DEF Init, NewGrain
<1>2. 1..0 = {}
  OBVIOUS
<1> QED
  BY <1>1, <1>2 DEF Init, FilledInv, HeaderFilled, OpenFilled, BetweenOpenings

LEMMA FilledInvFrame ==
  ASSUME FilledInv, UNCHANGED <<hdr, body, pending, wpc, cur, info>>
  PROVE  FilledInv'
  BY DEF FilledInv, HeaderFilled, OpenFilled, BetweenOpenings, Storing

LEMMA FilledInvStore ==
  ASSUME FlowInv, FilledInv, StoreHeader
  PROVE  FilledInv'
<1>1. UNCHANGED <<body, wpc, cur, info, opening, last>>
  BY StoreHeaderIs DEF FlowInv
<1>2. PICK f \in Fields, s \in Slots :
        /\ <<f, s>> \in pending /\ pending' = pending \ {<<f, s>>}
        /\ wpc \in {"gap", "reset", "commit"}
        /\ hdr'[s][f] = NewHeader(s)[f]
        /\ \A t \in Slots, g \in Fields : <<g, t>> # <<f, s>> => hdr'[t][g] = hdr[t][g]
  BY StoreHeaderIs DEF FlowInv
<1>3. {"index", "slices"} \subseteq Fields
  BY DEF Fields
<1>4. StoreInv' /\ TypeInv
  BY StoreInvStore DEF FlowInv
<1>5. ASSUME NEW t \in Slots, t # s, ~Storing(t)'
      PROVE  \A k \in 1..hdr'[t].slices : body'[t][k] = hdr'[t].index
  <2>1. ~Storing(t) /\ hdr'[t].index = hdr[t].index /\ hdr'[t].slices = hdr[t].slices
    BY <1>2, <1>3, <1>5 DEF Storing
  <2> QED
    BY <1>1, <2>1 DEF FilledInv, HeaderFilled
<1>6. ASSUME ~Storing(s)'
      PROVE  \A k \in 1..hdr'[s].slices : body'[s][k] = hdr'[s].index
  <2>1. \A g \in Fields : <<g, s>> \notin pending'
    BY <1>6 DEF Storing
  <2>2. CASE wpc = "gap"
    <3>1. PICK m \in Missing(opening) : s = SlotOf(m)
      BY <1>2, <1>4, <2>2 DEF TypeInv, StoresTyped
    <3>2. Missing(opening)' = Missing(opening)
      BY <1>1 DEF Missing, InvalidatedCount
    <3>3. hdr'[s]["slices"] = MissingHeader(opening, s)'["slices"]
      BY <1>1, <1>3, <1>4, <2>1, <2>2, <3>1, <3>2 DEF StoreInv, GapStored
    <3>4. hdr'[s].slices = 0
      BY <3>3 DEF MissingHeader
    <3>5. 1..0 = {}
      OBVIOUS
    <3> QED
      BY <3>4, <3>5
  <2>3. CASE wpc = "reset"
    <3>1. s = SlotOf(opening) /\ NewHeader(s) = [index |-> opening, invalid |-> FALSE, slices |-> 0]
      BY <1>2, <1>4, <2>3 DEF FlowInv, StoreInv, PendingOfPhase, NewHeader
    <3>2. CASE f = "slices"
      BY <1>2, <3>1, <3>2
    <3>3. CASE f # "slices"
      <4>1. <<"slices", s>> \notin pending
        BY <1>2, <1>3, <2>1, <3>3
      <4>2. hdr[s].slices = 0
        BY <1>2, <2>3, <3>1, <4>1 DEF FlowInv, StoreInv, ResetStored
      <4> QED
        BY <1>2, <1>3, <3>3, <4>2
    <3> QED
      BY <3>2, <3>3
  <2>4. CASE wpc = "commit"
    <3>1. s = SlotOf(cur) /\ cur # UNDEFINED /\ BetweenOpenings
      BY <1>2, <2>4 DEF FlowInv, StoreInv, PendingOfPhase, CommitOrder, BetweenOpenings
    <3>2. hdr'[s]["slices"] = info["slices"] /\ hdr'[s]["index"] = info["index"]
      BY <1>1, <1>3, <1>4, <2>1, <2>4, <3>1 DEF StoreInv, CommitStored
    <3>3. info.index = cur
      BY <3>1 DEF FlowInv, StoreInv, OpenIndexed
    <3> QED
      BY <1>1, <3>1, <3>2, <3>3 DEF FilledInv, OpenFilled
  <2> QED
    BY <1>2, <2>2, <2>3, <2>4
<1>7. HeaderFilled'
  BY <1>5, <1>6 DEF HeaderFilled
<1>8. OpenFilled'
  BY <1>1 DEF FilledInv, OpenFilled, BetweenOpenings
<1> QED
  BY <1>7, <1>8 DEF FilledInv

LEMMA FilledInvSlice ==
  ASSUME FlowInv, FilledInv, WriteSlice
  PROVE  FilledInv'
<1>1. /\ UNCHANGED <<hdr, pending, wpc, cur>> /\ wpc = "idle" /\ cur # UNDEFINED /\ info.slices < TotalSlices
      /\ body' = [body EXCEPT ![SlotOf(cur)][info.slices + 1] = cur]
      /\ info' = [info EXCEPT !.slices = @ + 1]
  BY DEF WriteSlice
<1>2. /\ SlotOf(cur) \in Slots /\ hdr[SlotOf(cur)].index = cur /\ info.slices \in Nat /\ TotalSlices \in Nat
      /\ body \in [Slots -> [1..TotalSlices -> UNDEFINED..MaxIndex]]
      /\ \A s \in Slots : hdr[s].slices \in 0..TotalSlices
  <2>1. cur \in Nat /\ TotalSlices \in Nat
    BY <1>1, IndexTypes, DiscreteAssumption DEF FlowInv
  <2>2. hdr[SlotOf(cur)].index = cur
    BY <1>1 DEF FlowInv, StoreInv, OpenIndexed, BetweenOpenings
  <2>3. info.slices \in Nat
    BY <2>1 DEF FlowInv, TypeInv, WriterTyped, GrainInfo
  <2>4. ASSUME NEW s \in Slots PROVE hdr[s].slices \in 0..TotalSlices
    <3>1. hdr[s] \in GrainInfo
      BY DEF FlowInv, TypeInv, MemoryTyped
    <3> QED
      BY <3>1 DEF GrainInfo
  <2> QED
    BY <2>1, <2>2, <2>3, <2>4, SlotTyped DEF FlowInv, TypeInv, MemoryTyped
<1>3. ASSUME NEW k \in 1..TotalSlices
      PROVE  body'[SlotOf(cur)][k] = (IF k = info.slices + 1 THEN cur ELSE body[SlotOf(cur)][k])
  BY <1>1, <1>2
<1>4. \A t \in Slots : t # SlotOf(cur) => body'[t] = body[t]
  BY <1>1, <1>2
<1>5. HeaderFilled'
  <2> SUFFICES ASSUME NEW s \in Slots, ~Storing(s), NEW k \in 1..hdr[s].slices
               PROVE  body'[s][k] = hdr[s].index
    BY <1>1 DEF HeaderFilled, Storing
  <2>1. body[s][k] = hdr[s].index /\ k \in 1..TotalSlices
    BY <1>2 DEF FilledInv, HeaderFilled
  <2> QED
    BY <1>2, <1>3, <1>4, <2>1
<1>6. OpenFilled'
  <2>1. info'.slices = info.slices + 1
    BY <1>1 DEF FlowInv, TypeInv, WriterTyped, GrainInfo
  <2>2. ASSUME NEW k \in 1..info.slices + 1
        PROVE  body'[SlotOf(cur)][k] = cur
    <3>1. k \in 1..TotalSlices /\ (k # info.slices + 1 => k \in 1..info.slices)
      BY <1>1, <1>2
    <3>2. k \in 1..info.slices => body[SlotOf(cur)][k] = cur
      BY <1>1 DEF FilledInv, OpenFilled, BetweenOpenings
    <3> QED
      BY <1>3, <3>1, <3>2
  <2> QED
    BY <1>1, <2>1, <2>2 DEF OpenFilled
<1> QED
  BY <1>5, <1>6 DEF FilledInv

LEMMA FilledInvNext ==
  ASSUME MaxCrashes = 0, FlowInv, FilledInv, [Next]_vars
  PROVE  FilledInv'
<1> USE DEF FilledInv, HeaderFilled, OpenFilled, BetweenOpenings, Storing
<1>1. "head" \notin Fields
  BY DEF Fields
<1>2. CASE WriterCrash
  BY <1>2 DEF WriterCrash, FlowInv, TypeInv, WriterTyped
<1>3. CASE AttachWriter \/ ReleaseWriter
  <2>1. UNCHANGED <<hdr, body>> /\ cur' = UNDEFINED /\ pending = {}
    BY <1>3 DEF AttachWriter, ReleaseWriter, Detach, shared, FlowInv, StoreInv, PendingOfPhase
  <2> QED
    BY <2>1
<1>4. CASE GapMarked \/ \E i \in 0..MaxIndex : OpenGrain(i)
  <2>1. UNCHANGED <<hdr, body>> /\ pending = {} /\ wpc' \in {"gap", "reset"}
    BY <1>4 DEF GapMarked, OpenGrain, shared, FlowInv, StoreInv, PendingOfPhase
  <2> QED
    BY <2>1
<1>5. CASE GrainOpened
  <2>1. UNCHANGED <<hdr, body>> /\ pending = {} /\ cur' = opening /\ info' = hdr[SlotOf(opening)] /\ wpc = "reset"
        /\ opening \in 0..MaxIndex
    BY <1>5 DEF GrainOpened, shared, FlowInv, TypeInv, StoresTyped
  <2>2. SlotOf(opening) \in Slots /\ hdr[SlotOf(opening)].index = opening
    BY <2>1, SlotTyped, DiscreteAssumption DEF FlowInv, StoreInv, ResetStored
  <2> QED
    BY <2>1, <2>2
<1>6. ASSUME NEW b \in BOOLEAN, CommitGrain(b)
      PROVE  FilledInv'
  <2>1. UNCHANGED <<hdr, body, cur>> /\ wpc = "idle" /\ pending = {}
        /\ info' = [info EXCEPT !.invalid = @ \/ b]
    BY <1>6 DEF CommitGrain, shared, FlowInv, StoreInv, PendingOfPhase
  <2>2. info'.slices = info.slices
    BY <2>1 DEF FlowInv, TypeInv, WriterTyped, GrainInfo
  <2> QED
    BY <2>1, <2>2
<1>7. CASE StoreHead
  <2>1. UNCHANGED <<hdr, body, cur, info, wpc>> /\ pending' = pending \ {<<"head", SlotOf(cur)>>}
    BY <1>7 DEF StoreHead
  <2> QED
    BY <1>1, <2>1
<1>8. CASE CancelGrain \/ BumpSync \/ WakeAll
  <2>1. /\ UNCHANGED <<hdr, body, pending>> /\ wpc \in {"idle", "commit", "wake"}
        /\ cur' = UNDEFINED \/ UNCHANGED <<cur, info>>
    BY <1>8 DEF CancelGrain, BumpSync, WakeAll, shared
  <2> QED
    BY <2>1
<1>9. CASE RemoveFlow \/ UNCHANGED vars \/ \E r \in Readers : ReaderNext(r)
  <2>1. UNCHANGED <<hdr, body, pending, wpc, cur, info>>
    BY <1>9, ReaderNextFrame DEF RemoveFlow, vars, shared, writer
  <2> QED
    BY <2>1
<1> QED
  BY <1>2, <1>3, <1>4, <1>5, <1>6, <1>7, <1>8, <1>9, FilledInvStore, FilledInvSlice DEF Next, WriterNext, InCall

(* The header of a complete grain is kept for as long as readers may be    *)
(* using it, also when writers crash in the middle of their stores.        *)
THEOREM CompleteHeadersStay ==
  ASSUME MaxSkip = 0, MaxBack = 0
  PROVE  Spec => []DoneHeaders
<1>1. Steady
  BY DEF Steady
<1>2. Init => FlowInv /\ NearHead /\ DoneInv
  BY FlowInvInit, NearHeadInit, DoneInvInit
<1>3. FlowInv /\ NearHead /\ DoneInv /\ [Next]_vars => FlowInv' /\ NearHead' /\ DoneInv'
  BY <1>1, FlowInvNext, NearHeadNext, DoneInvNext
<1>4. DoneInv => DoneHeaders
  BY DEF DoneInv
<1> QED
  BY <1>2, <1>3, <1>4, PTL DEF Spec

(* Complete grains stay as they were committed, header and payload, for as *)
(* long as readers may be using them in place: neither openings nor        *)
(* cancellations nor further commits touch them.                           *)
THEOREM CompleteGrainsStay ==
  ASSUME MaxSkip = 0, MaxBack = 0, MaxCrashes = 0
  PROVE  Spec => []GrainsRetained
<1>1. Steady
  BY DEF Steady
<1>2. Init => FlowInv /\ NearHead /\ DoneInv /\ FilledInv
  BY FlowInvInit, NearHeadInit, DoneInvInit, FilledInvInit
<1>3. FlowInv /\ NearHead /\ DoneInv /\ FilledInv /\ [Next]_vars => FlowInv' /\ NearHead' /\ DoneInv' /\ FilledInv'
  BY <1>1, FlowInvNext, NearHeadNext, DoneInvNext, FilledInvNext
<1>4. FlowInv /\ NearHead /\ DoneInv /\ FilledInv => GrainsRetained
  <2> SUFFICES ASSUME FlowInv, NearHead, DoneInv, FilledInv,
                      NEW i \in done, i \in Window(head), ~Unreserved(head, i)
               PROVE  /\ hdr[SlotOf(i)].index = i /\ hdr[SlotOf(i)].slices = TotalSlices
                      /\ \A k \in 1..TotalSlices : body[SlotOf(i)][k] = i
    BY DEF GrainsRetained
  <2>1. hdr[SlotOf(i)].index = i /\ hdr[SlotOf(i)].slices = TotalSlices
    BY DEF DoneInv, DoneHeaders
  <2>2. i \in Nat /\ SlotOf(i) \in Slots
    BY SlotTyped DEF FlowInv, TypeInv, WriterTyped
  <2>3. CASE Storing(SlotOf(i))
    <3>1. wpc = "commit" /\ cur = i /\ info.slices = TotalSlices
      BY <1>1, <2>3, StoringDone DEF Storing
    <3> QED
      BY <2>1, <2>2, <3>1 DEF FilledInv, OpenFilled, BetweenOpenings, FlowInv, CommitOrder
  <2>4. CASE ~Storing(SlotOf(i))
    BY <2>1, <2>2, <2>4 DEF FilledInv, HeaderFilled
  <2> QED
    BY <2>1, <2>3, <2>4
<1> QED
  BY <1>2, <1>3, <1>4, PTL DEF Spec

=============================================================================
