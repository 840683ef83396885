--------------------------- MODULE ContinuousFlow ---------------------------
(***************************************************************************)
(* A continuous (audio) flow: one producer, any number of readers, a ring  *)
(* of samples per channel in shared memory.                                *)
(*                                                                         *)
(*   PosixContinuousFlowWriter   openSamples, commit with the clearing of  *)
(*                               gaps and the batching of notifications,   *)
(*                               cancel                                    *)
(*   PosixContinuousFlowReader   getSamples and waitForSamples             *)
(*                                                                         *)
(* All channels are treated alike, so one of them is modelled.  Sample n   *)
(* lives at offset n % BufferLength; a range "count samples up to index"   *)
(* holds the samples index - count .. index - 1.                           *)
(***************************************************************************)
EXTENDS Integers, FiniteSets

CONSTANTS
    Readers,        \* the reader objects attached to the flow
    BufferLength,   \* samples of the ring
    Counts,         \* the range lengths the producer uses
    ReadCounts,     \* the range lengths readers use
    SyncBatchSize,  \* config.common.maxSyncBatchSizeHint
    CommitBatchSize,\* config.common.maxCommitBatchSizeHint
    SizeBits,       \* width of std::size_t
    MaxIndex,       \* bound on the sample indexes
    MaxSkip,        \* how many samples the producer may skip at a time
    MaxRestarts     \* bound on the number of times the writer goes away

ASSUME ContinuousAssumption ==
    /\ BufferLength \in Nat /\ BufferLength >= 2
    /\ Counts \subseteq Nat /\ ReadCounts \subseteq Nat
    /\ SyncBatchSize \in Nat /\ SyncBatchSize >= 1
    /\ CommitBatchSize \in Nat /\ CommitBatchSize >= 1
    /\ SizeBits \in Nat /\ 2^SizeBits \in Nat /\ 2^SizeBits > 2 * BufferLength
    /\ {MaxIndex, MaxSkip, MaxRestarts} \subseteq Nat

UNDEFINED   == -1               \* MXL_UNDEFINED_INDEX
Cleared     == -1               \* what a cleared sample holds
Offsets     == 0 .. BufferLength - 1
OffsetOf(n) == n % BufferLength
Half        == BufferLength \div 2
MinOf(a, b) == IF a <= b THEN a ELSE b

VARIABLES
    head,       \* shared: runtime.headIndex
    buf,        \* shared: offset -> number of the sample it holds
    sync,       \* shared: state.syncCounter
    valid,      \* the flow's data file still has the inode that is mapped
    wpc,        \* writer: "down", "idle" (between calls), or where it is in commit
    cur,        \* writer: _currentIndex
    count,      \* writer: _currentCount
    written,    \* writer: samples of the open range the producer has filled
    pending,    \* writer: offsets commit has yet to clear
    last,       \* writer: _lastCommittedIndex
    batch,      \* writer: _lastSyncSampleBatch
    restarts,   \* times the writer has gone away
    rpc,        \* reader: "idle" (outside), or where it is in getSamples
    want,       \* reader: index
    rcount,     \* reader: count
    prev,       \* reader: previousSyncCounter
    seen,       \* reader: the headIndex that let it read
    frag,       \* reader: the two fragments returned, as <<start, first, second>>
    status,     \* reader: what the last call returned
    base,       \* history: first sample this writer has committed
    from        \* history: first sample of the last range committed

shared  == <<head, buf, sync, valid>>
writer  == <<wpc, cur, count, written, pending, last, batch, restarts>>
readers == <<rpc, want, rcount, prev, seen, frag, status>>
history == <<base, from>>
vars    == <<shared, writer, readers, history>>

Init ==
    /\ head = 0 /\ sync = 0 /\ valid = TRUE
    /\ buf = [o \in Offsets |-> Cleared]
    /\ wpc = "down" /\ cur = UNDEFINED /\ count = 0 /\ written = 0
    /\ pending = {} /\ last = UNDEFINED /\ batch = 0 /\ restarts = 0
    /\ rpc = [r \in Readers |-> "idle"]
    /\ want = [r \in Readers |-> 0]
    /\ rcount = [r \in Readers |-> 0]
    /\ prev = [r \in Readers |-> 0]
    /\ seen = [r \in Readers |-> 0]
    /\ frag = [r \in Readers |-> <<0, 0, 0>>]
    /\ status = [r \in Readers |-> "none"]
    /\ base = UNDEFINED /\ from = 0

-----------------------------------------------------------------------------
(* The range of n samples up to i in the ring: where it starts, how much   *)
(* of it lies before the end of the ring, how much wraps around.           *)
FirstLength_NoWrap(i, n) == n

FirstLength(i, n) ==
    LET start == OffsetOf(i + BufferLength - n)
    IN  IF start < OffsetOf(i) THEN n ELSE BufferLength - start

Fragments(i, n) ==
    <<OffsetOf(i + BufferLength - n),
      FirstLength(i, n),
      (n - FirstLength(i, n)) % 2^SizeBits>>

(* The offsets two fragments cover.                                        *)
Covered(f) == (f[1] .. f[1] + f[2] - 1) \cup (0 .. f[3] - 1)

-----------------------------------------------------------------------------
(* The writer.                                                             *)

EarlySyncThreshold ==
    IF SyncBatchSize >= CommitBatchSize THEN SyncBatchSize - CommitBatchSize ELSE 0

AttachWriter ==
    /\ wpc = "down" /\ valid
    /\ wpc' = "idle"
    /\ UNCHANGED <<shared, cur, count, written, pending, last, batch, restarts, readers, history>>

(* A range may be as long as half of the ring, and neither end before what *)
(* this writer has committed.                                              *)
OpenAccepted(i, n) ==
    /\ n <= Half
    /\ i >= n
    /\ last # UNDEFINED => i > last /\ i - n >= last

(* The producer works forward from the head.                               *)
ProducerOpens(i, n) == i \in 0..MaxIndex /\ i - n >= head /\ i - n <= head + MaxSkip

OpenSamples(i, n) ==
    /\ wpc = "idle"
    /\ ProducerOpens(i, n)
    /\ OpenAccepted(i, n)
    /\ cur' = i /\ count' = n /\ written' = 0
    /\ UNCHANGED <<shared, wpc, pending, last, batch, restarts, readers, history>>

(* The producer fills the open range in place, sample by sample.           *)
WriteSample ==
    /\ wpc = "idle" /\ cur # UNDEFINED /\ written < count
    /\ buf' = [buf EXCEPT ![OffsetOf(cur - count + written)] = cur - count + written]
    /\ written' = written + 1
    /\ UNCHANGED <<head, sync, valid, wpc, cur, count, pending, last, batch, restarts, readers, history>>

CancelSamples ==
    /\ wpc = "idle" /\ cur # UNDEFINED
    /\ cur' = UNDEFINED /\ count' = 0 /\ written' = 0
    /\ UNCHANGED <<shared, wpc, pending, last, batch, restarts, readers, history>>

(* Skipped samples that still have a place in the ring outside the range.  *)
ClearedCount == MinOf(cur - count - last, BufferLength - count)

(* The offsets commit() clears: the samples skipped since the last commit. *)
SkippedOffsets ==
    IF last # UNDEFINED /\ cur - count > last
    THEN Covered(Fragments(cur - count, ClearedCount))
    ELSE {}

CommitSamples ==
    /\ wpc = "idle" /\ cur # UNDEFINED /\ written = count
    /\ pending' = SkippedOffsets
    /\ wpc' = "clear"
    /\ UNCHANGED <<shared, cur, count, written, last, batch, restarts, readers, history>>

(* memset, one sample at a time and in any order.                          *)
ClearSample ==
    \E o \in pending :
        /\ wpc = "clear"
        /\ buf' = [buf EXCEPT ![o] = Cleared]
        /\ pending' = pending \ {o}
        /\ UNCHANGED <<head, sync, valid, wpc, cur, count, written, last, batch, restarts, readers, history>>

StoreHead ==
    /\ wpc = "clear" /\ pending = {}
    /\ head' = cur
    /\ last' = cur
    /\ from' = cur - count
    /\ base' = IF base = UNDEFINED THEN cur - count ELSE base
    /\ cur' = UNDEFINED /\ count' = 0 /\ written' = 0
    /\ wpc' = "signal"
    /\ UNCHANGED <<buf, sync, valid, pending, batch, restarts, readers>>

(* signalCompletedBatch: the batch the head has reached is announced once, *)
(* and early if the next commit could go beyond it.                        *)
HeadBatch == head \div SyncBatchSize

EarlySignal == HeadBatch = batch /\ head % SyncBatchSize > EarlySyncThreshold

AnnouncedBatch_OneAhead == HeadBatch + 1

AnnouncedBatch == IF HeadBatch > batch THEN HeadBatch ELSE HeadBatch + 1

SignalBatch ==
    /\ wpc = "signal"
    /\ \/ /\ HeadBatch > batch \/ EarlySignal
          /\ batch' = AnnouncedBatch
          /\ wpc' = "sync"
       \/ /\ ~(HeadBatch > batch \/ EarlySignal)
          /\ wpc' = "idle"
          /\ UNCHANGED batch
    /\ UNCHANGED <<shared, cur, count, written, pending, last, restarts, readers, history>>

BumpSync ==
    /\ wpc = "sync"
    /\ sync' = sync + 1
    /\ wpc' = "wake"
    /\ UNCHANGED <<head, buf, valid, cur, count, written, pending, last, batch, restarts, readers, history>>

WakeAll ==
    /\ wpc = "wake"
    /\ wpc' = "idle"
    /\ rpc' = [r \in Readers |-> IF rpc[r] = "asleep" THEN "early" ELSE rpc[r]]
    /\ UNCHANGED <<shared, cur, count, written, pending, last, batch, restarts, want, rcount, prev, seen, frag, status, history>>

(* The writer is released or its process dies.                             *)
WriterGone ==
    /\ wpc # "down" /\ restarts < MaxRestarts
    /\ wpc' = "down"
    /\ restarts' = restarts + 1
    /\ cur' = UNDEFINED /\ count' = 0 /\ written' = 0 /\ pending' = {}
    /\ last' = UNDEFINED /\ batch' = 0 /\ base' = UNDEFINED
    /\ UNCHANGED <<shared, readers, from>>

RemoveFlow ==
    /\ valid
    /\ valid' = FALSE
    /\ UNCHANGED <<head, buf, sync, writer, readers, history>>

-----------------------------------------------------------------------------
(* A reader.                                                               *)
Goto(r, pc) == rpc' = [rpc EXCEPT ![r] = pc]

(* Of a call's arguments and locals only those of a successful one are     *)
(* remembered.                                                             *)
Return(r, result) ==
    /\ Goto(r, "idle")
    /\ status' = [status EXCEPT ![r] = result]
    /\ prev' = [prev EXCEPT ![r] = 0]
    /\ want' = [want EXCEPT ![r] = IF result = "OK" THEN @ ELSE 0]
    /\ rcount' = [rcount EXCEPT ![r] = IF result = "OK" THEN @ ELSE 0]

GetSamples(r, i, n) ==
    /\ rpc[r] = "idle"
    /\ Goto(r, "sync")
    /\ want' = [want EXCEPT ![r] = i]
    /\ rcount' = [rcount EXCEPT ![r] = n]
    /\ status' = [status EXCEPT ![r] = "none"]
    /\ seen' = [seen EXCEPT ![r] = 0]
    /\ frag' = [frag EXCEPT ![r] = <<0, 0, 0>>]
    /\ UNCHANGED <<shared, writer, prev, history>>

LoadSync(r) ==
    /\ rpc[r] = "sync"
    /\ prev' = [prev EXCEPT ![r] = sync]
    /\ Goto(r, "head")
    /\ UNCHANGED <<shared, writer, want, rcount, seen, frag, status, history>>

MinIndex_NoReserve(h) == IF h >= BufferLength THEN h - BufferLength ELSE 0

(* Readers have the half of the ring before the head.                      *)
MinIndex(h) == IF h >= Half THEN h - Half ELSE 0

Readable(h, i, n) == i <= h /\ i >= MinIndex(h) /\ i - MinIndex(h) >= n

LoadHead(r) ==
    /\ rpc[r] = "head"
    /\ \/ /\ want[r] > head
          /\ Goto(r, "early")
          /\ UNCHANGED <<want, rcount, prev, seen, frag, status>>
       \/ /\ Readable(head, want[r], rcount[r])
          /\ seen' = [seen EXCEPT ![r] = head]
          /\ frag' = [frag EXCEPT ![r] = Fragments(want[r], rcount[r])]
          /\ Return(r, "OK")
       \/ /\ want[r] <= head /\ ~Readable(head, want[r], rcount[r])
          /\ Return(r, "TOO_LATE")
          /\ UNCHANGED <<seen, frag>>
    /\ UNCHANGED <<shared, writer, history>>

Wait(r) ==
    /\ rpc[r] = "early"
    /\ Goto(r, IF sync # prev[r] THEN "sync" ELSE "asleep")
    /\ UNCHANGED <<shared, writer, want, rcount, prev, seen, frag, status, history>>

(* The deadline passes, or the call was the one that does not block.       *)
Deadline(r) ==
    /\ rpc[r] \in {"early", "asleep"}
    /\ Return(r, IF valid THEN "TOO_EARLY" ELSE "FLOW_INVALID")
    /\ UNCHANGED <<shared, writer, seen, frag, history>>

Interrupted(r) ==
    /\ rpc[r] = "asleep"
    /\ Goto(r, "early")
    /\ UNCHANGED <<shared, writer, want, rcount, prev, seen, frag, status, history>>

-----------------------------------------------------------------------------
InCommit == ClearSample \/ StoreHead \/ SignalBatch \/ BumpSync \/ WakeAll

WriterNext ==
    \/ AttachWriter \/ WriteSample \/ CancelSamples \/ CommitSamples \/ InCommit \/ WriterGone
    \/ \E i \in 0..MaxIndex, n \in Counts : OpenSamples(i, n)

ReaderStep(r) == LoadSync(r) \/ LoadHead(r) \/ Wait(r)

ReaderNext(r) ==
    \/ ReaderStep(r) \/ Deadline(r) \/ Interrupted(r)
    \/ \E i \in 0..MaxIndex, n \in ReadCounts : GetSamples(r, i, n)

Next == WriterNext \/ RemoveFlow \/ \E r \in Readers : ReaderNext(r)

Spec == Init /\ [][Next]_vars

(* A thread inside a library call keeps running.                           *)
FairSpec == Spec /\ WF_vars(InCommit) /\ \A r \in Readers : WF_vars(ReaderStep(r))

-----------------------------------------------------------------------------
Word == 0 .. 2^SizeBits - 1

(* Every variable keeps the type of the field it stands for.               *)
TypeOK ==
    /\ head \in 0..MaxIndex /\ sync \in Nat /\ valid \in BOOLEAN
    /\ buf \in [Offsets -> Cleared..MaxIndex]
    /\ wpc \in {"down", "idle", "clear", "signal", "sync", "wake"}
    /\ {cur, last, base} \subseteq UNDEFINED..MaxIndex
    /\ count \in 0..Half /\ written \in 0..count
    /\ pending \subseteq Offsets
    /\ batch \in Nat /\ restarts \in 0..MaxRestarts
    /\ rpc \in [Readers -> {"idle", "sync", "head", "early", "asleep"}]
    /\ want \in [Readers -> 0..MaxIndex]
    /\ rcount \in [Readers -> ReadCounts \cup {0}]
    /\ prev \in [Readers -> Nat]
    /\ seen \in [Readers -> 0..MaxIndex]
    /\ frag \in [Readers -> Offsets \X Word \X Word]
    /\ status \in [Readers -> {"none", "OK", "TOO_LATE", "TOO_EARLY", "FLOW_INVALID"}]
    /\ from \in 0..MaxIndex

(* The samples a reader has been given stay in place for as long as the    *)
(* head does: however far the producer, which skips nothing, is with the   *)
(* next range, it works in the other half of the ring.                     *)
Given(r) == {want[r] - k : k \in 1..rcount[r]}

ReadRangeIntact ==
    \A r \in Readers :
        status[r] = "OK" /\ head = seen[r] =>
            \A n \in Given(r) : base # UNDEFINED /\ n >= base => buf[OffsetOf(n)] = n

(* They are not even cleared, as long as the producer skips no more than   *)
(* what an odd ring has between its halves.                                *)
GivenSamplesUntouched ==
    [][\A r \in Readers :
        status[r] = "OK" /\ head = seen[r] =>
            \A n \in Given(r) : buf'[OffsetOf(n)] = buf[OffsetOf(n)]]_vars

(* The two fragments handed to a reader cover the range it asked for, with *)
(* at least one sample: for an empty range the second one underflows.      *)
FragmentsFit ==
    \A r \in Readers :
        status[r] = "OK" /\ rcount[r] > 0 =>
            /\ frag[r][2] + frag[r][3] = rcount[r]
            /\ Covered(frag[r]) = {OffsetOf(n) : n \in Given(r)}

(* What the producer skips after its first commit never reads as samples   *)
(* of an earlier turn of the ring.                                         *)
NoStaleSamples ==
    base # UNDEFINED /\ wpc # "clear" =>
        \A n \in MinIndex(head) .. head - 1 : n >= base => buf[OffsetOf(n)] \notin 0 .. n - 1

(* Clearing what was skipped spares the range it is committed with, also   *)
(* where the gap is longer than the ring.                                  *)
LastRangeKept ==
    wpc \in {"signal", "sync", "wake"} => \A n \in from .. head - 1 : buf[OffsetOf(n)] = n

(* A reader that waits for samples which lie a sync batch or more behind   *)
(* the head gets out of getSamples without its deadline's help, although   *)
(* not every commit notifies it.                                           *)
WaitingReaderReturns ==
    \A r \in Readers :
        (rpc[r] # "idle" /\ want[r] + SyncBatchSize <= head + 1)
            ~> (rpc[r] = "idle" \/ restarts > 0)

=============================================================================
