# A TLA+ development for MXL

MXL exchanges media between processes of a host through shared memory. A
*domain* is a directory; a *flow* is a sub-directory with a memory-mapped data
file and a ring of grains, samples or events. One producer writes a flow, any
number of readers map it read-only, and nothing but the shared words, a futex
and advisory file locks coordinates them. The *fabrics* library carries grains
and samples of a flow to another host by remote memory writes. This directory
holds TLA+ modules of that coordination, the TLC configurations that check
them and TLAPS proofs.

Paths below are relative to `src/`; "internal" is `src/lib/internal/src/`,
"ofi" is `src/lib/fabrics/ofi/src/internal/`.

## 1. The system

### 1.1 Components, their state and their operations

| Component | State | Operations | Module |
|---|---|---|---|
| Event ring buffer (`EventRingBuffer.hpp`) | per slot a sequence tag, a metadata pair, payload words | `publish`, `read`, `reset` | `EventRing` |
| Event flow writer and reader (`PosixEventFlow*.cpp`) | `headIndex`, `syncCounter`; `_isOpen`, last timestamp; reader cursor `_nextIndex` | `openEvent`, `commit`, `cancel`, recovery in the constructor; `getEvent` | `EventRing` |
| Discrete flow writer and reader (`PosixDiscreteFlow*.cpp`) | grain headers and payloads, `headIndex`, `syncCounter`; `_currentIndex`, `_lastCommittedIndex` | `openGrain`, `commit`, `cancel`; `getGrain`, `waitForGrain` | `DiscreteFlow` |
| Continuous flow writer and reader (`PosixContinuousFlow*.cpp`) | a sample ring per channel, `headIndex`, `syncCounter`; current range, last committed index, last announced batch | `openSamples`, `commit`, `cancel`; `getSamples`, `waitForSamples` | `ContinuousFlow` |
| Futex (`Sync.cpp`) | the 32-bit `syncCounter` of a flow and the threads asleep on it | `waitUntilChanged`, `wakeAll`, `wakeOne` (unused) | steps of the three flow modules |
| Flow manager (`FlowManager.cpp`) | the flow directories of a domain | `createOrOpen...Flow` (prepare, then rename), `openFlow`, `deleteFlow`, `listFlows`, `getFlowDef` | `FlowLifecycle` |
| Shared memory (`SharedMemory.cpp`) | an open file and the advisory lock on it | open with lock, `makeExclusive`, close | `FlowLifecycle` |
| Instance (`Instance.cpp`) | reference-counted readers and writers by flow id, a mutex, synchronization groups | `createFlowWriter`, `getFlowReader`, `release...`, `garbageCollect`, `~Instance` | `FlowLifecycle`, `FlowSynchronizationGroup` |
| Synchronization groups (`FlowSynchronizationGroup.cpp`) | a list of readers with the source delay each was last seen to have | add, remove, wait for data at a timestamp (with re-sorting) | `FlowSynchronizationGroup` |
| Domain watcher (`DomainWatcher.cpp`) | inotify watches shared by the writers of a flow, a thread on epoll | add, remove, process events, stop | `DomainWatcher` |
| Index and time conversion (`IndexConversion.hpp`, `time.cpp`) | none | index to timestamp and back with 128-bit products and rounding | `IndexConversion` |
| Fabrics, connected (`RCInitiator.cpp`, `RCTarget.cpp`) | per target an endpoint state machine and a write counter; completion and event queues; a listener | add, remove, transfer, `makeProgress`, `readNext` | `RCInitiator`, `RCTarget`, `RCConnection` |
| Fabrics, connectionless (`RDMInitiator.cpp`, `RDMTarget.cpp`) | per target a token, a state and a write counter | the same | `RDMTransfer` |
| Fabrics transfer protocol (`Protocol*RMA.cpp`, `AudioBounceBuffer.cpp`, `ImmData.cpp`, `Endpoint::writeImpl`) | bounce buffer entries, headers, `_pending` | grain and sample transfer, reception | `GrainProtocol`, `SampleProtocol` |
| C API (`lib/src/*.cpp`) | none | argument checks, exceptions to status codes | the group functions only |
| Flow definition and options (`FlowParser.cpp`, `FlowOptionsParser.cpp`, `MediaUtils.cpp`) | none | JSON to ring geometry and batch hints | not modelled |
| GStreamer elements (`rust/gst-mxl-rs`) | per element a streaming thread, a reader or writer and the next index; per pipeline a clock offset its elements share | `start`, `set_caps`, `render`; `create`, `unlock`; clock changes | `MxlElements` |
| GStreamer tools (`tools/mxl-gst`) | per source the next index it expects; per sink a cursor, a reader and the timestamp offset its pipelines share | the loops of `mxl-gst-testsrc`, `mxl-gst-looping-filesrc` and `mxl-gst-sink` | `GstTools` |
| Rust bindings, other tools, utilities | - | clients of the C API | not modelled (the fabrics demo as the application of `RDMTransfer`, the Rust time conversion with `IndexConversion`) |

### 1.2 How they interact

* Writer and readers of a flow share `headIndex`, the ring and `syncCounter`.
  The writer stores the entry, then the head, then bumps `syncCounter` and
  calls `FUTEX_WAKE`. A reader remembers `syncCounter` *before* it looks at the
  head and sleeps only while the counter still has that value.
* Every writer holds a shared lock on the data file; readers hold none. The
  release of a writer asks for the exclusive lock to learn whether it is the
  last and may delete the flow; the collector asks for it to learn whether a
  flow is abandoned.
* A flow that was removed stays mapped. Readers and the futex loop notice only
  through the inode of the data file (`FLOW_INVALID`).
* `Instance::_mutex` serialises the calls of one instance except
  `garbageCollect` and everything about groups; nothing serialises processes
  but the locks and the atomicity of `rename`, `unlink` and `rmdir`.
* A group walks its list of readers and reorders it while it walks. It holds
  pointers to readers the instance owns; the instance removes a reader from
  every group before it destroys it.
* The domain watcher learns from inotify that readers touched the access file
  of a flow, and stores the time in the mapped data file. Its one mutex is
  taken by the callers and by the thread for a whole batch of events.
* A fabrics initiator is driven by one thread; the target by another, on
  another host. Between them only the fabric acts: it connects, carries writes
  out, queues completions and events, and breaks connections at any moment.
  The target learns of a transfer through 32 bits of immediate data and reads
  the rest from the memory the writes went to.
* The GStreamer elements of one pipeline share one offset between MXL time and
  the pipeline's clock; whoever needs it first samples it, and a change of the
  clock drops it. Sinks turn timestamps into indexes with it, sources turn
  indexes into timestamps.
* The GStreamer tools meet only in the flow: source and sink go by the same
  clock, the one to write a buffer when its index is due, the other to ask for
  what is a read delay old. The pipelines of one sink raise a common offset of
  their timestamps by compare-and-exchange.

### 1.3 What is hard

Word-level races between one writer and many readers; plain (unordered)
accesses to grain headers; a producer that dies at any store and is replaced;
wakeups that may be lost between a check and a sleep; rings at their first lap
and at a jump of more than a lap; batched notification; the directory
life cycle, where every look by path may see another generation of the flow;
a list that is spliced during its traversal; kernel watches that outlive what
they were for; asynchronous completions that arrive for endpoints, targets and
buffers that have been given up or are used again; two pipelines on two clocks
with a reader that falls behind, is paused and may be lapped between two looks;
sources whose upstream loses buffers or jumps in time.
`PROJECT.json` lists the hazards with their lines and the properties that
cover them.

### 1.4 What makes each component correct

* Event flows: a reader gets exactly the published events in order, or is told
  it was too late; no crash loses a completed event, blocks the next writer, or
  leaves a reader asleep for ever.
* Discrete flows: a reader gets the grain it asked for although it never looks
  twice; a complete grain stays as it is while readers may use it; a skipped
  grain never passes for an older one; waits end.
* Continuous flows: the fragments are exactly the range; the producer stays
  out of the readers' half; gaps are cleared and nothing else is; no complete
  batch is left unannounced.
* Life cycle: after the last release the flow is gone, unless a call that was
  then refused had it locked; what that or a dead producer left is collected; a flow in use is not deleted.
* Groups: a wait that succeeds leaves no flow behind, each at its own rate;
  reordering loses nobody; no reader is used after its release.
* Watcher: no watch outlives its last writer, none is removed under another
  one; a read reaches the flow it was of; the thread ends.
* Conversion: index and timestamp are inverse, and monotone.
* Fabrics: the counters of writes are exact, so that "ready" means that
  nothing is under way; removals end; a target told of a shutdown listens
  again; what a target reports has arrived, in every plane and channel.
* GStreamer elements: streams keep their distance in time and leave in the
  running time of their pipeline; a discontinuity is flagged; `create()` ends
  when the source is unlocked.
* GStreamer tools: what is shown is what was produced for that time, in order;
  a source is in step again after a gap; a sink finds the flow that replaces
  the one it had.

## 2. The plan

Order: most important shared protocol first, then what opens and closes it,
then what is built on it. All of it is modelled:

1. `EventLog`, `EventRing`, `EventRing_proofs`
2. `DiscreteFlow`, `DiscreteFlow_proofs`
3. `ContinuousFlow`, `ContinuousFlow_proofs`
4. `FlowLifecycle`, `FlowLifecycle_proofs`
5. `IndexConversion`, `FlowSynchronizationGroup` (composes flows of different
   rates, each reduced to its head and slices),
   `FlowSynchronizationGroup_proofs` (about both)
6. `DomainWatcher`, `DomainWatcher_proofs`
7. `RCInitiator`, `RCTarget` and their composition with the fabric,
   `RCConnection`, `RCConnection_proofs`
8. `GrainProtocol`, `SampleProtocol` and their composition with the
   connectionless initiator, the fabric and the targets, `RDMTransfer`,
   `RDMTransfer_proofs`
9. `MxlElements`: a pipeline of sinks and one of sources on flows reduced to
   their rings and heads
10. `GstTools`: a source and a sink of the command line on a flow and its
    successors

Left to prove: the safety properties of `MxlElements` and `GstTools`.

`FlowLifecycle` and the flow modules are composed only through `valid`: the
flow modules let the flow be removed at any moment, which is what the
life cycle permits.

## 3. The modules

Each action is a step between two points where another process may act; the
`pc` variables name these points. `PROJECT.json` maps every definition to its
lines.

**EventLog** (abstract): a growing log in timestamp order, a cursor per
reader; a reader gets the next entry or loses entries no longer retained.

**EventRing**: tags, metadata words and payload words as separate shared
variables, each store and load a step. `publish` is `MarkWriting` (tag
`2*index`), `StoreTimestamp`, `StoreSize`, `StoreWord`*, `StoreCompleteTag`
(tag `2*index+1`), then `StoreHead`, `BumpSync`, `WakeAll`. The constructor's
recovery is the single action `RecoverWriter`: a writer is alone and only the
head, one counter bump and a notification are visible of it; its guard
`RecoveryAccepts` is the negation of the exceptions it throws.
`getEvent` is `LoadSync`, `CheckOldest`, `LoadTag`, `LoadTimestamp`,
`LoadSize`, `LoadWord`*, `RecheckTag`, and `SkipOverwritten`, `CheckValid`,
`Wait`, `Deadline`, `Interrupted`. `log` is a history variable.

**DiscreteFlow**: a header is three fields (index, invalid flag, valid slices).
Headers and head are plain memory, so the stores made between two opaque calls
are a set `pending` performed in any order, and readers copy a header field by
field. `openGrain` is `OpenGrain` (gap marking), `GapMarked` (reset of the
slot), `GrainOpened`; `commit` is `CommitGrain`, `StoreHead`, `BumpSync`,
`WakeAll`. A payload slice holds the index of the grain it belongs to.

**ContinuousFlow**: one channel; a sample holds its own number. `commit` is
`CommitSamples`, `ClearSample`*, `StoreHead`, `SignalBatch`, `BumpSync`,
`WakeAll`. The fragment lengths are computed in `SizeBits`-bit arithmetic, as
in `std::size_t`; reads of no samples are among the inputs.

**FlowLifecycle**: the flow of one id, its successive directories numbered.
A directory holds the data file and "the rings", one part. Creating, opening,
locking, releasing, probing and `remove_all` are cut at every file-system
call. `remove_all` descends by the handle of the directory it opened; `rmdir`
goes by name.

**IndexConversion**: the two conversions and their rounding, on rational rates.
The same arithmetic serves `IndexConversion.hpp`, the C API and the Rust code;
`TimeUntilIndex` is given for completeness and used by no other module.

**FlowSynchronizationGroup**: the list of a group is a sequence; the iterators
of the walk are the reader they point at, or `BeforeBegin`/`End`. `CheckHead`
is one visit that finds the data there, `DataArrived` and `WaitFails` the two
ends of a wait, with the splice and the delay that go with them. Flows advance
and the clock moves between any two visits. Group functions take no lock, so
one thread owns an instance's groups.

**DomainWatcher**: `addFlow` is cut at the mapping of the data file
(`MapFlowData`), under the mutex; the thread is `Loop`, `EpollWait`,
`DrainEventFd`, `ReadEvents`, `ProcessEventBuffer`. The kernel's watches die
with the inode; what the rest of the host does to the files is `PublishFlow`,
`RemoveData`, `RemoveAccess`, `OpenReader`, `CloseReader`, `Touch`.

**RCInitiator**, **RCTarget**: the handlers of the two connected state machines
as operators from the record before to the record after. **RCConnection**
composes them with the fabric. `makeProgress` is a walk over phases: idle
endpoints, completions, events, eviction, and a sleep in the queue.
**GrainProtocol**, **SampleProtocol**: what is written where for slices of a
grain and for a range of samples, and what the receiver makes of it.
**RDMTransfer** composes both with the connectionless initiator, a fabric and
targets, down to the cells of the memory written to.

**MxlElements** composes `IndexConversion` with two GStreamer pipelines.
`render()` is `Render` (resolve the offset), `Sample` where nobody has sampled
before, and `CommitGrain` or `CommitChunk` per chunk; `create()` is `Create`,
`AttachReader`, `Sample`, then `ResolveReadStep`, `CheckRange`, `TakeGrain` or
`CatchUp`, `GetSamples`, back to `Create` while there is nothing to deliver.

**GstTools** composes `IndexConversion` with one source and one sink. The loop of
a source is `PullMatching`, `PullAhead` or `PullBehind` for the buffer it gets,
`FillGap`* for the indexes it missed, `WriteGrain` and `WriteSlices`, or
`WriteSamples`, and `WriterWakes` when the next index is due; `Shift` is
upstream losing buffers or time jumping there. The loop of the sink is
`Iterate`, one of the `Get` actions for what the library answers, `Reopen`,
`Push`, `Adjust` and `NextIndex`. `setup` is the choice of tools and options;
`flows` keeps every flow there ever was, as a reader may still map it.

### Abstractions

* `syncCounter` is a natural number, not 32 bits wide: the wrap needs 2^32
  notifications during one call of a reader.
* Event words are release stores and acquire loads, hence interleaved in
  program order. Grain headers have no order and get none.
* `lastWriteTime`, logging and the contents of option and definition files are
  left out; the read time kept through the access file is `DomainWatcher`'s.
* Preparation in a `.mxl-tmp-` directory is one step with the rename: nothing
  looks at a temporary directory.
* The producing application is the environment. `ProducerOpens` bounds it:
  `MaxSkip` grains or samples ahead, `MaxBack` grains back, and in discrete
  flows `MaxMissing` grains in a row left incomplete.
* `flock(2)` converts a lock by dropping it first, so an upgrade that fails
  leaves no lock. `ReleasedFlowIsGone` depends on it: with the shared lock
  kept, two writers released at once would leave the flow (the mutant
  `FailedUpgrade_LockedAgain`).
* Whether an opening is refused after the data file was locked depends on data
  `FlowLifecycle` does not keep: the version (`FlowManager.cpp:408-412`), the
  format of a flow that was there already (`:247-250`, `:318-321`, `:385-388`),
  a factory that throws (`Instance.cpp:278`). `RefuseOpen` may therefore happen
  to any call between its lock and its registration, the publishing one
  included. `deserted` is a history variable: the last lock on the flow was let
  go that way, and nobody has locked a data file of it since.
* A reader keeps the arguments of a call only if it succeeded, to keep the
  state space small; no property looks at those of a failed one.
* In `FlowSynchronizationGroup` the readers' own waits are seen from outside:
  they return when the data is there, at the deadline, or with an error. That
  they do is what `DiscreteFlow` and `ContinuousFlow` check.
* `RCConnection` keeps no memory: a write is whether it carries immediate data.
  Ids of endpoints are never used twice (in the code they come from a
  counter). A broken connection is reported to both ends in any order, to
  each as an error or as a shutdown whatever the other gets; an end that is
  closed or shut down on purpose is a shutdown to the other. Completions come
  with or without error, requests may be refused.
* `RDMTransfer` assumes what the application of the fabrics demo does: targets
  are added between two grains, a transfer is made while no target is idle, the
  source does not overtake what is still in transfer, a target commits what was
  announced before it reads on and keeps up with the initiator. Without these
  the library promises nothing (no flow control; see section 6). Writes to one
  target arrive in order, one write may be lost (`lost`) and one post refused
  (`jammed`) in a behaviour.
* In `MxlElements` openGrain and commit are one step, and a source copies a
  grain together with its look at the header (that a complete grain stays as it
  is for long enough is `GrainsRetained`). Time passes only while the sinks are
  on time, and not between the two looks of a thread at MXL time and at the
  pipeline's clock: what passes there shifts the offset of the whole pipeline.
  A pipeline starts on the clock `FirstClock` says and may select another one
  whenever it plays again after a pause.
* In `GstTools` a call of the library is one step, with what it leaves in the
  ring (`OpenedGrains`, `WrittenSamples`) and what a look finds (`TooLate`,
  `TooEarly`); `DiscreteFlow` and `ContinuousFlow` take the calls apart. Each
  thread may fall behind the clock by any time, and the payload is copied in a
  step after the one that found it. A source that is started again publishes a
  new flow; one that dies and attaches to its old flow is `DiscreteFlow`'s
  subject. The rate of the looping player's audio is that of the flow.

## 4. The runs

`CHECK_DEADLOCK FALSE` everywhere: the bounds let a behaviour end, and a
system nobody calls does stop. States and times are those of two workers.

| Run | Instance | What it shows | States |
|---|---|---|---|
| `EventRing` | 1 reader, 2 slots, 1 payload word, indexes 0..2, 3 events, 2 crashes | `SnapshotIntegrity`, `WriterNeverStuck`, `LogConsistent`, the refinement `ImplementsLog`, `BlockedReaderReturns` | 704,284, 73 s |
| `DiscreteFlow` | 1 reader, 2 slots, 1 slice, indexes 0..3, 2 commits, 1 release, no skips, 1 grain left incomplete | `ReadIsRequested`, `GrainsRetained` | 3,614,069, 67 s |
| `DiscreteFlowWait` | 1 reader, 2 slots, 2 slices, requests for 1 and 3, indexes 0..1, 2 commits, no skips, 1 grain left incomplete | `WaitingReaderReturns` | 801,886, 99 s |
| `DiscreteFlowGaps` | no reader, 4 slots, indexes 0..4, skips of 2, steps back of 1, 3 commits, 1 crash | `NoStaleGrain` | 8,234,470, 94 s |
| `ContinuousFlow` | 1 reader, ring of 5, ranges of 1..3 (3 is refused) and reads of 0 and 2, batches 3/2, indexes to 6, skips of 1, 1 restart | `FragmentsFit`, `GivenSamplesUntouched`, `WaitingReaderReturns` | 942,361, 97 s |
| `FlowLifecycle` | 2 producers (one also reads), 1 collector, 2 directories, 2 references, 1 crash | `ReleasedFlowIsGone`, `AbandonedFlowIsCollected` | 336,250, 75 s |
| `FlowSynchronizationGroup` | 3 flows at rates 2, 3/2 and 1, one discrete of 2 slices, indexes to 2, time to 5, timeouts 0 and 2 | `NoDanglingReader`, `DataAvailable`, `ReorderingKeepsOrder` | 830,388, 27 s |
| `DomainWatcher` | 2 writers, 2 flows, 3 watches, 2 queued events | `WatchesMatchRecords`, `TouchIsRecorded`, `StopReturns` | 142,326, 37 s |
| `RCConnection` | 1 target, 2 endpoints, 2 planes, 2 writes pending, 1 notification queued, 1 failure, all modes of progress | `TypeOK`, `ReadyIsQuiet`, `WritesAccounted`, `NoCrash`, `ShutdownCompletes`, `PeerLossNoticed` | 172,056, 97 s |
| `RDMTransfer` | 1 target added twice, planes of 1 and 2 cells, 2 slices, rings of 3 and 2 grains; 2 channels, rings of 3 and 4 samples, batches of 2; a 3-bit counter | `TypeOK`, `WritesAccounted`, `ReadableIsComplete`, `GrainsArrive`, `SamplesArrive` | 526,907, 51 s |
| `MxlElements` | video at 1 grain and audio at 4 samples per second of two ticks, or either alone; 2 clocks 5 apart, rings of 3 grains and 8 samples, 1 drop, 1 pause, 1 step of MXL time | `TypeOK`, `StreamsStayInSync`, `PtsInRunningTime`, `DiscontinuityFlagged`, `CreateReturns` | 212,873, 62 s |
| `GstTools` | video of 2 slices in a ring of 4 grains, or audio in batches of 2 and a ring of 8 samples; sliced or whole, alone or in a multiviewer, with and without adjustment; 2 flows, times 6..12, at most 2 jumps upstream, a 6-bit timestamp | `ShownIsTrue`, `PlaybackOrdered`, `BuffersFollow`, `SinkReconnects` | 647,990, 145 s |

Why the bounds are enough. Two slots with three indexes put one entry over
another, which is the only way slots interact; two crashes let a recovery be
followed by another failure, a third one meets the same states. One reader is
enough for everything but the wakeup of several, because readers write nothing
shared. An odd ring length leaves a sample between the two halves, which is as
much as a producer can skip before it disturbs readers (longer gaps are the
subject of proofs); ranges start at every phase of the ring. Four
grain slots are the fewest with a gap of two inside the first lap. Two
generations of a directory make a path look at another flow than the file that
is open; three processes give every pair of concurrent calls the runs are
about. Three flows are the fewest where an entry is moved past a neighbour it
is not next to, and where the entry before the walk is neither the first nor
the last. Two flows under two writers let a record survive its flow; three
watches let one be added after a removal. Two endpoints for one target let one
be connected while its predecessor still flushes; one failure may strike at
any stage of either. With two writes pending at most, an endpoint that was made
anew over a count left behind is not written to again in the run: what then
holds of the counter is proved (`RCConnection_proofs`), and so is it for every
other bound. The two rings of `RDMTransfer` wrap at different places,
its target's ring of grains wraps, and a target is removed and added again
with writes under way (for grains; samples are removed when ready, which keeps
the run small). In `MxlElements` the instance with both flows runs undisturbed
(streams and offsets), the one with a single flow has drops, pauses and laps
(`MaxDisturbed`), over a time in which the ring is passed. In `GstTools` the
times 6 to 12 let a ring be passed once after a restart, two jumps are the
fewest that have the looping player refused, and two flows are one to lose and
one to find.
`Fail` (a sink whose media overlaps what it wrote) is not reached: see
section 6.

Between them the passing runs take every action. Every property has a mutant
of the mapped code in `PROJECT.json` (suffix after the underscore, defined
next to the original) that breaks it. The type invariants of
`EventRing`, `DiscreteFlow`, `ContinuousFlow`, `FlowLifecycle`, `DomainWatcher`
and `FlowSynchronizationGroup` are in no run, because they are proved; so are
`ContinuousFlow.NoStaleSamples`, `LastRangeKept` and `ReadRangeIntact` and
`DiscreteFlow.HeadCoversCompleted`.

### Fairness

`FairSpec` asks for weak fairness of the steps *inside* a call only: a thread
in a library call keeps running. No call is ever obliged to be made, no
deadline to pass, no writer to die or to recover. `BlockedReaderReturns`
states what else it needs: the flow stays valid and a crashed writer is
replaced. `WaitingReaderReturns` of continuous flows lets a reader off once a
writer has gone away, that of discrete flows is checked without crashes: only
event flows notify on recovery. In `FlowLifecycle` collectors keep
collecting, as the application that calls `mxlGarbageCollectFlows`
periodically does; a collector that is never called collects nothing.

* `DomainWatcher`: the thread, `MapFlowData` and `Join` are weakly fair,
  `ProcessEventBuffer` strongly: it waits for a mutex that callers take again
  and again, and a mutex is not fair in itself; without it a thread could be
  passed over for ever by writers that come and go.
* `RCConnection`: the application keeps calling `makeProgress` and the targets
  keep reading, as both must; nothing is asked of the fabric. `ShutdownCompletes`
  therefore holds even if no end of a connection is ever reported.
* `MxlElements`: the streaming thread of a source keeps running.
* `GstTools`: time goes on and the thread of the sink keeps running. Nothing is
  asked of the source, its upstream or the sink's other pipelines.

## 5. What is proved

All theorems are for every value of the constants, from the named assumption
of the module alone.

**EventRing**, from `RingAssumption` (at least two slots, one payload word,
timestamps that include 0):

* `TypeCorrect`, `Inductive`: `[]TypeOK`, `[]IndInv`.
* `SnapshotsAreExact`, `FlowNeverStuck`, `HeadAndOrder`, `WakeupsAreNotLost`:
  the safety properties of event flows.
* `CompletedStaysFinal`: the action property `CompletedIsFinal`.
* `RingImplementsLog`: `Spec => ImplementsLog`, the refinement of `EventLog`.

The safety properties are not inductive: that a copy equals the log needs
the tag to have been complete at the first look and the words under a complete
tag to be final. `IndInv` says what the tag of every slot can be
(`TagsKnown`), that a slot never goes back (`TagsPassed`), which entries are
still there (`Retention`), that complete entries match the log
(`CompleteMatches`), how far the writer is (`WriterProgress`), and for a reader
in the middle of a copy that what it has copied agrees with the log for as long
as the tag stands (`CopyMatches`). `WakeupPending` carries the counter
argument: a reader about to sleep on a published entry remembers an outdated
counter, or the writer has yet to bump it. The proof has one lemma per group
of writer steps, one for all reader steps and one for readers under writer
steps; the refinement maps `StoreCompleteTag` to `Publish`, `RecheckTag` to
`Deliver`, `SkipOverwritten` and `CheckOldest` to `FallBehind`, the rest to
`Forget` or a stutter.

**DiscreteFlow**, from `DiscreteAssumption`:

* `HeadNeverBehindCompleted`: the head never lies behind a grain the writer has
  completed, through the invariant `CommitOrder` (what is open lies beyond the
  last complete grain; the store of the head is either pending or done during a
  commit).
* `TypeCorrect`, as a conjunction of `StoresTyped` (what is pending is a set of
  stores of known shape), `MemoryTyped`, `WriterTyped` and `ReadersTyped`.
* `SkippedNeverOlder` (`NoStaleGrain`), for `MaxBack < GrainCount`: a producer
  that steps back by a whole ring takes the slot of a newer grain readers still
  look for. Crashes are allowed. `FreshInv`
  says that slots between the last complete grain and what is open are fresh
  or about to be (`FreshBetween`, `FreshGap`, `FreshReset`).
* `ReadReturnsRequested` (`ReadIsRequested`), for a steady producer
  (`MaxSkip = MaxBack = 0`) with `MaxMissing < GrainCount`, crashes included.
  The bound is needed: see section 6. `KeptInv` counts how many grains behind
  the one that is open are incomplete (`FewMissing`), that what is retained is
  in its slot (`IndexKept`), and what a reader that has looked at the head may
  still meet (`ReaderAt`).
* `CompleteHeadersStay` for a steady producer with crashes, and
  `CompleteGrainsStay` (`GrainsRetained`) for one without: the stores of a
  commit have no order, so a writer that dies may leave a complete header over
  slices of another grain, which its successor takes for granted (`DoneInv`,
  `FilledInv`).

**ContinuousFlow**, from `ContinuousAssumption`:

* `TypeCorrect` and `FragmentsFitRange` from `ContinuousInv`: types, that an
  open range is at most half the ring (`RangeOpen`), and what the fragments of
  a successful read were computed from (`FragmentsGiven`).
* `SkippedNeverStale` and `RangeSurvivesClearing` from `SampleInv`: how far a
  commit has come (`Progress`), which samples of the open range are written
  (`Filled`), that every slot holds a sample of the last turn or silence
  (`Fresh`), and `LastRangeKept` itself. The clearing of a gap is the hard
  case: the invariant says which part of the gap is cleared already.
* `GivenStayUntouched`: the action property `GivenSamplesUntouched`, for a ring
  with `2 * Half + MaxSkip <= BufferLength`, from `Near` in addition: how far
  ahead the open range begins and what a commit has left to clear.
* `RangesStayIntact`: `ReadRangeIntact`, which also says what the samples are,
  from `Contiguous`, which holds where nothing is skipped (`MaxSkip = 0`).

**FlowLifecycle**, from `LifecycleAssumption`:

* `TypeCorrect`. The type invariant is not inductive alone: a reference is
  promised to the call that opens the flow before it exists (`Promised`).
* `ReleasedFlowsGo`: `ReleasedFlowIsGone`, for any number of processes. No
  process holds the duty to remove the flow; it passes from hand to hand.
  `SomeoneIs` says that somebody always has it, unless the flow is `deserted`:
  an instance that writes, one whose call will find itself alone
  (`Responsible`), or one that removes already (`Unlinking`). It is kept
  because an upgrade of a lock fails only while somebody else shares the same
  file, who is then responsible; because a call that is refused either leaves
  another sharer or deserts the flow; and because the rings are missing only
  while somebody removes them. Whoever locks a data file again is responsible
  again. `LockInv` says
  where locks stand in each phase and `PartlyRemoved` that parts go missing in
  a directory only while it is being removed.

**DomainWatcher**: `TypeCorrect`, and `WatchesMatch`: the watches of the kernel
are those of the records and those an `addFlow` that failed has left, with the
invariant that a record and its watch are of the same flow and that no two
flows share a watch.

**FlowSynchronizationGroup**, from `GroupAssumption` and `IteratorAssumption`
(there is a group; the ends of a list are no readers): `TypeCorrect`,
`GroupsNeverDangle`, `WaitLeavesNobodyBehind` (`DataAvailable`) and
`SlowestStaysFirst` (`ReorderingKeepsOrder`). Lemmas say what erasing, adding
and splicing do to a list (`WithoutEntry`, `AddedReader`, `InFrontEntry`). The
invariant `Walk` says where the three iterators stand: at the k-th entry, the
one before and the one after it, with every entry before the k-th one seen. It
is what the splice has to keep: the entry in hand goes to the front, those in
front of it move one place back, and `prev` is then the k-th. The rest is
arithmetic: a head that has reached the rounded index is past the timestamp by
less than half a grain (`IndexReached`).

**RCConnection**, from `RCAssumption` (there is a target, the ids are finitely
many), all four safety properties: `TypeCorrect`, `WritesAreAccounted`,
`NothingUnderWayWhenReady` (`ReadyIsQuiet`) and `NoneForgottenWithCompletions`
(`NoCrash`), from one invariant, `ConnInv`:

* `Account`: the counter covers what is outstanding in every state that counts,
  not only while connected: an endpoint that restarts keeps its counter and the
  completions of its former connection stay in the queue. That the counter
  never wraps is a consequence, since a completion that is counted is
  outstanding.
* `LinkInv`: without an endpoint there is no connection and no write (`Quiet`);
  the end of a connection is reported at most once (`EndsOnce`) and when it is
  down (`EndsAreDown`); a connection is closing only under an endpoint that
  flushes, and down without a failure only there (`Closing`, `Steady`), which
  is what makes the counter exact while nothing failed.
* `PassInv` and `Forgotten`: while events are drained no completion is left of
  an endpoint that is done, because one that begins to flush there does so by
  the end of its connection, and no second end comes in the same pass
  (`FlushedByEnd`). So no completion outlives the eviction of its endpoint.

`SettleKeeps` does the work for all steps of the initiator: it says which
moves of endpoints (`Legal`) keep the invariant whatever the fabric makes of
them. Lemmas say what `Without` leaves of a queue and how the completions in a
queue are counted under `Append`, `Tail` and `Without`.

**RDMTransfer**, from `GrainAssumption`, `SampleAssumption`, `RDMAssumption` and
`CounterAssumption` (the targets are finitely many; the counter has room for
every write under way, which `MaxWire` bounds):

* `TypeCorrect` (`TypeOK`), from `TypeInv`, which says in addition what a write,
  a notice and a grain in memory consist of. That a write stays inside its grain
  rests on where the planes lie (`PlaneOffsets`, `PlanesInOrder`, `PlaneInside`,
  by induction over the planes) and on what `GrainWrites` and `SampleWrites`
  yield (`GrainWritesAre`, `SampleWritesAre`).
* `CounterIsExact` (`WritesAccounted`), from `TokensApart` and `OwnCounted`: a
  token that was handed out before is on no counter, and every write that bears
  the present token is counted, for targets that are not active yet as well.
* `ReportedGrainsArrived` (`GrainsArrive`), from `ArrivalInv`, whose parts say for
  each target: only the grain committed last and the next one are under way, in
  order (`Ordered`); every write and every notice goes to the slot of its grain
  (`Located`), and takes slices that are valid at the source, which are not
  overwritten there (`Backed`); what a notice announces is in memory, and what a
  write with immediate data will announce is there, or comes with it or before
  it (`Announced`); a transfer that goes on with a slice finds those before it
  there or under way (`Continued`). The last part is what a refused transfer
  needs: it is repeated whole, behind what is left of the first attempt.
* `ReadableGrainsAreComplete` (`ReadableIsComplete`), from `ReadableInv` on top of
  it: as long as a transfer has not begun with a grain, nobody was told of it
  (`Unannounced`); no header is written to a grain that was announced
  (`HeaderFirst`); what may be read is whole (`Readable`). The count of valid
  slices that comes with a header is that of a source that is further on. It is
  lowered before the grain is committed, and no header follows.

* `SamplesAlwaysArrive` (`SamplesArrive`), from `SampleInv` on top of `CountInv`,
  whose parts say for each target: a target that is not known has nothing under
  way (`Current`, which rests on the counter, see below); the source still has
  what is under way, all of it before the range that is next unless that was
  posted in part (`Supplied`); a write that announces a range is behind the
  other writes of that range, or those have landed, the header they bring is
  the one of the range, and nothing else goes to its entry (`Blocks`); a range
  that was announced is complete in its entry, and nothing goes there
  (`Queued`). Three groups of lemmas say that the data comes out where it
  belongs. `OffsetsAre`, `Covering`, `FragmentsAre` and `PiecesAre`: the pieces
  either side cuts a range into cover it in order, without gap or overlap, at
  most two to a channel. `Gathered`, `Divided` and `WritesAre`: the writes of a
  range, of at most `IovLimit` pieces each and the header in the first, divide the
  samples of the entry among them. `WrittenEntryIs` and `Unpacked`: what one
  write leaves in an entry, and that an entry written by all of them is
  unpacked to the places where the samples belong in a ring of any length.

`ReportedGrainsArrived` and `ReadableGrainsAreComplete` assume `SlotsFit`,
`TargetCount <= 65536`: the immediate data has 16 bits for the slot
(`ImmData.cpp:18`), and with a longer ring another grain's slot is reported.
`SamplesAlwaysArrive` assumes `"samples" \notin BusyRemovals`, as the run does: an
application that removes a target before it is done has the protocol freed
while the fabric still reads headers from it (`HeaderRead`), and anything may
arrive. TLC checked the invariants of grains before they were proved, with one
target (the constants of the run, 372,682 states) and with two (1,228,416), and
that of samples with the constants of the run.

**IndexConversion** (in `FlowSynchronizationGroup_proofs`): `RoundTrip` (an index
comes back from its timestamp at any rate of at most one per nanosecond, which
is where rounding loses nothing) and `IndexMonotone`.

Only model-checked: liveness and everything under fairness (outside the
prover's reach), and the properties of `MxlElements` and `GstTools`. What a fold
over a sequence computes for every length is an induction over data, which the
provers cannot do; the layout of a grain and the offsets of the pieces of a
range are therefore recursive functions of a number, for which least elements
take the place of the induction (`EveryNumber`).
`StreamsStayInSync` and `PtsInRunningTime` are not for all constants: at rates
with periods of a fraction of a tick the rounding of every chunk adds up.

## 6. Disagreements between the code and its documentation

Each is stated as a definition of a module and is false of the code. The twelve
configurations check what holds, so none of these fails in one of them. Adding
the name to the configuration of the module (as `INVARIANT` for
`NextGrainHidden`, `RDMTransfer.ReadyIsQuiet` and `RefusalsAreHarmless`, as
`PROPERTY` for the others)
shows the trace; where constants are given here, it takes these.
`ReadIsRequested` and `RefusalsAreHarmless` fail only with the constants given.

* `DiscreteFlow.ReopenKeepsHeader` (`DiscreteFlowGaps` with `GrainCount = 2`): a
  gap of a whole ring or more marks the slot of the very grain that is opened
  again, which loses its progress (`PosixDiscreteFlowWriter.cpp:109`).
* `DiscreteFlow.NextGrainHidden`: at `headIndex == grainCount - 1` no slot is
  reserved for the writer (`PosixDiscreteFlowReader.cpp:176`). `Unreserved`
  excludes this one grain from the other properties.
* `DiscreteFlow.ReadIsRequested` with `MaxMissing >= GrainCount`
  (`DiscreteFlow` with `MaxMissing = 2`, `MaxCommits = 4`, `MaxReleases = 0` and
  `MinSlices = {0}`, 90 s): by the same mark, after a whole ring of incomplete
  grains the head grain that is opened again has an older index in its slot, and
  a reader of the head gets that one's header.
* `FlowLifecycle.CollectsInactiveOnly`: the collector gives up the lock before
  it removes (`Instance.cpp:386`).
* `FlowLifecycle.LastWriterDeletes`: a release may delete a newer flow of the
  same id (`Instance.cpp:217-219`; the comment at `:216` says that only the
  last writer deletes).
* `FlowLifecycle.LastReleaseDeletes` (as an invariant in place of
  `ReleasedFlowIsGone`): the last writer does not delete the flow either
  (`Instance.cpp:216`), if a call that opens it holds the shared lock while the
  writer tries to upgrade (`:217`). If that call is then refused, for the
  version, the format or the factory, it leaves without removing anything, and
  so does a call whose factory throws after it has published the flow. The
  flow stays until it is collected, which `AbandonedFlowIsCollected` covers.
* `FlowSynchronizationGroup.RequestedSlicesPresent`: a grain the head has
  reached counts as available whatever its slices
  (`FlowSynchronizationGroup.cpp:86`; `flow.h:727,745-757` promises at least
  the slices asked for).
* `RCConnection.LossEndsConnection`: a connected target looks for a shutdown
  alone (`RCTarget.cpp:165`). If the end of its connection comes as an error it
  stays connected for ever, has no passive endpoint, and nobody can connect to
  it. `PeerLossNoticed` speaks of targets that are told by a shutdown.
* `RCConnection.RemovedStaysRemoved`: a connection that fails while its target
  is being removed makes the endpoint anew (`RCInitiator.cpp:326`), and the
  target is connected again.
* `RDMTransfer.ReadyIsQuiet`: the initiator is ready while writes of a removed
  target are under way (`RDMInitiator.cpp:189`; `fabrics.h:303-305,314-315`).
* `RDMTransfer.RefusalsAreHarmless` (`RDMTransfer` with two targets,
  `SliceSizes <- <<1>>` in `MCRDMTransfer`, `TotalSlices = 3`, `MaxGrain = 1`,
  `MaxWire = 3`, `BusyRemovals = {}`): a transfer that is refused for the second
  target is repeated for both (`RDMInitiator.cpp:199-208` loops over the targets,
  `demo.cpp:454-458` tries again). The first one may have committed the grain by
  then. It gets the header anew, with the slices that are valid at the source by
  now, and a reader finds slices counted that have not arrived.
  `ReadableIsComplete` leaves this case out.
* `MxlElements.UnlockEndsCreate`: a source that asked for a grain the writer
  has marked as skipped asks for it again and again, without looking whether it
  is unlocked, until the ring has gone over it (`mxlsrc/imp.rs:602-604` says
  that `unlock()` ends the wait; the marking is
  `PosixDiscreteFlowWriter.cpp:106-108`, the loop `reader.rs:79-82`).
* `GstTools.InvalidGrainsSkipped`: `sink.cpp:499` says that invalid grains are
  skipped; one without all its slices, as every grain of a filled gap is, is
  asked for again at once and for ever, until the ring has gone over it.
* `GstTools.PtsNeverInPast`: with `--pts-offset` adjusted automatically "no PTS
  value supplied to GStreamer is ever in the past" (`sink.cpp:1385-1387`). The
  difference of a buffer older than the pipeline and the pipeline's base wraps
  to a huge number, and a buffer whose exchange fails keeps its late timestamp.

Met while modelling, flows:

* A writer that attaches to an existing flow does not know the old head, so the
  gap in front of its first grain or range is neither marked nor cleared
  (`PosixDiscreteFlowWriter.cpp:96`, `PosixContinuousFlowWriter.cpp:142`).
  `NoStaleGrain` and `NoStaleSamples` therefore start at what the present
  writer has committed (`base`).
* A writer that dies between the index and the slice count of a recycled slot
  (`PosixDiscreteFlowWriter.cpp:122-125`) leaves slices nobody wrote.
* Committing a grain behind an abandoned partial one moves the head back
  (`:169`; `flow.h:552-554` speaks of an increase only).
* Going back after a jump marks slots that already hold newer partial grains.
  `NoStaleGrain` admits such an entry, because it is flagged invalid.
* A grain marked invalid has no valid slices: readers that wait for a complete
  grain never see it, readers that ask for none do.
* Fragments of an empty range (`PosixContinuousFlowReader.cpp:138-139`): the
  second length underflows. `FragmentsFit` asks for at least one sample.
* `openSamples` limits the length, not the distance of a range: a producer that
  jumps may write where readers read (`PosixContinuousFlowWriter.cpp:85`).
  `GivenSamplesUntouched` holds for skips that fit between the two halves.
* The early signal may let a notification cover more samples than the batch
  size (`PosixContinuousFlowWriter.hpp:91`).
* Outside event flows, a writer that dies between its stores and the
  notification leaves readers asleep until their deadline
  (`PosixDiscreteFlowWriter.cpp:182`).
* The sync counter has 32 bits (`FlowState.hpp:31`): a reader preempted for
  exactly 2^32 notifications would sleep although it was notified.

Met while modelling, life cycle:

* `garbageCollect` deletes flows that only readers use: readers hold no lock
  (`Instance.cpp:384`; `mxl.h:87-88` says otherwise).
* Opening a flow combines files of two generations when the directory is
  replaced in between (`FlowManager.cpp:405-426`).
* A removal interrupted after the data file leaves a directory no collector
  removes (`Instance.cpp:372`). `AbandonedFlowIsCollected` excludes it.
* `createFlowWriter` hands out the cached writer of a flow that was removed and
  published again (`Instance.cpp:270`).
* A process that dies before the rename leaves its `.mxl-tmp-` directory
  (`FlowManager.cpp:40`); no collector looks at it.
* The exclusive probe of a collector makes a `createFlowWriter` of the same
  moment fail, although nothing is wrong (`SharedMemory.cpp:71`).

Met while modelling, watcher and groups:

* The watch of a removed flow that a reader keeps alive is reused for its
  successor (`DomainWatcher.cpp:233,247`): reads of the new flow are not
  recorded. `TouchIsRecorded` speaks of flows that are watched.
* A watch stays behind when the data file is missing after `inotify_add_watch`
  (`:259-273`), `leaked` in the model; only the first record of a descriptor is
  updated (`:473-482`); the attribute event of an `unlink` counts as a read;
  after `stop()` the thread may sleep for the 250 ms of its `epoll_wait`
  (`:356`).
* The functions of a group take no lock; an instance's groups belong to one
  thread.

Met while modelling, fabrics:

* A blocked wait on the completion queue looks up the endpoint and dereferences
  the result without a check (`RCInitiator.cpp:429-435`). `NoCrash` shows that
  with one driving thread no completion meets an endpoint that was evicted.
* A completion error is not counted (`RCInitiator.cpp:264`), a restart keeps
  the old count (`:269`): writes that failed keep the endpoint from being ready
  until it is removed. `Outstanding` in `WritesAccounted` names them. Removal
  does not look at what is pending.
* Handlers that throw leave the state variant of an endpoint moved-from.
* A write of samples that fails after the first piece leaves the pieces before
  it uncounted (`ProtocolEgressRMA.cpp:204`).
* A waiting target ignores error events (`RCTarget.cpp:134`); a notification
  read together with a shutdown is lost (`:165`).
* An RDM initiator takes one completion per poll (`RDMInitiator.cpp:316`) and
  drops those of unknown tokens. A target that is added in the middle of a
  grain misses its first slices.
* The target looks the grain index up in shared memory when it gets to the
  notification (`ProtocolIngressRMA.cpp:73`); the 16 bits of the slot in the
  immediate data (`ImmData.cpp:18`) limit the ring; entries of the bounce buffer
  are reused in turn without asking the target (`ProtocolEgressRMA.cpp:207`);
  a header with no samples makes the unpacking underflow. There is no flow
  control: an initiator more than a grain ahead overwrites what is readable.

Met while modelling, GStreamer elements:

* Writers refuse an overlap, so two frames whose timestamps round to one index,
  or chunks whose durations were cut to nanoseconds near a rounding boundary
  (`render_continuous.rs:47-72`), make `mxlsink` fail.
* Pausing re-bases the running time: what lies before the new start is passed
  over without a flag, which `DiscontinuityFlagged` leaves out (`next` starts
  anew when the pipeline plays).
* `catch_up` aims two batches behind the head, which cannot be read if the
  buffer is shorter than four batches: `ElementsAssumption` asks for that.
* A source never attaches again once its flow was removed.
* The payload is copied after the header was looked at: a grain overwritten in
  between may tear (the reserve of one slot makes this rare).

Met while modelling, GStreamer tools:

* After time went backwards upstream a source never writes again: what it
  expects runs ahead of what it gets for ever (`PullBehind`). Only the audio
  thread of the file player starts over, for drifts of less than a batch, and
  the library may then refuse its next buffer, which ends the loop
  (`WriteRefused`).
* The buffer that ends a gap is passed over itself.
* The audio loops put a buffer stamped s at the samples before s
  (`MediaOf`), where the Rust elements put it at s and after; the sink's own
  timestamp is that of the sample after the first one it asks for
  (`BufferTime`).

## 7. What is not modelled

* *Base64, libfabric wrappers, address and JSON parsing* (`ofi`): vendored or
  thin calls without state of their own.
* *Flow definition and options* (`FlowParser.cpp`, `FlowOptionsParser.cpp`,
  `MediaUtils.cpp`): JSON to numbers. The geometry they yield is constants here.
* *Flow data, factories, logging, paths, threads*: ownership of mappings and
  start-up code; no two of their steps can be told apart.
* *The C API* but for the group functions: argument checks and exceptions to
  status codes around the operations modelled.
* *Rust bindings* but for the reading loops: safe wrappers of the C API.
* *Other tools and examples* (`mxl-info`, `mxl-data-probe`): clients that read
  and print. Of the GStreamer tools, the construction of pipelines, options and
  flow definitions and the picture a multiviewer composes.
* *The kqueue variant of the watcher*, `Instance` construction with its
  options, `getFlowDef` and the info of a flow.
* *Temporary directories* and the 32-bit wrap of the sync counter (section 6).

The implementation counts some 33,500 lines, of which about 9,000 are vendored,
test signal generation, command line handling or wrappers of foreign
interfaces; a share of a third of it would mean modelling those.
