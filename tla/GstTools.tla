------------------------------ MODULE GstTools ------------------------------
(***************************************************************************)
(* The GStreamer tools: mxl-gst-testsrc and mxl-gst-looping-filesrc, which *)
(* turn the buffers of a pipeline into grains or samples of a flow, and    *)
(* mxl-gst-sink, which plays a flow.  Both go by the clock: the source     *)
(* expects a buffer of a certain index and sleeps until that index is due, *)
(* the sink's cursor moves on when its delivery deadline passes.  Buffers  *)
(* are lost upstream, the source is stopped and started again (its flow    *)
(* removed and published anew), and any thread may fall behind the clock.  *)
(* A call of the library is one step here: DiscreteFlow, ContinuousFlow    *)
(* and FlowLifecycle take the calls apart.                                 *)
(***************************************************************************)
EXTENDS IndexConversion, Sequences

CONSTANTS
    Setups,            \* [format, tool, view, auto, offset, shifts]: which tools run, their
                       \* options, and how often time jumps upstream
    VideoRate, AudioRate,
    Batch,             \* samples in a buffer of the upstream pipeline
    WindowSize,        \* samples the sink asks for at a time
    GrainCount,        \* slots in the ring of a video flow
    TotalSlices,       \* slices of a grain
    CommitSlices,      \* maxCommitBatchSizeHint: slices testsrc commits at a time
    SyncSlices,        \* maxSyncBatchSizeHint: slices the sink waits for at a time
    BufferLength,      \* samples in the ring of an audio flow
    ReadDelay,         \* --read-delay, in ticks
    Margin,            \* MIN_PTS_OFFSET_NS
    PtsBits,           \* width of a PTS (64 in the code)
    Lead,              \* how long before its timestamp a buffer may arrive
    Shifts,            \* jumps of the upstream timestamps
    OtherOffsets,      \* offsets the other pipelines of the sink find necessary
    Epoch, MaxTime, MaxFlows   \* bounds

ASSUME GstToolsAssumption ==
    /\ {VideoRate, AudioRate} \subseteq ValidRates
    /\ {Batch, WindowSize, GrainCount, TotalSlices, CommitSlices, SyncSlices} \subseteq Nat \ {0}
    /\ SyncSlices <= TotalSlices
    /\ Batch <= BufferLength \div 2 /\ WindowSize <= BufferLength \div 2

UNDEFINED == -1

Silence == -1

VARIABLES
    setup,      \* the tools that run
    now,        \* TAI time
    flows,      \* every flow there ever was under the id: memory that readers may still map
    published,  \* the one the id leads to, 0 for none
    wpc, committed, expected, got, stamp, shifts, behind,    \* the source
    rpc, reader, current, started, slices, base, adjust,     \* the sink
    ptsOffset,  \* _ptsOffset, shared by the pipelines of the sink
    other,      \* the adjustment another pipeline has under way
    shown       \* the last buffer pushed

flow   == <<flows, published>>
source == <<wpc, committed, expected, got, stamp, shifts, behind>>
sink   == <<rpc, reader, current, started, slices, base, adjust, shown>>
offset == <<ptsOffset, other>>
vars   == <<setup, now, flow, source, sink, offset>>

Init ==
    /\ setup \in Setups /\ now = Epoch
    /\ flows = << >> /\ published = 0
    /\ wpc = "off" /\ committed = UNDEFINED /\ expected = UNDEFINED /\ got = UNDEFINED
    /\ stamp = UNDEFINED /\ shifts = 0 /\ behind = FALSE
    /\ rpc = "off" /\ reader = 0 /\ current = 0 /\ started = 0 /\ slices = 0 /\ base = 0
    /\ adjust = [seen |-> 0, wanted |-> 0]
    /\ shown = [index |-> UNDEFINED, pts |-> UNDEFINED]
    /\ ptsOffset = 0 /\ other = [seen |-> 0, wanted |-> 0]

Tick == /\ now < MaxTime
        /\ now' = now + 1
        /\ UNCHANGED <<setup, flow, source, sink, offset>>

Video     == setup.format = "video"
Rate      == IF Video THEN VideoRate ELSE AudioRate
Step      == IF Video THEN 1 ELSE Batch
Window    == IF Video THEN 1 ELSE WindowSize
IndexOf(t) == TimestampToIndex(Rate, t)
TimeOf(i)  == IndexToTimestamp(Rate, i)

MinOf(a, b) == IF a <= b THEN a ELSE b

-----------------------------------------------------------------------------
(* The flow, as the library leaves it after a call.                        *)

NewFlow ==
    [head    |-> 0,
     grains  |-> [s \in 0..GrainCount-1 |->
                     [index |-> 0, slices |-> 0, invalid |-> FALSE, media |-> Silence]],
     samples |-> [o \in 0..BufferLength-1 |-> Silence]]

Slot(i) == i % GrainCount

GrainAccepted(i) == committed = UNDEFINED \/ i > committed

(* Grains skipped since the last complete one are marked, a ring of them   *)
(* at most, and a slot that holds another grain is reset.                  *)
OpenedGrains(f, i) ==
    [s \in 0..GrainCount-1 |->
        LET j == i - 1 - ((i - 1 - s) % GrainCount)
        IN  IF s # Slot(i)
            THEN IF committed # UNDEFINED /\ j > committed
                 THEN [f.grains[s] EXCEPT !.index = j, !.slices = 0, !.invalid = TRUE]
                 ELSE f.grains[s]
            ELSE IF f.grains[s].index # i
                 THEN [f.grains[s] EXCEPT !.index = i, !.slices = 0, !.invalid = FALSE]
                 ELSE f.grains[s]]

InvalidGrain(f, i) ==
    [f EXCEPT !.head = i,
              !.grains = [OpenedGrains(f, i) EXCEPT ![Slot(i)].invalid = TRUE]]

WrittenGrain(f, i, n, m) ==
    [f EXCEPT !.head = i,
              !.grains = [OpenedGrains(f, i) EXCEPT ![Slot(i)].slices = n, ![Slot(i)].media = m]]

SamplesAccepted(i, n) ==
    /\ n <= BufferLength \div 2 /\ i >= n
    /\ committed # UNDEFINED => i > committed /\ i - n >= committed

(* The n samples before index i, the first of them m, and silence in the   *)
(* gap since the last range.                                               *)
WrittenSamples(f, i, n, m) ==
    LET gap == IF committed = UNDEFINED THEN 0 ELSE MinOf(i - n - committed, BufferLength - n)
    IN  [f EXCEPT !.head = i,
                  !.samples = [o \in 0..BufferLength-1 |->
                      LET k == (o - (i - n)) % BufferLength
                      IN  IF k < n THEN IF m = Silence THEN Silence ELSE m + k
                          ELSE IF BufferLength - k <= gap THEN Silence
                          ELSE @[o]]]

Accepted(i, n) == IF Video THEN GrainAccepted(i) ELSE SamplesAccepted(i, n)

-----------------------------------------------------------------------------
(* The source: MxlWriter::run of testsrc, the threads of LoopingFilePlayer. *)

(* testsrc aligns its pipeline with the next index; the file player's      *)
(* offset makes its first buffer one of now.                               *)
FirstStamp == IF setup.tool = "testsrc" THEN TimeOf(IndexOf(now) + 1) ELSE UNDEFINED

WriterStart ==
    /\ wpc = "off" /\ published = 0 /\ Len(flows) < MaxFlows
    /\ flows' = Append(flows, NewFlow)
    /\ published' = Len(flows) + 1
    /\ wpc' = "pull"
    /\ stamp' = FirstStamp
    /\ committed' = UNDEFINED /\ expected' = UNDEFINED /\ got' = UNDEFINED /\ behind' = FALSE
    /\ UNCHANGED <<setup, now, shifts, sink, offset>>

(* The exit flag is looked at between buffers.                             *)
WriterStop ==
    /\ wpc \in {"pull", "ended"}
    /\ wpc' = "off" /\ published' = 0
    /\ committed' = UNDEFINED /\ expected' = UNDEFINED /\ got' = UNDEFINED
    /\ stamp' = UNDEFINED /\ behind' = FALSE
    /\ UNCHANGED <<setup, now, flows, shifts, sink, offset>>

(* Upstream loses buffers, or its timestamps jump.                         *)
Shift(d) ==
    /\ wpc = "pull" /\ stamp # UNDEFINED /\ shifts < setup.shifts /\ stamp + d >= Epoch
    /\ stamp' = stamp + d
    /\ shifts' = shifts + 1
    /\ UNCHANGED <<setup, now, flow, wpc, committed, expected, got, behind, sink, offset>>

Upstream == IF stamp = UNDEFINED THEN now ELSE stamp

Expectation == IF expected = UNDEFINED THEN IndexOf(Upstream) ELSE expected

(* try_pull_sample(): the buffer's timestamp, made an index.               *)
PullSample ==
    /\ wpc = "pull" /\ Upstream <= now + Lead
    /\ got' = IndexOf(Upstream)
    /\ stamp' = Upstream + TimeOf(Step)
    /\ behind' = (got' < Expectation)
    /\ UNCHANGED <<setup, now, flow, committed, shifts, sink, offset>>

PullMatching ==
    /\ PullSample
    /\ got' = Expectation
    /\ expected' = got' /\ wpc' = "write"

PullAhead_Unfilled ==
    /\ PullSample
    /\ got' > Expectation
    /\ expected' = Expectation /\ wpc' = "write"

PullAhead ==
    /\ PullSample
    /\ got' > Expectation
    /\ expected' = Expectation /\ wpc' = "fill"

(* A buffer from the past is dropped; only the audio thread of the file    *)
(* player starts over, when it is less than a batch.                       *)
PullBehind ==
    /\ PullSample
    /\ got' < Expectation
    /\ IF setup.tool = "looping" /\ ~Video /\ Expectation - got' < Step
       THEN expected' = UNDEFINED /\ wpc' = "pull"
       ELSE expected' = Expectation + Step /\ wpc' = "sleep"

WriterOffset == IF setup.tool = "testsrc" THEN setup.offset ELSE 0

Target == expected - WriterOffset

(* Where the loop goes on after a buffer, written or not.                  *)
Proceed == expected' = expected + Step /\ wpc' = "sleep"

FillCount_WholeBatch == Step

FillCount == MinOf(got - expected, Step)

(* The gap before the buffer is filled with invalid grains or silence;     *)
(* then the buffer itself is passed over.                                  *)
FillGap ==
    /\ wpc = "fill"
    /\ IF expected < got /\ Accepted(Target, FillCount)
       THEN /\ flows' = [flows EXCEPT ![published] =
                   IF Video THEN InvalidGrain(@, Target) ELSE WrittenSamples(@, Target, FillCount, Silence)]
            /\ committed' = IF Video THEN committed ELSE Target
            /\ expected' = expected + FillCount
            /\ UNCHANGED wpc
       ELSE Proceed /\ UNCHANGED <<flows, committed>>
    /\ UNCHANGED <<setup, now, published, got, stamp, shifts, behind, sink, offset>>

(* testsrc hands a grain over in batches of slices, the file player at     *)
(* once.                                                                   *)
SlicesAfter(n) == IF setup.tool = "testsrc" THEN MinOf(n + CommitSlices, TotalSlices) ELSE TotalSlices

CommitGrain(n) ==
    /\ flows' = [flows EXCEPT ![published] = WrittenGrain(@, Target, n, got)]
    /\ IF n = TotalSlices THEN committed' = Target /\ Proceed
                          ELSE wpc' = "slices" /\ UNCHANGED <<committed, expected>>

WriteGrain ==
    /\ wpc = "write" /\ Video /\ Accepted(Target, Step)
    /\ CommitGrain(SlicesAfter(0))
    /\ UNCHANGED <<setup, now, published, got, stamp, shifts, behind, sink, offset>>

WriteSamples ==
    /\ wpc = "write" /\ ~Video /\ Accepted(Target, Step)
    /\ flows' = [flows EXCEPT ![published] = WrittenSamples(@, Target, Step, got)]
    /\ committed' = Target
    /\ Proceed
    /\ UNCHANGED <<setup, now, published, got, stamp, shifts, behind, sink, offset>>

(* The loop ends when the library refuses a buffer.                        *)
WriteRefused ==
    /\ wpc = "write" /\ ~Accepted(Target, Step)
    /\ wpc' = "ended"
    /\ UNCHANGED <<setup, now, flow, committed, expected, got, stamp, shifts, behind, sink, offset>>

WriteSlices ==
    /\ wpc = "slices"
    /\ CommitGrain(SlicesAfter(flows[published].grains[Slot(Target)].slices))
    /\ UNCHANGED <<setup, now, published, got, stamp, shifts, behind, sink, offset>>

WriterWakes ==
    /\ wpc = "sleep" /\ now >= TimeOf(expected)
    /\ wpc' = "pull"
    /\ UNCHANGED <<setup, now, flow, committed, expected, got, stamp, shifts, behind, sink, offset>>

-----------------------------------------------------------------------------
(* The sink's cursor: currentIndex is a multiple of the window; the range  *)
(* requested lies the read delay, in whole windows, before it.             *)

DelayUnits == ((IndexOf(ReadDelay) + Window - 1) \div Window) * Window

Requested == current - DelayUnits

DeliveryDeadline == TimeOf(current + Window)

Aligned(t) == ((IndexOf(t) + Window \div 2) \div Window) * Window

(* MxlReader's constructor, GstreamerPipeline::start and the new cursor.   *)
SinkStart ==
    /\ rpc = "off" /\ published # 0
    /\ rpc' = "loop" /\ reader' = published
    /\ base' = now /\ current' = Aligned(now) /\ slices' = SyncSlices
    /\ UNCHANGED <<setup, now, flow, source, started, adjust, shown, offset>>

Iterate ==
    /\ rpc = "loop"
    /\ rpc' = IF reader = 0 THEN "reopen" ELSE "get"
    /\ started' = now
    /\ UNCHANGED <<setup, now, flow, source, reader, current, slices, base, adjust, shown, offset>>

-----------------------------------------------------------------------------
(* What a look at the flow finds: GetGrain, GetGrainSlice, GetSamples.     *)

SliceMode == SyncSlices < TotalSlices

Asked == IF SliceMode THEN slices ELSE TotalSlices

Read == flows[reader]

Grain == Read.grains[Slot(Requested)]

FirstReadable ==
    IF Video
    THEN IF Read.head >= GrainCount THEN Read.head - GrainCount + 2 ELSE 0
    ELSE Window + IF Read.head >= BufferLength \div 2 THEN Read.head - BufferLength \div 2 ELSE 0

TooLate == Requested <= Read.head /\ Requested < FirstReadable

TooEarly ==
    \/ Requested > Read.head
    \/ ~TooLate /\ Video /\ ~Grain.invalid /\ Grain.slices < MinOf(Asked, TotalSlices)

(* A complete grain is pushed unless it is invalid, an incomplete one      *)
(* asked for again with more slices.                                       *)
GetMedia ==
    /\ rpc = "get" /\ ~TooLate /\ ~TooEarly
    /\ \/ /\ Video => Grain.slices >= TotalSlices /\ ~Grain.invalid
          /\ rpc' = "push" /\ UNCHANGED slices
       \/ /\ Video /\ Grain.slices >= TotalSlices /\ Grain.invalid
          /\ rpc' = "next" /\ UNCHANGED slices
       \/ /\ Video /\ Grain.slices < TotalSlices
          /\ rpc' = "loop"
          /\ slices' = IF SliceMode THEN MinOf(TotalSlices, Grain.slices + SyncSlices) ELSE slices
    /\ started' = 0
    /\ UNCHANGED <<setup, now, flow, source, reader, current, base, adjust, shown, offset>>

(* realign(iterationStartTime)                                             *)
GetTooLate ==
    /\ rpc = "get" /\ TooLate
    /\ rpc' = "loop" /\ current' = Aligned(started) /\ started' = 0
    /\ UNCHANGED <<setup, now, flow, source, reader, slices, base, adjust, shown, offset>>

FlowValid_Assumed == TRUE

FlowValid == published = reader

(* The call waits until the deadline; only then is the flow looked at.     *)
GetTooEarly ==
    /\ rpc = "get" /\ TooEarly /\ now >= DeliveryDeadline /\ FlowValid
    /\ rpc' = "loop" /\ started' = 0
    /\ UNCHANGED <<setup, now, flow, source, reader, current, slices, base, adjust, shown, offset>>

(* The reader of a flow that is gone is released.                          *)
GetFlowInvalid ==
    /\ rpc = "get" /\ TooEarly /\ now >= DeliveryDeadline /\ ~FlowValid
    /\ rpc' = "reopen" /\ reader' = 0
    /\ UNCHANGED <<setup, now, flow, source, current, started, slices, base, adjust, shown, offset>>

(* mxlCreateFlowReader: in handleInvalidFlow, or with no reader left.      *)
Reopen ==
    /\ rpc = "reopen"
    /\ rpc' = "loop" /\ reader' = published
    /\ current' = IF published # 0 THEN Aligned(started) ELSE current
    /\ started' = 0
    /\ UNCHANGED <<setup, now, flow, source, slices, base, adjust, shown, offset>>

-----------------------------------------------------------------------------
(* pushBuffer: the PTS is the age of the media in the pipeline's running   *)
(* time, plus an offset that all pipelines of the sink raise as needed.    *)

Word(x) == x % 2^PtsBits

Payload ==
    IF Video THEN <<Grain.media>>
    ELSE [k \in 1..Window |-> Read.samples[(Requested - Window + k - 1) % BufferLength]]

BufferTime ==
    IF setup.view = "multi" THEN TimeOf(current + 1)
    ELSE IF Video THEN TimeOf(Requested) ELSE TimeOf(Requested - Window + 1)

Pts(o) == Word(BufferTime - base + o)

LatePts == setup.view = "single" /\ setup.auto /\ Pts(ptsOffset) < (now - base) + Margin

Push ==
    /\ rpc = "push"
    /\ shown' = [index |-> Requested, pts |-> Pts(IF setup.view = "multi" THEN 0 ELSE ptsOffset)]
    /\ IF LatePts
       THEN /\ rpc' = "adjust"
            /\ adjust' = [seen |-> ptsOffset, wanted |-> Word((now - base) + Margin + base - BufferTime)]
       ELSE rpc' = "next" /\ UNCHANGED adjust
    /\ UNCHANGED <<setup, now, flow, source, reader, current, started, slices, base, offset>>

ExchangeSucceeds_Store(seen) == TRUE

(* compare_exchange_strong(): whoever finds the offset changed keeps the   *)
(* PTS it had.                                                             *)
ExchangeSucceeds(seen) == ptsOffset = seen

Adjust ==
    /\ rpc = "adjust"
    /\ rpc' = "next"
    /\ IF ExchangeSucceeds(adjust.seen)
       THEN /\ ptsOffset' = adjust.wanted
            /\ shown' = [shown EXCEPT !.pts = Pts(adjust.wanted)]
       ELSE UNCHANGED <<ptsOffset, shown>>
    /\ adjust' = [seen |-> 0, wanted |-> 0]
    /\ UNCHANGED <<setup, now, flow, source, reader, current, started, slices, base, other>>

(* Cursor::next, which sleeps until the deadline.                          *)
Delivered == now >= DeliveryDeadline

NextIndex ==
    /\ rpc = "next" /\ Delivered
    /\ rpc' = "loop" /\ current' = current + Window /\ slices' = SyncSlices
    /\ UNCHANGED <<setup, now, flow, source, reader, started, base, adjust, shown, offset>>

(* The sink's pipeline of another flow finds its own buffers late.         *)
OtherLate(o) ==
    /\ rpc # "off" /\ setup.view = "single" /\ setup.auto /\ other.wanted = 0 /\ o > ptsOffset
    /\ other' = [seen |-> ptsOffset, wanted |-> o]
    /\ UNCHANGED <<setup, now, flow, source, sink, ptsOffset>>

OtherAdjusts ==
    /\ other.wanted # 0
    /\ ptsOffset' = IF ExchangeSucceeds(other.seen) THEN other.wanted ELSE ptsOffset
    /\ other' = [seen |-> 0, wanted |-> 0]
    /\ UNCHANGED <<setup, now, flow, source, sink>>

-----------------------------------------------------------------------------
WriterNext ==
    \/ WriterStart \/ WriterStop \/ PullMatching \/ PullAhead \/ PullBehind
    \/ FillGap \/ WriteGrain \/ WriteSamples \/ WriteRefused \/ WriteSlices \/ WriterWakes
    \/ \E d \in Shifts : Shift(d)

SinkStep ==
    \/ Iterate \/ GetMedia \/ GetTooLate \/ GetTooEarly \/ GetFlowInvalid \/ Reopen
    \/ Push \/ Adjust \/ NextIndex

OtherNext == OtherAdjusts \/ \E o \in OtherOffsets : OtherLate(o)

Next == Tick \/ WriterNext \/ SinkStart \/ SinkStep \/ OtherNext

Spec == Init /\ [][Next]_vars

(* Time goes on and the sink's thread keeps running; nothing is asked of   *)
(* the source, upstream or the other pipelines.                            *)
FairSpec == Spec /\ WF_vars(Tick) /\ WF_vars(SinkStep)

-----------------------------------------------------------------------------
(* When the source may at the earliest write where the media of index i    *)
(* are: after its next turn of the ring is due.                            *)
OverwrittenAt(i) ==
    TimeOf(i + WriterOffset + IF Video THEN GrainCount ELSE BufferLength - Window + 1)
        - TimeOf(1) - Lead

(* The media of sample j: the audio loops put a buffer before the index of *)
(* its timestamp.                                                          *)
MediaOf(j) == j + WriterOffset + Step

(* A buffer that the sink copies out of the ring in time holds the media   *)
(* of the index it asked for, or silence where the source filled a gap:    *)
(* with buffers lost, jumps of time, restarts, and a cursor that falls     *)
(* behind and realigns.                                                    *)
ShownIsTrue ==
    [][rpc = "push" /\ rpc' # "push" /\ now < OverwrittenAt(Requested) =>
        IF Video THEN Payload = <<Requested + WriterOffset>>
        ELSE \A k \in 1..Window :
                Payload[k] \in {Silence, MediaOf(Requested - Window + k - 1)}]_vars

(* Signed value of a PTS: media from before the start of the pipeline have *)
(* a negative one.                                                         *)
SignedPts(p) == IF p >= 2^(PtsBits - 1) THEN p - 2^PtsBits ELSE p

(* What the sink pushes goes forward, in the flow's indexes and in the     *)
(* pipeline's time, whatever realigns the cursor and whoever else adjusts  *)
(* the offset.                                                             *)
PlaybackOrdered ==
    [][rpc = "push" /\ rpc' # "push" /\ shown.index # UNDEFINED =>
        shown'.index > shown.index /\ SignedPts(shown'.pts) > SignedPts(shown.pts)]_vars

(* A buffer that follows on the one before it is written, unless that one  *)
(* came from the past: filling a gap leaves the source in step with its    *)
(* pipeline.                                                               *)
BuffersFollow ==
    [][got # UNDEFINED /\ ~behind /\ got' = got + Step => wpc' = "write"]_vars

(* A grain that the source marked instead of writing, and no more than     *)
(* that: the sink asks for it again and again.                             *)
AtInvalidGrain ==
    /\ reader # 0 /\ Video
    /\ ~TooLate /\ Requested <= Read.head /\ Grain.invalid /\ Grain.slices < TotalSlices

(* A sink left with a flow that is gone finds its successor, except that   *)
(* it never gets past an invalid grain at the end of the old one.          *)
SinkReconnects ==
    (rpc # "off" /\ published # 0 /\ reader # published) ~>
        (\/ reader = published \/ published = 0
         \/ AtInvalidGrain
         \/ now = MaxTime /\ DeliveryDeadline > now)

(* sink.cpp:499: "Invalid grains are skipped rather than pushed".  False of *)
(* a grain marked with slices missing, which the sink looks at for ever.   *)
InvalidGrainsSkipped == [](AtInvalidGrain => <>(~AtInvalidGrain))

(* --pts-offset, sink.cpp:1385-1387: "no PTS value supplied to GStreamer   *)
(* is ever in the past".  False of media from before the start of the      *)
(* pipeline, and of whoever finds the offset changed.                      *)
PtsNeverInPast ==
    [][(rpc = "push" \/ rpc = "adjust") /\ rpc' = "next" /\ setup.view = "single" /\ setup.auto =>
        SignedPts(shown'.pts) + base >= now]_vars

=============================================================================
