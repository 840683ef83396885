----------------------------- MODULE MxlElements -----------------------------
(***************************************************************************)
(* The GStreamer elements mxlsink and mxlsrc: a pipeline of sinks writes   *)
(* media to flows at the indexes its timestamps stand for, a pipeline of   *)
(* sources, possibly on another clock, reads the flows and gives the media *)
(* timestamps again.  Every pipeline has one cell for the offset between   *)
(* MXL time and its clock, which its elements share.                       *)
(*                                                                         *)
(* Each element has a streaming thread; the pipeline starts its elements   *)
(* one after the other, selects a clock and plays, and pauses a source by  *)
(* unlocking it (GStreamer, external).  A flow is its ring and its head.   *)
(***************************************************************************)
EXTENDS IndexConversion, FiniteSets

CONSTANTS
    Flows,
    Continuous,     \* the flows of samples, the others have grains
    Rate,           \* flow -> grains or samples per second
    GrainCount, BufferLength,   \* the rings
    BufferSamples,  \* samples of an audio buffer a sink is given
    Batch,          \* samples a source reads at once
    Bias,           \* clock -> how far it is ahead of the monotonic time
    FirstClock,     \* role -> the clock its pipeline selects first
    Epoch,          \* MXL time at the beginning
    Jump, MaxJumps, \* how far MXL time steps forward, and how often
    MaxTime,        \* bound on the time, by the flows in use
    MaxUnits, MaxDrops, MaxPauses,          \* bounds
    MaxDisturbed    \* bound on the flows in use where buffers drop or sources pause

ASSUME ElementsAssumption ==
    /\ {GrainCount, BufferSamples, Batch} \subseteq Nat \ {0}
    /\ BufferLength \in Nat /\ Continuous \subseteq Flows
    /\ Rate \in [Flows -> ValidRates]
    /\ 4 * Batch <= BufferLength

Roles    == {"sink", "src"}
Elements == Roles \X Flows
Cells    == Roles \X (0 .. Cardinality(Flows) - 1)
Clocks   == DOMAIN Bias
None     == <<"none">>
Silence  == -1
NoOffset == -1

VARIABLES
    active,         \* the flows the pipelines have elements for
    mono, jumps,    \* monotonic time; the steps MXL time has made
    phase,          \* role -> "ready", "playing", "pausing"
    clock, base,    \* role -> the clock of the pipeline and its base time
    run,            \* role -> the running time at which it was paused
    context,        \* role -> the cell the pipeline knows of
    cell,           \* element -> the cell it has adopted, numbered by its making
    offset,         \* cell -> the offset sampled
    pc, now, d,     \* element -> where its thread is, MXL time it read, offset
    exists, head, ring,     \* the flows
    unit,           \* flow -> the next grain or sample for the sink
    at, left,       \* flow -> timestamp and samples of what is left of a buffer
    src,            \* flow -> the state of the source, DiscreteState or ContinuousState
    want,           \* flow -> the index asked for, and whether it was jumped to
    drops, pauses,
    out,            \* history: flow -> what the source is delivering
    next            \* history: flow -> the index after the last delivery, 0 when it starts

time   == <<mono, jumps>>
pipes  == <<phase, clock, base, run, context, cell>>
thread == <<pc, now, d>>
flows  == <<exists, head, ring>>
sinks  == <<unit, at, left, drops>>
sources == <<src, want, out, next>>
setup   == <<active, pauses>>
vars   == <<time, pipes, offset, thread, flows, sinks, sources, setup>>

MxlNow == Epoch + mono + jumps * Jump
ClockTime(c) == mono + Bias[c]

(* What upstream stamps grain or sample n with.                            *)
PtsOf(f, n) == (n * Rate[f].den * Second) \div Rate[f].num

Running(p) == IF phase[p] = "playing" THEN ClockTime(clock[p]) - base[p] ELSE run[p]

Nothing  == [pts |-> None]

AtLeast0(n) == IF n < 0 THEN 0 ELSE n
Slots(f) == 0..(IF f \in Continuous THEN BufferLength ELSE GrainCount) - 1

Init ==
    /\ active \in SUBSET Flows \ {{}}
    /\ mono = 0 /\ jumps = 0
    /\ phase = [p \in Roles |-> "ready"]
    /\ clock = FirstClock
    /\ base = [p \in Roles |-> 0] /\ run = [p \in Roles |-> 0]
    /\ context = [p \in Roles |-> None]
    /\ cell = [e \in Elements |-> None] /\ offset = [c \in Cells |-> NoOffset]
    /\ pc = [e \in Elements |-> "idle"]
    /\ now = [e \in Elements |-> 0] /\ d = [e \in Elements |-> 0]
    /\ exists = [f \in Flows |-> FALSE] /\ head = [f \in Flows |-> 0]
    /\ ring = [f \in Flows |-> [s \in Slots(f) |->
                [index |-> 0, unit |-> Silence, complete |-> FALSE]]]
    /\ unit = [f \in Flows |-> 0] /\ at = [f \in Flows |-> 0] /\ left = [f \in Flows |-> 0]
    /\ src = [f \in Flows |-> [attached |-> FALSE, initialized |-> FALSE, index |-> 0,
                               discont |-> FALSE, flushing |-> FALSE]]
    /\ want = [f \in Flows |-> [index |-> 0, jumped |-> FALSE]]
    /\ drops = 0 /\ pauses = 0
    /\ out = [f \in Flows |-> Nothing] /\ next = [f \in Flows |-> 0]

-----------------------------------------------------------------------------
(* The pipeline.                                                           *)

(* A buffer is due (GstBaseSink with sync=true).  Time passes only while    *)
(* the sinks play and are on time, and not between the two looks at a       *)
(* clock; the sources may otherwise take any time.                          *)
Due(f) ==
    /\ phase["sink"] = "playing" /\ exists[f]
    /\ unit[f] < MaxUnits[f] /\ PtsOf(f, unit[f]) <= Running("sink")

Tick ==
    /\ mono < MaxTime[active] /\ phase["sink"] = "playing"
    /\ \A f \in active : exists[f] /\ pc[<<"sink", f>>] # "go" /\ ~Due(f)
    /\ \A e \in Elements : pc[e] # "sample"
    /\ mono' = mono + 1
    /\ UNCHANGED <<jumps, pipes, offset, thread, flows, sinks, sources, setup>>

ClockSteps ==
    /\ jumps < MaxJumps /\ \E p \in Roles : phase[p] # "ready"
    /\ jumps' = jumps + 1
    /\ UNCHANGED <<mono, pipes, offset, thread, flows, sinks, sources, setup>>

(* start() of one element: ensure_clock_offset() adopts the cell the       *)
(* pipeline knows of, or makes one and publishes it.                       *)
NewCell(p) == <<p, Cardinality({f \in active : cell[<<p, f>>] # None})>>

AdoptedCell_OfOneself(e) == NewCell(e[1])
AdoptedCell(e) == IF context[e[1]] # None THEN context[e[1]] ELSE NewCell(e[1])

Start(e) ==
    /\ phase[e[1]] = "ready" /\ e[2] \in active /\ cell[e] = None
    /\ cell' = [cell EXCEPT ![e] = AdoptedCell(e)]
    /\ context' = [context EXCEPT ![e[1]] = IF @ = None THEN cell'[e] ELSE @]
    /\ UNCHANGED <<time, phase, clock, base, run, offset, thread, flows, sinks, sources, setup>>

(* handle_set_clock() of every element drops what was sampled.             *)
Invalidated_Never(cells) == offset
Invalidated(cells) == [c \in Cells |-> IF c \in cells THEN NoOffset ELSE offset[c]]

(* To PLAYING: the clock is distributed if it is another one, the base time *)
(* makes running time go on where it was, sources are unlocked again.      *)
Play(p, c) ==
    LET mine == {p} \X active IN
    /\ \/ phase[p] = "ready" /\ c = clock[p] /\ \A e \in Roles \X active : cell[e] # None
       \/ phase[p] = "pausing" /\ \A e \in mine : pc[e] = "idle"
    /\ phase' = [phase EXCEPT ![p] = "playing"]
    /\ clock' = [clock EXCEPT ![p] = c]
    /\ offset' = IF clock[p] # c THEN Invalidated({cell[e] : e \in mine}) ELSE offset
    /\ base' = [base EXCEPT ![p] = ClockTime(c) - run[p]]
    /\ run' = [run EXCEPT ![p] = 0]
    /\ src' = IF p = "src" THEN [f \in Flows |-> [src[f] EXCEPT !.flushing = FALSE]] ELSE src
    /\ out' = IF p = "src" THEN [f \in Flows |-> Nothing] ELSE out
    /\ next' = IF p = "src" THEN [f \in Flows |-> 0] ELSE next
    /\ UNCHANGED <<time, context, cell, thread, flows, sinks, want, setup>>

(* To PAUSED: unlock() of every source.                                    *)
Unlock ==
    /\ phase["src"] = "playing" /\ pauses < MaxPauses /\ Cardinality(active) <= MaxDisturbed
    /\ pauses' = pauses + 1
    /\ phase' = [phase EXCEPT !["src"] = "pausing"]
    /\ run' = [run EXCEPT !["src"] = Running("src")]
    /\ src' = [f \in Flows |-> [src[f] EXCEPT !.flushing = TRUE]]
    /\ UNCHANGED <<active, time, clock, base, context, cell, offset, thread, flows, sinks, want, out, next>>

-----------------------------------------------------------------------------
(* resolve_clock_offset(): MXL time is read first, then the cell is locked *)
(* and the pipeline's clock is read only if nobody has sampled yet.        *)

Resolving(e) ==
    IF offset[cell[e]] # NoOffset
    THEN d' = [d EXCEPT ![e] = offset[cell[e]]] /\ pc' = [pc EXCEPT ![e] = "go"] /\ now' = now
    ELSE now' = [now EXCEPT ![e] = MxlNow] /\ pc' = [pc EXCEPT ![e] = "sample"] /\ d' = d

ClockOffset(e) == AtLeast0(now[e] - ClockTime(clock[e[1]]))
GetOrSample_Always(e) == ClockOffset(e)
GetOrSample(e) == IF offset[cell[e]] # NoOffset THEN offset[cell[e]] ELSE ClockOffset(e)

Sample(e) ==
    /\ pc[e] = "sample"
    /\ offset' = [offset EXCEPT ![cell[e]] = GetOrSample(e)]
    /\ d' = [d EXCEPT ![e] = GetOrSample(e)]
    /\ pc' = [pc EXCEPT ![e] = "go"] /\ now' = [now EXCEPT ![e] = 0]
    /\ UNCHANGED <<time, pipes, flows, sinks, sources, setup>>

-----------------------------------------------------------------------------
(* mxlsink.                                                                *)

BufferUnits(f) == IF f \in Continuous THEN BufferSamples ELSE 1

(* set_caps() creates the flow, which must be a new one.                   *)
SetCaps(f) ==
    LET e == <<"sink", f>> IN
    /\ cell[e] # None /\ pc[e] = "idle" /\ ~exists[f]
    /\ exists' = [exists EXCEPT ![f] = TRUE]
    /\ UNCHANGED <<time, pipes, offset, thread, head, ring, sinks, sources, setup>>

Render(f) ==
    LET e == <<"sink", f>> IN
    /\ Due(f) /\ pc[e] = "idle"
    /\ Resolving(e)
    /\ UNCHANGED <<time, pipes, offset, flows, sinks, sources, setup>>

(* Upstream has no buffer for this time.                                   *)
Drop(f) ==
    /\ pc[<<"sink", f>>] = "idle" /\ unit[f] < MaxUnits[f] /\ drops < MaxDrops
    /\ f \in active /\ Cardinality(active) <= MaxDisturbed
    /\ drops' = drops + 1
    /\ unit' = [unit EXCEPT ![f] = @ + BufferUnits(f)]
    /\ UNCHANGED <<time, pipes, offset, thread, flows, at, left, sources, setup>>

Fail(e) == pc' = [pc EXCEPT ![e] = "failed"] /\ UNCHANGED <<flows, sinks>>

MxlTime(f) == PtsOf(f, unit[f]) + base["sink"] + d[<<"sink", f>>]

(* openGrain() refuses what is not behind the last grain and marks what is *)
(* skipped, at most a ring of it.                                          *)
RingWithGrain(f, index, n) ==
    [s \in Slots(f) |->
        LET skipped == {i \in head[f] + 1 .. index - 1 :
                          i >= index - GrainCount /\ i % GrainCount = s} IN
        IF s = index % GrainCount
        THEN [index |-> index, unit |-> n, complete |-> TRUE]
        ELSE IF head[f] # 0 /\ skipped # {}
        THEN [ring[f][s] EXCEPT !.index = CHOOSE i \in skipped : TRUE, !.complete = FALSE]
        ELSE ring[f][s]]

CommitGrain(f) ==
    LET e == <<"sink", f>>
        index == TimestampToIndex(Rate[f], MxlTime(f)) IN
    /\ f \notin Continuous /\ pc[e] = "go"
    /\ IF head[f] # 0 /\ index <= head[f] THEN Fail(e)
       ELSE /\ ring' = [ring EXCEPT ![f] = RingWithGrain(f, index, unit[f])]
            /\ head' = [head EXCEPT ![f] = index]
            /\ unit' = [unit EXCEPT ![f] = @ + 1]
            /\ pc' = [pc EXCEPT ![e] = "idle"]
            /\ UNCHANGED <<exists, at, left, drops>>
    /\ UNCHANGED <<time, pipes, offset, now, d, sources, setup>>

(* The chunks of an audio buffer, each later by the duration of the one    *)
(* before it.  openSamples() refuses an overlap, commit() clears a gap.    *)
RingWithSamples(f, start, count, n) ==
    [s \in Slots(f) |->
        LET new  == {i \in start .. start + count - 1 : i % BufferLength = s}
            gone == {i \in head[f] .. start - 1 :
                       i >= start + count - BufferLength /\ i % BufferLength = s} IN
        IF new # {}
        THEN [index |-> 0, unit |-> n + (CHOOSE i \in new : TRUE) - start, complete |-> TRUE]
        ELSE IF head[f] # 0 /\ gone # {} THEN [ring[f][s] EXCEPT !.unit = Silence]
        ELSE ring[f][s]]

Duration(f, count) == (count * Rate[f].den * Second) \div Rate[f].num

CommitChunk(f) ==
    LET e     == <<"sink", f>>
        fresh == left[f] = 0
        rest  == IF fresh THEN BufferSamples ELSE left[f]
        ts    == IF fresh THEN MxlTime(f) ELSE at[f]
        count == IF rest <= BufferLength \div 2 THEN rest ELSE BufferLength \div 2
        start == TimestampToIndex(Rate[f], ts) IN
    /\ f \in Continuous /\ pc[e] = "go"
    /\ IF head[f] # 0 /\ start < head[f] THEN Fail(e)
       ELSE /\ ring' = [ring EXCEPT ![f] = RingWithSamples(f, start, count, unit[f])]
            /\ head' = [head EXCEPT ![f] = start + count]
            /\ unit' = [unit EXCEPT ![f] = @ + count]
            /\ left' = [left EXCEPT ![f] = rest - count]
            /\ at' = [at EXCEPT ![f] = IF rest = count THEN 0 ELSE ts + Duration(f, count)]
            /\ pc' = [pc EXCEPT ![e] = IF rest = count THEN "idle" ELSE "go"]
            /\ UNCHANGED <<exists, drops>>
    /\ UNCHANGED <<time, pipes, offset, now, d, sources, setup>>

-----------------------------------------------------------------------------
(* mxlsrc.                                                                 *)

(* create() of a playing source, and its loop while there is no data: only *)
(* unlock() ends it, also where it waits for the flow to exist.            *)
NextLook_FlowFirst(f) ==
    IF ~src[f].attached THEN "attach" ELSE IF src[f].flushing THEN "idle" ELSE "resolve"
NextLook(f) ==
    IF src[f].flushing THEN "idle" ELSE IF src[f].attached THEN "resolve" ELSE "attach"

Create(f) ==
    LET e == <<"src", f>> IN
    /\ \/ pc[e] = "look"
       \/ pc[e] = "idle" /\ phase["src"] = "playing" /\ f \in active
    /\ IF NextLook(f) = "resolve" THEN Resolving(e)
       ELSE pc' = [pc EXCEPT ![e] = NextLook(f)] /\ d' = [d EXCEPT ![e] = 0] /\ now' = now
    /\ out' = [out EXCEPT ![f] = Nothing]
    /\ UNCHANGED <<time, pipes, offset, flows, sinks, src, want, next, setup>>

AttachReader(f) ==
    LET e == <<"src", f>> IN
    /\ pc[e] = "attach"
    /\ src' = [src EXCEPT ![f].attached = exists[f]]
    /\ IF exists[f] THEN Resolving(e) ELSE pc' = [pc EXCEPT ![e] = "look"] /\ UNCHANGED <<now, d>>
    /\ UNCHANGED <<time, pipes, offset, flows, sinks, want, out, next, setup>>

(* A source of grains: the newest one at first, then one after the other,  *)
(* or the oldest one it may still look at.                                 *)
OldestVisible(f) ==
    IF head[f] >= GrainCount THEN head[f] - GrainCount + 2 ELSE AtLeast0(head[f] - GrainCount + 1)

ResolveReadStep(f) ==
    LET e == <<"src", f>>
        i == IF src[f].initialized THEN src[f].index ELSE head[f] IN
    /\ f \notin Continuous /\ pc[e] = "go"
    /\ src' = [src EXCEPT ![f].initialized = @ \/ head[f] # 0, ![f].index = i]
    /\ IF head[f] = 0 \/ i > head[f]
       THEN pc' = [pc EXCEPT ![e] = "look"] /\ UNCHANGED want
       ELSE /\ want' = [want EXCEPT ![f] =
                    IF i < OldestVisible(f) THEN [index |-> OldestVisible(f), jumped |-> TRUE]
                                            ELSE [index |-> i, jumped |-> FALSE]]
            /\ pc' = [pc EXCEPT ![e] = "grain"]
    /\ UNCHANGED <<time, pipes, offset, now, d, flows, sinks, out, next, setup>>

(* A grain or samples go downstream with the timestamp of their index, or  *)
(* are passed over when it lies before the start of the pipeline.          *)
Pts(f, i) == IndexToTimestamp(Rate[f], i) - (d[<<"src", f>>] + base["src"])

PreStart_Never(f, i) == FALSE
PreStart(f, i) == Pts(f, i) < 0

NextDiscont_Forgotten(f, skipped) == src[f].discont
NextDiscont(f, skipped) == src[f].discont \/ skipped

Deliver(f, i, count, u, skipped) ==
    LET e == <<"src", f>> IN
    IF PreStart(f, i)
    THEN /\ src' = [src EXCEPT ![f].index = i + count, ![f].discont = NextDiscont(f, skipped)]
         /\ pc' = [pc EXCEPT ![e] = "look"] /\ UNCHANGED <<d, out, next>>
    ELSE /\ src' = [src EXCEPT ![f].index = i + count, ![f].discont = FALSE]
         /\ out' = [out EXCEPT ![f] = [index |-> i, unit |-> u, pts |-> Pts(f, i),
                                        discont |-> NextDiscont(f, skipped)]]
         /\ next' = [next EXCEPT ![f] = i + count]
         /\ pc' = [pc EXCEPT ![e] = "idle"] /\ d' = [d EXCEPT ![e] = 0]

NoWant == [index |-> 0, jumped |-> FALSE]

(* get_complete_grain() asks for the grain again until it is complete, and *)
(* each time mxlFlowReaderGetGrain() looks at the head before the slot.  A *)
(* grain marked as skipped is handed out at once and never complete.       *)
CheckRange(f) ==
    LET e == <<"src", f>>
        late == want[f].index < OldestVisible(f) IN
    /\ pc[e] = "grain"
    /\ pc' = [pc EXCEPT ![e] = IF late THEN "look" ELSE "slot"]
    /\ want' = IF late THEN [want EXCEPT ![f] = NoWant] ELSE want
    /\ UNCHANGED <<time, pipes, offset, now, d, flows, sinks, src, out, next, setup>>

Slot(f) == ring[f][want[f].index % GrainCount]

TakeGrain(f) ==
    LET e == <<"src", f>> IN
    /\ pc[e] = "slot"
    /\ IF ~Slot(f).complete
       THEN pc' = [pc EXCEPT ![e] = "grain"] /\ UNCHANGED <<sources, d>>
       ELSE /\ want' = [want EXCEPT ![f] = NoWant]
            /\ IF Slot(f).index < want[f].index
               THEN pc' = [pc EXCEPT ![e] = "look"] /\ UNCHANGED <<src, out, next, d>>
               ELSE Deliver(f, Slot(f).index, 1, Slot(f).unit,
                            want[f].jumped \/ Slot(f).index # want[f].index)
    /\ UNCHANGED <<time, pipes, offset, now, flows, sinks, setup>>

(* A source of samples: a batch behind the head at first, then one after   *)
(* the other, or two behind the head if the next one is gone.              *)
OldestReadable(f) == AtLeast0(head[f] - BufferLength \div 2)

CatchUp(f) ==
    LET e == <<"src", f>>
        i == IF src[f].initialized THEN src[f].index ELSE AtLeast0(head[f] - Batch)
        late == i < OldestReadable(f) IN
    /\ f \in Continuous /\ pc[e] = "go"
    /\ src' = [src EXCEPT ![f].initialized = TRUE,
                          ![f].index = IF late THEN AtLeast0(head[f] - 2 * Batch) ELSE i,
                          ![f].discont = @ \/ late]
    /\ pc' = [pc EXCEPT ![e] = "samples"]
    /\ UNCHANGED <<time, pipes, offset, now, d, flows, sinks, want, out, next, setup>>

GetSamples(f) ==
    LET e == <<"src", f>> IN
    /\ pc[e] = "samples"
    /\ IF src[f].index + Batch <= head[f] /\ src[f].index >= OldestReadable(f)
       THEN Deliver(f, src[f].index, Batch, ring[f][src[f].index % BufferLength].unit, FALSE)
       ELSE pc' = [pc EXCEPT ![e] = "look"] /\ UNCHANGED <<src, out, next, d>>
    /\ UNCHANGED <<time, pipes, offset, now, flows, sinks, want, setup>>

-----------------------------------------------------------------------------
SinkStep(f) == Render(f) \/ CommitGrain(f) \/ CommitChunk(f)

SourceStep(f) ==
    \/ Create(f) \/ AttachReader(f)
    \/ ResolveReadStep(f) \/ CheckRange(f) \/ TakeGrain(f)
    \/ CatchUp(f) \/ GetSamples(f)

Next ==
    \/ Tick \/ ClockSteps \/ Unlock
    \/ \E p \in Roles, c \in Clocks : Play(p, c)
    \/ \E e \in Elements : Start(e) \/ Sample(e)
    \/ \E f \in Flows : SetCaps(f) \/ Drop(f) \/ SinkStep(f) \/ SourceStep(f)

Spec == Init /\ [][Next]_vars

(* A thread that has something to do is scheduled.                         *)
FairSpec ==
    /\ Spec
    /\ \A f \in Flows : WF_vars(SourceStep(f) \/ Sample(<<"src", f>>))

-----------------------------------------------------------------------------
(* Properties.                                                             *)

Delivery == [index : Nat, unit : Nat \cup {Silence}, pts : Nat, discont : BOOLEAN]

(* Every variable is of its type: in particular no element resolves an     *)
(* offset without a cell, and nothing leaves a source with a time before   *)
(* the start of its pipeline (pts_for_index()).                            *)
TypeOK ==
    /\ phase \in [Roles -> {"ready", "playing", "pausing"}]
    /\ clock \in [Roles -> Clocks] /\ context \in [Roles -> Cells \cup {None}]
    /\ cell \in [Elements -> Cells \cup {None}] /\ offset \in [Cells -> Nat \cup {NoOffset}]
    /\ pc \in [Elements -> {"idle", "look", "attach", "sample", "go", "grain", "slot",
                            "samples", "failed"}]
    /\ \A e \in Elements : pc[e] # "idle" => cell[e] # None
    /\ head \in [Flows -> Nat]
    /\ out \in [Flows -> Delivery \cup {Nothing}]

(* Whatever goes in with two timestamps comes out with timestamps as far   *)
(* apart, whichever of the sinks and sources came first, sampled first or  *)
(* fell behind, and whatever MXL time does: all of a pipeline convert with *)
(* one offset (clock.rs:55-64, timing.rs:12-20).  Rounding to an index     *)
(* costs half a period.                                                    *)
HalfPeriod(f) == (Rate[f].den * Second + 2 * Rate[f].num - 1) \div (2 * Rate[f].num)

Heard(f) == out[f] # Nothing /\ out[f].unit # Silence

StreamsStayInSync ==
    \A f, g \in Flows : Heard(f) /\ Heard(g) =>
        LET drift == (out[f].pts - out[g].pts) - (PtsOf(f, out[f].unit) - PtsOf(g, out[g].unit)) IN
        drift <= HalfPeriod(f) + HalfPeriod(g)

(* Media leaves a source with a timestamp that its pipeline has come to,   *)
(* but for what a sink writes ahead, for rounding and for the steps MXL    *)
(* time has made: the offset is that of the clock the pipeline runs on,    *)
(* also after it has changed its clock (handle_set_clock(),                *)
(* clock.rs:146-156).                                                      *)
PtsInRunningTime ==
    \A f \in Flows : out[f] # Nothing =>
        out[f].pts <= ClockTime(clock["src"]) - base["src"] + (BufferUnits(f) * Rate[f].den * Second) \div Rate[f].num
                   + HalfPeriod(f) + jumps * Jump

(* A source never goes back, and what follows on something that was left   *)
(* out is flagged, be it that the ring went over the source before it      *)
(* looked, while it looked, or in between (create_discrete.rs:70-99,       *)
(* create_continuous.rs:52-58).                                            *)
DiscontinuityFlagged ==
    [][\A f \in Flows : out[f] = Nothing /\ out'[f] # Nothing /\ next[f] # 0 =>
          /\ out'[f].index >= next[f]
          /\ out'[f].index > next[f] => out'[f].discont]_vars

(* get_complete_grain() goes round in a slot that was marked as skipped.   *)
SpinsOnSkipped(f) == pc[<<"src", f>>] \in {"grain", "slot"} /\ ~Slot(f).complete

(* create() returns once the source is unlocked, whether it waits for the  *)
(* flow to exist, for media or for nothing, unless it is caught in a grain *)
(* that was skipped.                                                       *)
CreateReturns ==
    \A f \in Flows : src[f].flushing ~> pc[<<"src", f>>] = "idle" \/ SpinsOnSkipped(f)

(* "Only bail when the pipeline is tearing us down (basesrc calls          *)
(* unlock(), which sets is_flushing); otherwise keep waiting"              *)
(* (mxlsrc/imp.rs:602-604): a source that is unlocked leaves create().     *)
UnlockEndsCreate == \A f \in Flows : src[f].flushing ~> pc[<<"src", f>>] = "idle"
=============================================================================
