---------------------------- MODULE RDMTransfer ----------------------------
(***************************************************************************)
(* A connectionless initiator (RDMInitiator), the protocols it transfers   *)
(* grains or samples with, the fabric and the targets (RDMTarget).  The    *)
(* format of the flow decides on the protocol.                             *)
(*                                                                         *)
(* The application is the one of tools/mxl-fabrics-demo: it passes on what *)
(* the source flow holds, slices of a grain as they are committed, and the *)
(* one at the target commits what was announced before it reads on.        *)
(***************************************************************************)
EXTENDS GrainProtocol, SampleProtocol, FiniteSets

CONSTANTS Targets,
          Formats,        \* subset of {"grains", "samples"}
          BusyRemovals,   \* formats with targets removed before Ready
          SourceCount,    \* grains in the ring of the initiator
          TargetCount,    \* grains in the ring of a target
          PendingBits,    \* width of the counter of writes
          MaxGrain,       \* bounds the grains produced
          MaxSample,      \* bounds the samples produced
          MaxTokens,      \* bounds the targets added
          MaxWire         \* bounds the writes under way and the completions queued

ASSUME RDMAssumption ==
    /\ Formats \subseteq {"grains", "samples"}
    /\ BusyRemovals \subseteq Formats
    /\ {SourceCount, TargetCount, PendingBits} \subseteq Nat \ {0}
    /\ TargetCount > 1 /\ IsFiniteSet(Targets)
    /\ {MaxGrain, MaxSample, MaxTokens, MaxWire} \subseteq Nat

\* The counter of a target has room for every write under way.
ASSUME CounterAssumption ==
    2 ^ PendingBits \in Nat /\ MaxWire < 2 ^ PendingBits

VARIABLES
    format,    \* of the flow
    produced,  \* the source: newest grain (or number of samples), slices of
               \* it that are valid, grains flagged invalid
    at, start, \* the next grain (or sample) and slice to transfer
    st,        \* of a target: "Absent", "Idle" or "Activated"
    token,     \* the token of its completions, 0 before the first
    tokens,    \* tokens handed out
    pending,   \* _pending of its protocol
    bounce,    \* its protocol for samples: the next entry, entry headers
    wire,      \* writes under way, oldest first
    cq,        \* completion queue of the initiator
    mem,       \* memory of a target that is written to: grains or entries
    ring,      \* the ring of samples of a target
    notices,   \* writes with immediate data a target has not read
    reported,  \* the grain or head a target read and has not committed, 0 if none
    head,      \* what the target has committed
    lost,      \* a write has failed under way (both happen once at most)
    jammed     \* posting a write has failed

vars == <<format, produced, at, start, st, token, tokens, pending, bounce, wire, cq,
          mem, ring, notices, reported, head, lost, jammed>>

SlotIn(index, count) == index % count

Samples == 1 .. Channels * MaxBatch

NoHeader == [index |-> 0, count |-> 0]

Fresh == [entry |-> 0, headers |-> [e \in 0 .. EntryCount - 1 |-> NoHeader]]

EmptyGrain ==
    [c \in 0 .. GrainLength - 1 |->
        IF c = Header THEN [index |-> 0, valid |-> 0, invalid |-> FALSE] ELSE 0]

EmptyEntry == [header |-> NoHeader, samples |-> [k \in Samples |-> <<0, 0>>]]

Init ==
    /\ format \in Formats
    /\ produced = [newest |-> 0, valid |-> TotalSlices, invalid |-> {}]
    /\ at = (IF format = "grains" THEN 1 ELSE 0) /\ start = 0
    /\ st = [t \in Targets |-> "Absent"]
    /\ token = [t \in Targets |-> 0] /\ tokens = 0
    /\ pending = [t \in Targets |-> 0]
    /\ bounce = [t \in Targets |-> Fresh]
    /\ wire = [t \in Targets |-> <<>>]
    /\ cq = <<>>
    /\ mem = [t \in Targets |-> IF format = "grains" THEN [k \in 0 .. TargetCount - 1 |-> EmptyGrain]
                                ELSE [e \in 0 .. EntryCount - 1 |-> EmptyEntry]]
    /\ ring = [t \in Targets |-> [ch \in 0 .. Channels - 1 |-> [o \in 0 .. TargetLength - 1 |-> <<0, 0>>]]]
    /\ notices = [t \in Targets |-> <<>>]
    /\ reported = [t \in Targets |-> 0] /\ head = [t \in Targets |-> 0]
    /\ lost = FALSE /\ jammed = FALSE

-----------------------------------------------------------------------------
\* The source flow, which never overtakes what is still to be transferred.

SourceGrain(i) ==
    LET valid == IF i < produced.newest THEN TotalSlices ELSE produced.valid
    IN  [c \in 0 .. GrainLength - 1 |->
            IF c = Header
            THEN [index |-> i, valid |-> valid, invalid |-> i \in produced.invalid]
            ELSE IF i \in produced.invalid \/ SliceOfCell(c) >= valid THEN 0 ELSE i]

\* The sample at an offset is the newest one that belongs there.
SourceRing ==
    [ch \in 0 .. Channels - 1 |->
        [o \in 0 .. SourceLength - 1 |->
            <<ch, produced.newest - 1 - ((produced.newest - 1 - o) % SourceLength)>>]]

Needed ==
    {at} \cup UNION {{wire[t][k].first : k \in DOMAIN wire[t]} : t \in Targets}

CommitSlices ==
    /\ format = "grains"
    /\ produced.valid < TotalSlices
    /\ \E n \in produced.valid + 1 .. TotalSlices : produced' = [produced EXCEPT !.valid = n]

NextGrain ==
    LET i == produced.newest + 1
    IN  /\ format = "grains"
        /\ produced.valid = TotalSlices
        /\ i <= MaxGrain
        /\ \A first \in Needed : i < first + SourceCount
        /\ \/ \E n \in 1 .. TotalSlices : produced' = [produced EXCEPT !.newest = i, !.valid = n]
           \/ produced' = [produced EXCEPT !.newest = i, !.invalid = @ \cup {i}]

MoreSamples ==
    /\ format = "samples"
    /\ produced.newest < MaxSample
    /\ \A first \in Needed : produced.newest < first + SourceLength
    /\ produced' = [produced EXCEPT !.newest = @ + 1]

Produce ==
    /\ CommitSlices \/ NextGrain \/ MoreSamples
    /\ UNCHANGED <<format, at, start, st, token, tokens, pending, bounce, wire, cq,
                   mem, ring, notices, reported, head, lost, jammed>>

-----------------------------------------------------------------------------
\* The initiator.

Active == {t \in Targets : st[t] = "Activated"}

\* A target is added between two grains and before it missed one.
AddTarget(t) ==
    /\ st[t] = "Absent"
    /\ tokens < MaxTokens
    /\ start = 0 /\ (format = "grains" => at = head[t] + 1)
    /\ st' = [st EXCEPT ![t] = "Idle"]
    /\ tokens' = tokens + 1
    /\ token' = [token EXCEPT ![t] = tokens + 1]
    /\ pending' = [pending EXCEPT ![t] = 0]
    /\ bounce' = [bounce EXCEPT ![t] = Fresh]
    /\ UNCHANGED <<format, produced, at, start, wire, cq, mem, ring, notices, reported,
                   head, lost, jammed>>

\* The target is forgotten at once; its writes go on.
RemoveTarget(t) ==
    /\ st[t] # "Absent"
    /\ format \in BusyRemovals \/ (pending[t] = 0 /\ ~jammed)
    /\ st' = [st EXCEPT ![t] = "Absent"]
    /\ UNCHANGED <<format, produced, at, start, token, tokens, pending, bounce, wire, cq,
                   mem, ring, notices, reported, head, lost, jammed>>

\* Posting writes(t) to every activated target in the order of their tokens;
\* the fabric may refuse a write, which ends the transfer after n writes.
Before(t) == {u \in Active : token[u] < token[t]}

Share(t, each, n) ==
    LET left == n - each * Cardinality(Before(t))
    IN  IF t \notin Active \/ left <= 0 THEN 0 ELSE IF left >= each THEN each ELSE left

Post(writes(_), each, n) ==
    wire' = [t \in Targets |-> wire[t] \o SubSeq(writes(t), 1, Share(t, each, n))]

\* Targets that keep up: at most one grain ahead of what they committed.
KeepsUp(t) == at <= head[t] + 1

TransferGrain ==
    LET invalid == at \in produced.invalid
        end     == IF at < produced.newest THEN TotalSlices ELSE produced.valid
        ws      == IF invalid THEN GrainWrites(0, 0) ELSE GrainWrites(start, end)
        slot    == SlotIn(at, TargetCount)
        Write(t) ==
            [k \in DOMAIN ws |->
               [token |-> token[t], first |-> at, write |-> ws[k], slot |-> slot,
                imm |-> GrainImm(slot, IF invalid THEN 0 ELSE end)]]
        each    == Len(ws)
        all     == each * Cardinality(Active)
    IN  /\ format = "grains"
        /\ Active # {} /\ \A t \in Targets : st[t] # "Idle"
        /\ \A t \in Active : KeepsUp(t) /\ Len(wire[t]) + Len(cq) + each <= MaxWire
        /\ at <= produced.newest /\ (start < end \/ invalid)
        /\ \E n \in (IF jammed THEN {} ELSE 0 .. all - 1) \cup {all} :
              /\ Post(Write, each, n)
              /\ jammed' = (jammed \/ n < all)
              /\ pending' = [t \in Targets |-> (pending[t] + Share(t, each, n)) % 2 ^ PendingBits]
              /\ IF n < all THEN UNCHANGED <<at, start>>
                 ELSE IF end < TotalSlices THEN at' = at /\ start' = end
                 ELSE at' = at + 1 /\ start' = 0
        /\ UNCHANGED <<format, produced, st, token, tokens, bounce, cq, mem, ring, notices,
                       reported, head, lost>>

\* Nothing keeps the initiator from using an entry again; an application that
\* does not run ahead of its target by all entries keeps it free.
EntryFree(t) ==
    /\ \A k \in DOMAIN wire[t] : wire[t][k].slot # bounce[t].entry \/ wire[t][k].first >= at
    /\ \A k \in DOMAIN notices[t] : notices[t][k].slot # bounce[t].entry

\* The writes of a range are counted once the last of them is posted.
TransferSamples(count) ==
    LET index == at + count
        ws    == SampleWrites(index, count)
        Write(t) ==
            [k \in DOMAIN ws |->
               [token |-> token[t], first |-> at, write |-> ws[k], slot |-> bounce[t].entry,
                imm |-> [index |-> index, count |-> count]]]
        each  == Len(ws)
        all   == each * Cardinality(Active)
    IN  /\ format = "samples"
        /\ Active # {} /\ \A t \in Targets : st[t] # "Idle"
        /\ \A t \in Active : EntryFree(t) /\ Len(wire[t]) + Len(cq) + each <= MaxWire
        /\ index <= produced.newest
        /\ \E n \in (IF jammed THEN {} ELSE 0 .. all - 1) \cup {all} :
              LET Done(t)    == t \in Active /\ Share(t, each, n) = each
                  Reached(t) == t \in Active /\ n >= each * Cardinality(Before(t))
              IN  /\ Post(Write, each, n)
                  /\ pending' = [t \in Targets |->
                        IF Done(t) THEN (pending[t] + each) % 2 ^ PendingBits ELSE pending[t]]
                  /\ bounce' = [t \in Targets |->
                        [entry   |-> IF Done(t) THEN (bounce[t].entry + 1) % EntryCount
                                     ELSE bounce[t].entry,
                         headers |-> IF Reached(t)
                                     THEN [bounce[t].headers EXCEPT
                                             ![bounce[t].entry] = [index |-> index, count |-> count]]
                                     ELSE bounce[t].headers]]
                  /\ at' = IF n = all THEN index ELSE at
                  /\ jammed' = (jammed \/ n < all)
        /\ UNCHANGED <<format, produced, start, st, token, tokens, cq, mem, ring, notices,
                       reported, head, lost>>

\* makeProgress() and its blocking form: activate, take one completion.  That
\* of a target that is gone is dropped, an error counts for nothing.
Consume_AnyToken(c) ==
    [t \in Targets |->
        IF c.ok /\ st[t] # "Absent" THEN (pending[t] - 1) % 2 ^ PendingBits ELSE pending[t]]

Consume(c) ==
    [t \in Targets |->
        IF c.ok /\ token[t] = c.token /\ st[t] # "Absent"
        THEN (pending[t] - 1) % 2 ^ PendingBits ELSE pending[t]]

MakeProgress ==
    /\ st' = [t \in Targets |-> IF st[t] = "Idle" THEN "Activated" ELSE st[t]]
    /\ IF cq = <<>> THEN UNCHANGED <<cq, pending>>
       ELSE cq' = Tail(cq) /\ pending' = Consume(Head(cq))
    /\ st' # st \/ cq # <<>>
    /\ UNCHANGED <<format, produced, at, start, token, tokens, bounce, wire, mem, ring,
                   notices, reported, head, lost, jammed>>

\* afterProgressResult()
Ready == \A t \in Targets : st[t] = "Absent" \/ (st[t] = "Activated" /\ pending[t] = 0)

-----------------------------------------------------------------------------
\* The fabric carries the writes to a target out in order, and reads the
\* memory of the source only then.

WrittenGrain(w, grain) ==
    LET source == SourceGrain(w.first)
    IN  [c \in DOMAIN grain |->
            IF c \in w.write.offset .. w.write.offset + w.write.size - 1 THEN source[c] ELSE grain[c]]

WrittenEntry(w, entry, header) ==
    LET data == Gather(SourceRing, w.write.pieces)
    IN  [header  |-> IF w.write.header THEN header ELSE entry.header,
         samples |-> [k \in Samples |->
                        IF k - w.write.offset \in DOMAIN data THEN data[k - w.write.offset]
                        ELSE entry.samples[k]]]

\* The header of a target that was removed is read from memory that is freed.
HeaderRead(t, w) ==
    IF w.token = token[t] /\ st[t] # "Absent" THEN {bounce[t].headers[w.slot]}
    ELSE {NoHeader, [index |-> 0, count |-> MaxBatch + 1]}

Complete(t, ok) ==
    LET w == Head(wire[t])
    IN  /\ wire[t] # <<>>
        /\ ok \/ ~lost
        /\ wire' = [wire EXCEPT ![t] = Tail(@)]
        /\ cq' = Append(cq, [token |-> w.token, ok |-> ok])
        /\ lost' = (lost \/ ~ok)
        /\ IF ~ok THEN UNCHANGED mem
           ELSE IF format = "grains" THEN mem' = [mem EXCEPT ![t][w.slot] = WrittenGrain(w, @)]
           ELSE \E header \in HeaderRead(t, w) :
                   mem' = [mem EXCEPT ![t][w.slot] = WrittenEntry(w, @, header)]
        /\ notices' = IF ok /\ w.write.imm
                      THEN [notices EXCEPT ![t] = Append(@, [slot |-> w.slot, imm |-> w.imm, first |-> w.first])]
                      ELSE notices
        /\ UNCHANGED <<format, produced, at, start, st, token, tokens, pending, bounce, ring,
                       reported, head, jammed>>

-----------------------------------------------------------------------------
\* A target and its application.

ReadGrain(t) ==
    LET n == Head(notices[t])
    IN  /\ format = "grains"
        /\ mem' = [mem EXCEPT ![t][n.imm.slot] = AcceptGrain(@, n.imm)]
        /\ reported' = [reported EXCEPT ![t] = mem[t][n.imm.slot][Header].index]
        /\ UNCHANGED ring

\* A count that cannot be is refused.
ReadSamples(t) ==
    LET entry == mem[t][Head(notices[t]).slot]
    IN  /\ format = "samples"
        /\ IF entry.header.count > MaxBatch THEN UNCHANGED <<ring, reported>>
           ELSE /\ ring' = [ring EXCEPT ![t] = Unpack(@, entry.header, entry.samples)]
                /\ reported' = [reported EXCEPT ![t] = entry.header.index]
        /\ UNCHANGED mem

ReadTarget(t) ==
    /\ notices[t] # <<>> /\ reported[t] = 0
    /\ ReadGrain(t) \/ ReadSamples(t)
    /\ notices' = [notices EXCEPT ![t] = Tail(@)]
    /\ UNCHANGED <<format, produced, at, start, st, token, tokens, pending, bounce, wire, cq,
                   head, lost, jammed>>

CommitTarget(t) ==
    /\ reported[t] # 0
    /\ head' = [head EXCEPT ![t] = IF reported[t] > @ THEN reported[t] ELSE @]
    /\ reported' = [reported EXCEPT ![t] = 0]
    /\ UNCHANGED <<format, produced, at, start, st, token, tokens, pending, bounce, wire, cq,
                   mem, ring, notices, lost, jammed>>

-----------------------------------------------------------------------------
Next ==
    \/ Produce \/ TransferGrain \/ MakeProgress
    \/ \E count \in 1 .. MaxBatch : TransferSamples(count)
    \/ \E t \in Targets :
          \/ AddTarget(t) \/ RemoveTarget(t) \/ ReadTarget(t) \/ CommitTarget(t)
          \/ \E ok \in BOOLEAN : Complete(t, ok)

Spec == Init /\ [][Next]_vars

-----------------------------------------------------------------------------
MaxIndex == IF format = "grains" THEN MaxGrain ELSE MaxSample

\* Every variable has its type; every write stays inside the grain or entry
\* it is for.
TypeOK ==
    /\ format \in Formats
    /\ produced.newest \in 0 .. MaxIndex /\ produced.valid \in 1 .. TotalSlices
    /\ produced.invalid \subseteq 1 .. MaxIndex
    /\ at \in 0 .. MaxIndex + 1 /\ start \in 0 .. TotalSlices - 1
    /\ st \in [Targets -> {"Absent", "Idle", "Activated"}]
    /\ token \in [Targets -> 0 .. MaxTokens] /\ tokens \in 0 .. MaxTokens
    /\ pending \in [Targets -> 0 .. 2 ^ PendingBits - 1]
    /\ \A t \in Targets : /\ bounce[t].entry \in 0 .. EntryCount - 1
                          /\ \A k \in DOMAIN wire[t] :
                                LET w == wire[t][k].write
                                IN  IF format = "samples" THEN wire[t][k].slot < EntryCount
                                    ELSE /\ wire[t][k].slot < TargetCount
                                         /\ w.offset >= 0 /\ w.offset + w.size <= GrainLength
                          /\ Len(wire[t]) <= MaxWire
    /\ reported \in [Targets -> 0 .. MaxIndex] /\ head \in [Targets -> 0 .. MaxIndex]
    /\ lost \in BOOLEAN /\ jammed \in BOOLEAN

\* The counter of a target is the number of its writes that are under way or
\* completed and not seen, whatever completions of an earlier target with the
\* same address still arrive; unless a write failed, which is never counted
\* down, or a range of samples was posted in part (processCompletion, tokens).
WritesAccounted ==
    (~lost /\ (jammed => format = "grains")) =>
       \A t \in Active :
          pending[t] = Cardinality({k \in DOMAIN wire[t] : wire[t][k].token = token[t]})
                       + Cardinality({k \in DOMAIN cq : cq[k].token = token[t]})

\* The slices a grain counts as valid are those of grain i.
SlicesArrived(grain, i) ==
    \A plane \in 1 .. Planes : \A s \in 0 .. grain[Header].valid - 1 :
       \A c \in CellsOf(plane, s) : grain[c] = i

\* When a target reports a grain, it is the grain that was transferred, and
\* the slices it then counts as valid have arrived in every plane
\* (RMAGrainIngressProtocol::read); unless a write failed.
GrainsArrive ==
    [][\A t \in Targets :
          (ReadTarget(t) /\ format = "grains" /\ ~lost) =>
             LET n     == Head(notices[t])
                 grain == mem'[t][SlotIn(n.first, TargetCount)]
             IN  /\ reported'[t] = n.first /\ grain[Header].index = n.first
                 /\ SlicesArrived(grain, n.first)]_vars

\* When a target reports samples, they are the range that was transferred, and
\* every one of them is at its place in the ring of the target, which wraps at
\* other indexes than the source (AudioBounceBuffer::unpack); unless a write
\* failed.
SamplesArrive ==
    [][\A t \in Targets :
          (ReadTarget(t) /\ format = "samples" /\ ~lost) =>
             LET range == Head(notices[t]).imm
             IN  /\ reported'[t] = range.index
                 /\ \A ch \in 0 .. Channels - 1 : \A i \in range.index - range.count .. range.index - 1 :
                       ring'[t][ch][i % TargetLength] = <<ch, i>>]_vars

\* A reader of the target flow finds in the slots it may read no newer grain
\* than the one it asks for, and no slice that counts as valid without having
\* arrived, although the headers come from a source that is further on
\* (setValidSlicesForGrain); for targets that keep up.
ReadableSlots(t) == {i \in head[t] - TargetCount + 2 .. head[t] : i > 0}

ReadableComplete ==
    \A t \in Targets : \A i \in ReadableSlots(t) :
       LET grain == mem[t][SlotIn(i, TargetCount)]
       IN  /\ grain[Header].index <= i
           /\ (grain[Header].index = i /\ i \notin produced.invalid) => SlicesArrived(grain, i)

\* After a transfer that was refused for one of several targets the others get
\* the slices again, and with them a header.
ReadableIsComplete ==
    (format = "grains" /\ ~lost /\ (jammed => Cardinality(Targets) = 1)) => ReadableComplete

\* The same where a transfer was refused for one of several targets.
RefusalsAreHarmless == (format = "grains" /\ ~lost) => ReadableComplete

\* fabrics.h on mxlFabricsInitiatorTransferGrain and -TransferSamples: a
\* transfer has completed once makeProgress no longer returns
\* MXL_ERR_NOT_READY.
ReadyIsQuiet == Ready => \A t \in Targets : wire[t] = <<>>
=============================================================================
