---------------------------- MODULE DiscreteFlow ----------------------------
(***************************************************************************)
(* A discrete (video, ancillary data) flow: one producer, any number of    *)
(* readers, a ring of grains in shared memory.                             *)
(*                                                                         *)
(*   PosixDiscreteFlowWriter   openGrain, cancel, commit                   *)
(*   PosixDiscreteFlowReader   getGrain and waitForGrain                   *)
(*                                                                         *)
(* Grain headers and headIndex are plain memory, written and read without  *)
(* any ordering: the stores between two opaque calls reach the other       *)
(* processes in any order, and a reader copies a header field by field.    *)
(* Payloads are used in place: a grain's slices hold the index of the      *)
(* grain they belong to.                                                   *)
(***************************************************************************)
EXTENDS Integers, FiniteSets

CONSTANTS
    Readers,        \* the reader objects attached to the flow
    GrainCount,     \* config.discrete.grainCount: slots of the ring
    TotalSlices,    \* slices of a complete grain
    MinSlices,      \* the values of in_minValidSlices readers use
    MaxIndex,       \* bound on the grain indexes the producer uses
    MaxSkip,        \* how many grains the producer may skip at a time
    MaxBack,        \* how far behind the head the producer may open a grain
    MaxMissing,     \* how many grains since the last complete one it may leave behind
    MaxCommits,     \* bound on the number of commits
    MaxReleases,    \* bound on the number of times a writer is released
    MaxCrashes      \* bound on the number of times a writing process dies

ASSUME DiscreteAssumption ==
    /\ GrainCount \in Nat /\ GrainCount >= 2
    /\ TotalSlices \in Nat /\ TotalSlices >= 1
    /\ MinSlices \subseteq Nat
    /\ {MaxIndex, MaxSkip, MaxBack, MaxMissing, MaxCommits, MaxReleases, MaxCrashes} \subseteq Nat

UNDEFINED == -1                     \* MXL_UNDEFINED_INDEX
Slots     == 0 .. GrainCount - 1
SlotOf(i) == i % GrainCount
Fields    == {"index", "invalid", "slices"}
MinOf(a, b) == IF a <= b THEN a ELSE b

(* The fields of mxlGrainInfo the properties tell apart.                   *)
GrainInfo == [index : 0..MaxIndex, invalid : BOOLEAN, slices : 0..TotalSlices]
NewGrain  == [index |-> 0, invalid |-> FALSE, slices |-> 0]

VARIABLES
    head,       \* shared: runtime.headIndex
    hdr,        \* shared: slot -> grain header
    body,       \* shared: slot -> slice -> index of the grain whose data it holds
    sync,       \* shared: state.syncCounter
    valid,      \* the flow's data file still has the inode that is mapped
    wpc,        \* writer: "down", "idle" (between calls), or where it is in a call
    pending,    \* writer: stores not yet performed, as <<field, slot>>
    opening,    \* writer: in_index of the openGrain call in progress
    cur,        \* writer: _currentIndex
    last,       \* writer: _lastCommittedIndex
    info,       \* the producer's copy of the header of the grain it has open
    releases,   \* times a writer was released
    crashes,    \* times a writing process died
    rpc,        \* reader: "idle" (outside), or where it is in getGrain
    want,       \* reader: in_index
    need,       \* reader: in_minValidSlices
    prev,       \* reader: previousSyncCounter
    seen,       \* reader: the headIndex that let it read on
    got,        \* reader: out_grainInfo
    rtodo,      \* reader: header fields still to be copied
    status,     \* reader: what the last call returned
    done,       \* history: indexes committed with all their slices
    base        \* history: first index this writer has committed completely

shared  == <<head, hdr, body, sync, valid>>
writer  == <<wpc, pending, opening, cur, last, info, releases, crashes>>
readers == <<rpc, want, need, prev, seen, got, rtodo, status>>
history == <<done, base>>
vars    == <<shared, writer, readers, history>>

(* createOrOpenDiscreteFlow: every header zeroed, headIndex zero.          *)
Init ==
    /\ head = 0 /\ sync = 0 /\ valid = TRUE
    /\ hdr = [s \in Slots |-> NewGrain]
    /\ body = [s \in Slots |-> [k \in 1..TotalSlices |-> UNDEFINED]]
    /\ wpc = "down" /\ pending = {} /\ opening = UNDEFINED
    /\ cur = UNDEFINED /\ last = UNDEFINED /\ info = NewGrain /\ releases = 0 /\ crashes = 0
    /\ rpc = [r \in Readers |-> "idle"]
    /\ want = [r \in Readers |-> 0]
    /\ need = [r \in Readers |-> 0]
    /\ prev = [r \in Readers |-> 0]
    /\ seen = [r \in Readers |-> 0]
    /\ got = [r \in Readers |-> NewGrain]
    /\ rtodo = [r \in Readers |-> {}]
    /\ status = [r \in Readers |-> "none"]
    /\ done = {} /\ base = UNDEFINED

-----------------------------------------------------------------------------
(* The writer.                                                             *)

(* The constructor reads nothing of what an earlier writer left.           *)
AttachWriter ==
    /\ wpc = "down" /\ valid
    /\ wpc' = "idle"
    /\ cur' = UNDEFINED /\ last' = UNDEFINED
    /\ UNCHANGED <<shared, pending, opening, info, releases, crashes, readers, history>>

OpenAccepted_Always(i) == TRUE

(* A grain up to the last complete one cannot be opened again.             *)
OpenAccepted(i) == last = UNDEFINED \/ i > last

InvalidatedCount_LastOnly(i) == MinOf(i - last - 1, 1)

(* How many of the skipped grains still have a slot to be marked in.       *)
InvalidatedCount(i) == MinOf(i - last - 1, GrainCount)

(* The skipped grains that openGrain marks as missing.                     *)
Missing(i) ==
    IF last # UNDEFINED /\ i > last + 1 THEN i - InvalidatedCount(i) .. i - 1 ELSE {}

(* The header the marking of the gap leaves in slot s.                     *)
MissingHeader(i, s) ==
    [index |-> CHOOSE m \in Missing(i) : SlotOf(m) = s, invalid |-> TRUE, slices |-> 0]

(* What the header of slot s becomes in the current phase of the call.     *)
NewHeader(s) ==
    CASE wpc = "gap"    -> MissingHeader(opening, s)
      [] wpc = "reset"  -> [index |-> opening, invalid |-> FALSE, slices |-> 0]
      [] wpc = "commit" -> info

(* The stores that turn the header of slot s into h, those that store what *)
(* is there already left out.                                              *)
Stores(s, h) == {f \in Fields : hdr[s][f] # h[f]} \X {s}

(* The producer works forward from the head, within MaxBack and MaxSkip;   *)
(* what it abandons incomplete is missing as much as what it skips.        *)
ProducerOpens(i) ==
    /\ i \in 0..MaxIndex /\ i >= head - MaxBack /\ i <= head + 1 + MaxSkip
    /\ last # UNDEFINED => i - last - 1 <= MaxMissing

OpenGrain(i) ==
    /\ wpc = "idle"
    /\ ProducerOpens(i)
    /\ OpenAccepted(i)
    /\ opening' = i
    /\ pending' = UNION {Stores(SlotOf(m), MissingHeader(i, SlotOf(m))) : m \in Missing(i)}
    /\ wpc' = "gap"
    /\ UNCHANGED <<shared, cur, last, info, releases, crashes, readers, history>>

(* One of the pending plain stores to a grain header.                      *)
StoreHeader ==
    \E f \in Fields, s \in Slots :
        /\ wpc \in {"gap", "reset", "commit"}
        /\ <<f, s>> \in pending
        /\ hdr' = [hdr EXCEPT ![s] = [@ EXCEPT ![f] = NewHeader(s)[f]]]
        /\ pending' = pending \ {<<f, s>>}
        /\ UNCHANGED <<head, body, sync, valid, wpc, opening, cur, last, info, releases, crashes, readers, history>>

ResetStores_Always(i) ==
    Stores(SlotOf(i), [index |-> i, invalid |-> FALSE, slices |-> 0])

(* A slot that still holds another grain is reset; a grain that is opened  *)
(* again keeps its progress.                                               *)
ResetStores(i) ==
    IF hdr[SlotOf(i)].index # i
    THEN Stores(SlotOf(i), [index |-> i, invalid |-> FALSE, slices |-> 0])
    ELSE {}

GapMarked ==
    /\ wpc = "gap" /\ pending = {}
    /\ pending' = ResetStores(opening)
    /\ wpc' = "reset"
    /\ UNCHANGED <<shared, opening, cur, last, info, releases, crashes, readers, history>>

GrainOpened ==
    /\ wpc = "reset" /\ pending = {}
    /\ cur' = opening
    /\ info' = hdr[SlotOf(opening)]
    /\ opening' = UNDEFINED
    /\ wpc' = "idle"
    /\ UNCHANGED <<shared, pending, last, releases, crashes, readers, history>>

CancelGrain ==
    /\ wpc = "idle" /\ cur # UNDEFINED
    /\ cur' = UNDEFINED /\ info' = NewGrain
    /\ UNCHANGED <<shared, wpc, pending, opening, last, releases, crashes, readers, history>>

(* The producer fills the next slice of the grain it has open.             *)
WriteSlice ==
    /\ wpc = "idle" /\ cur # UNDEFINED /\ info.slices < TotalSlices
    /\ body' = [body EXCEPT ![SlotOf(cur)][info.slices + 1] = cur]
    /\ info' = [info EXCEPT !.slices = @ + 1]
    /\ UNCHANGED <<head, hdr, sync, valid, wpc, pending, opening, cur, last, releases, crashes, readers, history>>

(* A grain info whose index is not the open one's is refused.              *)
CommitAccepted == cur # UNDEFINED

(* commit(): the producer may flag what it hands over as invalid.          *)
CommitGrain(flagged) ==
    /\ wpc = "idle" /\ CommitAccepted /\ sync < MaxCommits
    /\ info' = [info EXCEPT !.invalid = @ \/ flagged]
    /\ pending' = Stores(SlotOf(cur), info') \cup {<<"head", SlotOf(cur)>>}
    /\ wpc' = "commit"
    /\ UNCHANGED <<shared, opening, cur, last, releases, crashes, readers, history>>

StoreHead ==
    /\ wpc = "commit" /\ <<"head", SlotOf(cur)>> \in pending
    /\ head' = cur
    /\ pending' = pending \ {<<"head", SlotOf(cur)>>}
    /\ UNCHANGED <<hdr, body, sync, valid, wpc, opening, cur, last, info, releases, crashes, readers, history>>

LastCommitted == IF info.slices = TotalSlices THEN cur ELSE last

(* All of the grain is stored; readers will find the counter changed.      *)
BumpSync ==
    /\ wpc = "commit" /\ pending = {}
    /\ last' = LastCommitted
    /\ cur' = IF info.slices = TotalSlices THEN UNDEFINED ELSE cur
    /\ info' = IF info.slices = TotalSlices THEN NewGrain ELSE info
    /\ done' = IF info.slices = TotalSlices THEN done \cup {cur} ELSE done
    /\ base' = IF base = UNDEFINED /\ info.slices = TotalSlices THEN cur ELSE base
    /\ sync' = sync + 1
    /\ wpc' = "wake"
    /\ UNCHANGED <<head, hdr, body, valid, pending, opening, releases, crashes, readers>>

WakeAll ==
    /\ wpc = "wake"
    /\ wpc' = "idle"
    /\ rpc' = [r \in Readers |-> IF rpc[r] = "asleep" THEN "early" ELSE rpc[r]]
    /\ UNCHANGED <<shared, pending, opening, cur, last, info, releases, crashes, want, need, prev, seen, got, rtodo, status, history>>

(* What a writer has in its own memory goes with it.                       *)
Detach ==
    /\ wpc' = "down"
    /\ pending' = {} /\ opening' = UNDEFINED
    /\ cur' = UNDEFINED /\ last' = UNDEFINED /\ info' = NewGrain /\ base' = UNDEFINED
    /\ UNCHANGED <<shared, readers, done>>

ReleaseWriter ==
    /\ wpc = "idle" /\ releases < MaxReleases
    /\ Detach
    /\ releases' = releases + 1
    /\ UNCHANGED crashes

(* The writing process dies, possibly between two stores of a call.        *)
WriterCrash ==
    /\ wpc # "down" /\ crashes < MaxCrashes
    /\ Detach
    /\ crashes' = crashes + 1
    /\ UNCHANGED releases

RemoveFlow ==
    /\ valid
    /\ valid' = FALSE
    /\ UNCHANGED <<head, hdr, body, sync, writer, readers, history>>

-----------------------------------------------------------------------------
(* A reader.                                                               *)
Goto(r, pc) == rpc' = [rpc EXCEPT ![r] = pc]

(* Of a call's arguments and locals only those of a successful one are     *)
(* remembered.                                                             *)
Return(r, result) ==
    /\ Goto(r, "idle")
    /\ status' = [status EXCEPT ![r] = result]
    /\ prev' = [prev EXCEPT ![r] = 0]
    /\ want' = [want EXCEPT ![r] = IF result = "OK" THEN @ ELSE 0]
    /\ need' = [need EXCEPT ![r] = 0]

GetGrain(r, i, k) ==
    /\ rpc[r] = "idle"
    /\ Goto(r, "sync")
    /\ want' = [want EXCEPT ![r] = i]
    /\ need' = [need EXCEPT ![r] = k]
    /\ status' = [status EXCEPT ![r] = "none"]
    /\ seen' = [seen EXCEPT ![r] = 0]
    /\ got' = [got EXCEPT ![r] = NewGrain]
    /\ UNCHANGED <<shared, writer, prev, rtodo, history>>

LoadSync(r) ==
    /\ rpc[r] = "sync"
    /\ prev' = [prev EXCEPT ![r] = sync]
    /\ Goto(r, "head")
    /\ UNCHANGED <<shared, writer, want, need, seen, got, rtodo, status, history>>

MinIndex_NoReserve(h) == IF h >= GrainCount THEN h - GrainCount + 1 ELSE 0

(* The oldest grain a reader may have: the slot of the next one is the     *)
(* writer's.                                                               *)
MinIndex(h) == IF h >= GrainCount THEN h - GrainCount + 2 ELSE 0

Window(h) == MinIndex(h) .. h

LoadHead(r) ==
    /\ rpc[r] = "head"
    /\ \/ /\ want[r] > head /\ Goto(r, "early")
          /\ UNCHANGED <<want, need, prev, seen, status>>
       \/ /\ want[r] \in Window(head) /\ Goto(r, "slices")
          /\ seen' = [seen EXCEPT ![r] = head]
          /\ UNCHANGED <<want, need, prev, status>>
       \/ /\ want[r] < MinIndex(head) /\ Return(r, "TOO_LATE")
          /\ UNCHANGED seen
    /\ UNCHANGED <<shared, writer, got, rtodo, history>>

EnoughSlices_NoClamp(i, k) == hdr[SlotOf(i)].slices >= k

EnoughSlices(i, k) == hdr[SlotOf(i)].slices >= MinOf(k, TotalSlices)

LoadSlices(r) ==
    /\ rpc[r] = "slices"
    /\ \/ /\ EnoughSlices(want[r], need[r])
          /\ Goto(r, "copy")
          /\ rtodo' = [rtodo EXCEPT ![r] = Fields]
       \/ /\ ~EnoughSlices(want[r], need[r])
          /\ Goto(r, "flags")
          /\ UNCHANGED rtodo
    /\ UNCHANGED <<shared, writer, want, need, prev, seen, got, status, history>>

LoadFlags(r) ==
    /\ rpc[r] = "flags"
    /\ \/ /\ hdr[SlotOf(want[r])].invalid
          /\ Goto(r, "copy")
          /\ rtodo' = [rtodo EXCEPT ![r] = Fields]
          /\ UNCHANGED seen
       \/ /\ ~hdr[SlotOf(want[r])].invalid
          /\ Goto(r, "early")
          /\ seen' = [seen EXCEPT ![r] = 0]
          /\ UNCHANGED rtodo
    /\ UNCHANGED <<shared, writer, want, need, prev, got, status, history>>

CopyField(r) ==
    \E f \in rtodo[r] :
        /\ rpc[r] = "copy"
        /\ got' = [got EXCEPT ![r] = [@ EXCEPT ![f] = hdr[SlotOf(want[r])][f]]]
        /\ rtodo' = [rtodo EXCEPT ![r] = @ \ {f}]
        /\ IF rtodo[r] = {f} THEN Return(r, "OK") ELSE UNCHANGED <<rpc, want, need, prev, status>>
        /\ UNCHANGED <<shared, writer, seen, history>>

(* waitUntilChanged, with the counter remembered before the head was read. *)
Wait(r) ==
    /\ rpc[r] = "early"
    /\ Goto(r, IF sync # prev[r] THEN "sync" ELSE "asleep")
    /\ UNCHANGED <<shared, writer, want, need, prev, seen, got, rtodo, status, history>>

(* The deadline passes, or the call was the one that does not block.       *)
Deadline(r) ==
    /\ rpc[r] \in {"early", "asleep"}
    /\ Return(r, IF valid THEN "TOO_EARLY" ELSE "FLOW_INVALID")
    /\ UNCHANGED <<shared, writer, seen, got, rtodo, history>>

Interrupted(r) ==
    /\ rpc[r] = "asleep"
    /\ Goto(r, "early")
    /\ UNCHANGED <<shared, writer, want, need, prev, seen, got, rtodo, status, history>>

-----------------------------------------------------------------------------
InCall == StoreHeader \/ GapMarked \/ GrainOpened \/ StoreHead \/ BumpSync \/ WakeAll

WriterNext ==
    \/ AttachWriter \/ CancelGrain \/ WriteSlice \/ ReleaseWriter \/ WriterCrash \/ InCall
    \/ \E i \in 0..MaxIndex : OpenGrain(i)
    \/ \E b \in BOOLEAN : CommitGrain(b)

ReaderStep(r) ==
    LoadSync(r) \/ LoadHead(r) \/ LoadSlices(r) \/ LoadFlags(r) \/ CopyField(r) \/ Wait(r)

ReaderNext(r) ==
    \/ ReaderStep(r) \/ Deadline(r) \/ Interrupted(r)
    \/ \E i \in 0..MaxIndex, k \in MinSlices : GetGrain(r, i, k)

Next == WriterNext \/ RemoveFlow \/ \E r \in Readers : ReaderNext(r)

Spec == Init /\ [][Next]_vars

(* A thread inside a library call keeps running.                           *)
FairSpec == Spec /\ WF_vars(InCall) /\ \A r \in Readers : WF_vars(ReaderStep(r))

-----------------------------------------------------------------------------
(* Every variable keeps the type of the field it stands for.               *)
TypeOK ==
    /\ head \in 0..MaxIndex /\ sync \in 0..MaxCommits /\ valid \in BOOLEAN
    /\ hdr \in [Slots -> GrainInfo]
    /\ body \in [Slots -> [1..TotalSlices -> UNDEFINED..MaxIndex]]
    /\ wpc \in {"down", "idle", "gap", "reset", "commit", "wake"}
    /\ pending \subseteq (Fields \cup {"head"}) \X Slots
    /\ {opening, cur, last, base} \subseteq UNDEFINED..MaxIndex
    /\ info \in GrainInfo /\ releases \in 0..MaxReleases /\ crashes \in 0..MaxCrashes
    /\ rpc \in [Readers -> {"idle", "sync", "head", "slices", "flags", "copy", "early", "asleep"}]
    /\ want \in [Readers -> 0..MaxIndex]
    /\ need \in [Readers -> MinSlices \cup {0}]
    /\ prev \in [Readers -> 0..MaxCommits]
    /\ seen \in [Readers -> 0..MaxIndex]
    /\ got \in [Readers -> GrainInfo]
    /\ rtodo \in [Readers -> SUBSET Fields]
    /\ status \in [Readers -> {"none", "OK", "TOO_LATE", "TOO_EARLY", "FLOW_INVALID"}]
    /\ done \subseteq 0..MaxIndex

(* The one grain whose slot is both readable and the next to be written:   *)
(* MinIndex leaves no reserve while the ring is filled for the first time. *)
Unreserved(h, i) == h = GrainCount - 1 /\ i = 0

(* With a producer that does not skip grains, a call that returns a grain  *)
(* returns the one asked for, unless another grain was committed while the *)
(* call ran: one slot of reserve makes up for the missing second check.    *)
ReadIsRequested ==
    \A r \in Readers :
        status[r] = "OK" /\ want[r] <= seen[r] /\ ~Unreserved(seen[r], want[r]) /\ head = seen[r] =>
            got[r].index = want[r]

(* A complete grain stays as it was committed, header and payload, for as  *)
(* long as readers may be using it in place: openings, cancellations and   *)
(* other writers' commits do not touch it when the producer does not skip. *)
GrainsRetained ==
    \A i \in done : i \in Window(head) /\ ~Unreserved(head, i) =>
        /\ hdr[SlotOf(i)].index = i /\ hdr[SlotOf(i)].slices = TotalSlices
        /\ \A k \in 1..TotalSlices : body[SlotOf(i)][k] = i

(* A reader never takes an older grain for one that this writer skipped:   *)
(* what it skips after its first complete grain is marked as missing       *)
(* before the head passes it, also when the producer steps back.           *)
NoStaleGrain ==
    base # UNDEFINED /\ wpc \in {"idle", "commit", "wake"} =>
        \A i \in Window(head) :
            i >= base => hdr[SlotOf(i)].index >= i \/ hdr[SlotOf(i)].invalid

(* flow.h:522-523 on openGrain: an entry that already holds the index is   *)
(* left as it is, so that an incomplete grain keeps its progress.          *)
ReopenKeepsHeader ==
    [][LET s == SlotOf(opening) IN
       wpc = "gap" /\ hdr[s].index = opening => hdr'[s] = hdr[s]]_vars

(* PosixDiscreteFlowReader.cpp:171-175: the uncommitted state of the grain *)
(* after the head is hidden from readers.                                  *)
NextGrainHidden ==
    \A i \in Window(head) : wpc = "idle" /\ cur = head + 1 => SlotOf(i) # SlotOf(cur)

(* A waiting reader whose grain has the slices it asks for gets out of     *)
(* getGrain without its deadline's help, unless the grain is the one whose *)
(* slot is overwritten while it is still readable.                         *)
WaitingReaderReturns ==
    \A r \in Readers :
        (/\ rpc[r] # "idle" /\ want[r] = head
         /\ hdr[SlotOf(head)].index = head
         /\ hdr[SlotOf(head)].slices >= MinOf(need[r], TotalSlices)) ~>
            (rpc[r] = "idle" \/ Unreserved(head, want[r]))

(* The head never falls behind a grain this writer completed.              *)
HeadCoversCompleted == last # UNDEFINED => head >= last

(* The inductive invariant behind it: what is open or being opened lies    *)
(* beyond the last complete grain, and a commit has moved the head to its  *)
(* grain once that store is no longer pending.                             *)
CommitOrder ==
    /\ head \in Int /\ {cur, last, opening} \subseteq Int
    /\ HeadCoversCompleted
    /\ cur # UNDEFINED /\ last # UNDEFINED => cur > last
    /\ wpc \in {"gap", "reset"} /\ last # UNDEFINED => opening > last
    /\ wpc = "commit" => cur # UNDEFINED /\ (<<"head", SlotOf(cur)>> \notin pending => head = cur)

=============================================================================
