---------------------- MODULE FlowSynchronizationGroup ----------------------
(***************************************************************************)
(* Synchronization groups: an application adds readers of several flows,   *)
(* of different rates, to a group and waits until all of them have the     *)
(* data of one point in time.                                              *)
(*                                                                         *)
(*   FlowSynchronizationGroup  the list of readers, which a wait walks     *)
(*                             and reorders on its way                     *)
(*   Instance                  reference counted readers; the last release *)
(*                             takes the reader out of every group         *)
(*   waitForGrain, waitForSamples   seen from outside: what they return    *)
(*                             of the flow's head, slices and depth        *)
(*                                                                         *)
(* One application thread uses an instance's groups; the writers of the    *)
(* flows, in other processes, and the clock go on while it waits.          *)
(***************************************************************************)
EXTENDS IndexConversion, Sequences, SequencesExt

CONSTANTS
    Groups,         \* the synchronization groups of the instance
    Readers,        \* the flows an instance can have a reader of
    Discrete,       \* those of them that are discrete flows
    Rate,           \* reader -> grain or sample rate of the flow
    TotalSlices,    \* slices of a grain
    MinSlices,      \* numbers of slices an application may ask for
    Depth,          \* committed grains, or samples, a reader can still get
    OutputRate,     \* the rate the application takes its timestamps from
    MaxOutput,      \* bound on the index of the application's output
    MaxIndex,       \* bound on the indexes of the flows
    Timeouts,       \* how long the application is willing to wait
    MaxTime,        \* bound on the clock
    MaxReferences   \* bound on the references to a reader

ASSUME GroupAssumption ==
    /\ Discrete \subseteq Readers
    /\ OutputRate \in ValidRates /\ Rate \in [Readers -> ValidRates]
    /\ TotalSlices \in Nat \ {0} /\ MinSlices \subseteq Nat /\ Timeouts \subseteq Nat
    /\ {Depth, MaxOutput, MaxIndex, MaxTime, MaxReferences} \subseteq Nat

(* Iterators of a std::forward_list are kept as the reader of the entry    *)
(* they point to, before_begin() and end() as these.                       *)
BeforeBegin == "before_begin"
End         == "end"

ASSUME IteratorAssumption == Groups # {} /\ {BeforeBegin, End} \cap Readers = {}

MinOf(a, b) == IF a <= b THEN a ELSE b
MaxOf(a, b) == IF a >= b THEN a ELSE b

(* The timestamps the application asks for.                                *)
Origins == {IndexToTimestamp(OutputRate, k) : k \in 1..MaxOutput}
Indexes == 0..MaxIndex

VARIABLES
    now,        \* the clock
    head,       \* reader -> headIndex of its flow
    slices,     \* reader -> index -> valid slices of the grain committed there
    references, \* reader -> references the application holds
    readers,    \* group -> _readers: the list, in order
    minValidSlices,         \* group -> reader -> slices to wait for
    maxObservedSourceDelay, \* group -> reader -> latest arrival seen
    joined,     \* history: group -> readers added and not removed
    pc,         \* "idle", or where the thread is in waitForDataAt
    call,       \* the group, originTime and deadline of the call
    prev,       \* the entry before the one the call is at
    current,    \* the entry the call is at
    it,         \* the entry it will be at next
    result      \* what the last call returned

flows == <<head, slices>>
lists == <<readers, minValidSlices, maxObservedSourceDelay, joined>>
walk  == <<pc, call, prev, current, it, result>>
vars  == <<now, flows, references, lists, walk>>

NoCall == [group |-> CHOOSE g \in Groups : TRUE, origin |-> 0, deadline |-> 0]

Init ==
    /\ now = 0
    /\ head = [r \in Readers |-> 0]
    /\ slices = [r \in Readers |-> [i \in Indexes |-> 0]]
    /\ references = [r \in Readers |-> 0]
    /\ readers = [g \in Groups |-> <<>>]
    /\ minValidSlices = [g \in Groups |-> [r \in Readers |-> 0]]
    /\ maxObservedSourceDelay = [g \in Groups |-> [r \in Readers |-> 0]]
    /\ joined = [g \in Groups |-> {}]
    /\ pc = "idle" /\ call = NoCall /\ result = "none"
    /\ prev = BeforeBegin /\ current = End /\ it = End

-----------------------------------------------------------------------------
(* The world around the group.                                             *)

Tick ==
    /\ now < MaxTime
    /\ now' = now + 1
    /\ UNCHANGED <<flows, references, lists, walk>>

(* A writer commits the grain after its last one, in one go or in parts;   *)
(* one left incomplete stays so.  Of samples only the head is told.        *)
Commit(r) ==
    \/ \E i \in {head[r], head[r] + 1} \cap Indexes, n \in 1..TotalSlices :
        /\ r \in Discrete /\ i > 0
        /\ slices[r][i] < n
        /\ head' = [head EXCEPT ![r] = i]
        /\ slices' = [slices EXCEPT ![r][i] = n]
        /\ UNCHANGED <<now, references, lists, walk>>
    \/ /\ r \notin Discrete /\ head[r] + 1 \in Indexes
       /\ head' = [head EXCEPT ![r] = @ + 1]
       /\ UNCHANGED <<now, slices, references, lists, walk>>

(* What waitForGrain or waitForSamples finds for index i.                  *)
Outcome(r, i, n) ==
    CASE i > head[r]         -> "TOO_EARLY"
      [] i <= head[r] - Depth -> "TOO_LATE"
      [] r \in Discrete /\ slices[r][i] < MinOf(n, TotalSlices) -> "TOO_EARLY"
      [] OTHER               -> "OK"

-----------------------------------------------------------------------------
(* Readers of the instance, and the members of a group.                    *)

GetFlowReader(r) ==
    /\ pc = "idle" /\ references[r] < MaxReferences
    /\ references' = [references EXCEPT ![r] = @ + 1]
    /\ UNCHANGED <<now, flows, lists, walk>>

(* releaseReader that leaves the groups to the application.                *)
GroupsLosing_None(r) == {}

(* The groups a released reader has to be taken out of.                    *)
GroupsLosing(r) == IF references[r] = 1 THEN Groups ELSE {}

(* The place of an entry, counted from the one before the first.           *)
Position(list, x) == IF x = BeforeBegin THEN 0 ELSE CHOOSE j \in DOMAIN list : list[j] = x

(* removeReader erases the first entry of the reader.                      *)
Without(list, r) ==
    IF r \in ToSet(list) THEN RemoveAt(list, Position(list, r)) ELSE list

(* The entries of reader r in the lists of these groups are erased.        *)
Erase(r, groups) ==
    /\ readers' = [g \in Groups |-> IF g \in groups THEN Without(readers[g], r) ELSE readers[g]]
    /\ minValidSlices' = [g \in Groups |-> [minValidSlices[g] EXCEPT ![r] = IF g \in groups THEN 0 ELSE @]]
    /\ maxObservedSourceDelay' =
        [g \in Groups |-> [maxObservedSourceDelay[g] EXCEPT ![r] = IF g \in groups THEN 0 ELSE @]]

ReleaseReader(r) ==
    /\ pc = "idle" /\ references[r] > 0
    /\ references' = [references EXCEPT ![r] = @ - 1]
    /\ Erase(r, GroupsLosing(r))
    /\ joined' = IF references[r] = 1 THEN [g \in Groups |-> joined[g] \ {r}] ELSE joined
    /\ UNCHANGED <<now, flows, walk>>

(* A reader is in a group once; a new one comes last.                      *)
Added(list, r) == IF r \in ToSet(list) THEN list ELSE Append(list, r)

(* AddReader asks for all slices, AddPartialGrainReader for as many as it  *)
(* is told; adding a member again changes the number and nothing else.     *)
AddReader(g, r, n) ==
    /\ pc = "idle" /\ references[r] > 0
    /\ r \in Discrete \/ n = TotalSlices
    /\ readers' = [readers EXCEPT ![g] = Added(@, r)]
    /\ minValidSlices' = [minValidSlices EXCEPT ![g][r] = n]
    /\ joined' = [joined EXCEPT ![g] = @ \cup {r}]
    /\ UNCHANGED <<now, flows, references, maxObservedSourceDelay, walk>>

RemoveReader(g, r) ==
    /\ pc = "idle" /\ r \in joined[g]
    /\ Erase(r, {g})
    /\ joined' = [joined EXCEPT ![g] = @ \ {r}]
    /\ UNCHANGED <<now, flows, references, walk>>

-----------------------------------------------------------------------------
(* waitForDataAt.                                                          *)

Following(list, x) ==
    IF Position(list, x) = Len(list) THEN End ELSE list[Position(list, x) + 1]

(* The list with the entry at x in front of all others.                    *)
InFront(list, x) == IF x = End THEN list ELSE <<x>> \o Without(list, x)

(* splice_after given the entry to move instead of the one before it.      *)
Spliced_AfterCurrent(list) == InFront(list, Following(list, current))

(* splice_after(before_begin, list, prev) moves the entry after prev.      *)
Spliced(list) == InFront(list, Following(list, prev))

Expected(r) == TimestampToIndex(Rate[r], call.origin)

Return(status) ==
    /\ pc' = "idle" /\ call' = NoCall /\ result' = status
    /\ prev' = BeforeBegin /\ current' = End /\ it' = End

(* On to the entry at x of the list; before is what prev is by then.       *)
Visit(list, before, x) ==
    \/ /\ x = End
       /\ Return("OK")
    \/ /\ x # End
       /\ pc' = "check"
       /\ prev' = before /\ current' = x /\ it' = Following(list, x)
       /\ UNCHANGED <<call, result>>

WaitForDataAt(g, t, timeout) ==
    /\ pc = "idle" /\ readers[g] # <<>> /\ now + timeout <= MaxTime
    /\ pc' = "check" /\ result' = "none"
    /\ call' = [group |-> g, origin |-> t, deadline |-> now + timeout]
    /\ prev' = BeforeBegin
    /\ current' = Following(readers[g], BeforeBegin)
    /\ it' = Following(readers[g], current')
    /\ UNCHANGED <<now, flows, references, lists>>

(* A flow whose head has come that far is not asked any further.           *)
CheckHead ==
    /\ pc = "check"
    /\ \/ /\ Expected(current) > head[current]
          /\ pc' = "wait"
          /\ UNCHANGED <<call, prev, current, it, result>>
       \/ /\ Expected(current) <= head[current]
          /\ Visit(readers[call.group], current, it)
    /\ UNCHANGED <<now, flows, references, lists>>

(* The wait for one flow succeeds: its delay is recorded, and the slowest  *)
(* flow goes first from then on.                                           *)
DataArrived ==
    LET g     == call.group
        due   == IndexToTimestamp(Rate[current], Expected(current))
        delay == maxObservedSourceDelay[g]
        seen  == MaxOf(delay[current], now - due)
        moved == seen > delay[current] /\ current # Head(readers[g]) /\ seen > delay[Head(readers[g])]
        list  == IF moved THEN Spliced(readers[g]) ELSE readers[g]
    IN  /\ pc = "wait"
        /\ Outcome(current, Expected(current), minValidSlices[g][current]) = "OK"
        /\ maxObservedSourceDelay' = [maxObservedSourceDelay EXCEPT ![g][current] = seen]
        /\ readers' = [readers EXCEPT ![g] = list]
        /\ Visit(list, IF moved THEN prev ELSE current, it)
        /\ UNCHANGED <<now, flows, references, minValidSlices, joined>>

(* It fails: the flow is past the data, or the deadline is.                *)
WaitFails ==
    /\ pc = "wait"
    /\ LET found == Outcome(current, Expected(current), minValidSlices[call.group][current]) IN
       /\ found = "TOO_LATE" \/ (found = "TOO_EARLY" /\ now >= call.deadline)
       /\ Return(found)
    /\ UNCHANGED <<now, flows, references, lists>>

Wait == CheckHead \/ DataArrived \/ WaitFails

Next ==
    \/ Tick \/ Wait
    \/ \E r \in Readers : Commit(r) \/ GetFlowReader(r) \/ ReleaseReader(r)
    \/ \E g \in Groups, r \in Readers : RemoveReader(g, r)
    \/ \E g \in Groups, r \in Readers, n \in MinSlices \cup {TotalSlices} : AddReader(g, r, n)
    \/ \E g \in Groups, t \in Origins, timeout \in Timeouts : WaitForDataAt(g, t, timeout)

Spec == Init /\ [][Next]_vars

-----------------------------------------------------------------------------
(* Every variable has its type, and no reader is in a list twice.          *)
TypeOK ==
    /\ now \in 0..MaxTime
    /\ head \in [Readers -> Indexes]
    /\ slices \in [Readers -> [Indexes -> 0..TotalSlices]]
    /\ references \in [Readers -> 0..MaxReferences]
    /\ readers \in [Groups -> Seq(Readers)] /\ \A g \in Groups : IsInjective(readers[g])
    /\ minValidSlices \in [Groups -> [Readers -> MinSlices \cup {0, TotalSlices}]]
    /\ maxObservedSourceDelay \in [Groups -> [Readers -> 0..MaxTime]]
    /\ joined \in [Groups -> SUBSET Readers]
    /\ pc \in {"idle", "check", "wait"}
    /\ call \in [group : Groups, origin : Origins \cup {0}, deadline : 0..MaxTime]
    /\ {prev, current, it} \subseteq Readers \cup {BeforeBegin, End}
    /\ result \in {"none", "OK", "TOO_EARLY", "TOO_LATE"}

(* A group never holds a pointer to a reader that was destroyed.           *)
NoDanglingReader ==
    \A g \in Groups : \A r \in ToSet(readers[g]) : references[r] > 0

Succeeds == pc # "idle" /\ pc' = "idle" /\ result' = "OK"

(* A wait that succeeds leaves no member of the group behind: each flow    *)
(* has got past the grain or sample nearest to the timestamp, whatever the *)
(* list was reordered to meanwhile and in earlier waits.                   *)
DataAvailable ==
    [][Succeeds =>
        \A r \in joined[call.group] :
            2 * call.origin * Rate[r].num < (2 * head[r] + 1) * Second * Rate[r].den]_vars

(* A wait that finds the flow that was slowest so far first in the list,   *)
(* leaves the one that is slowest by then first in it, and everyone in it. *)
SlowestFirst(g) ==
    \A r \in ToSet(readers[g]) :
        maxObservedSourceDelay[g][r] <= maxObservedSourceDelay[g][Head(readers[g])]

ReorderingKeepsOrder ==
    [][\A g \in Groups :
        pc = "wait" =>
            /\ ToSet(readers'[g]) = ToSet(readers[g])
            /\ SlowestFirst(g) => SlowestFirst(g)']_vars

(* flow.h:727 and :745-757: MXL_STATUS_OK says that the data has become    *)
(* available, of a partial grain reader the slices it asked for.           *)
RequestedSlicesPresent ==
    [][Succeeds =>
        \A r \in joined[call.group] \cap Discrete :
            slices[r][Expected(r)] >= MinOf(minValidSlices[call.group][r], TotalSlices)]_vars

=============================================================================
