----------------------------- MODULE EventRing -----------------------------
(***************************************************************************)
(* An event flow: one producer, any number of readers in other processes,  *)
(* all of them attached to the same shared memory.                         *)
(*                                                                         *)
(*   EventRingBuffer        publish() and read(), word by word             *)
(*   PosixEventFlowWriter   open, commit, cancel, and the recovery its     *)
(*                          constructor performs after a writer crash      *)
(*   PosixEventFlowReader   getEvent(), its cursor and its blocking wait   *)
(*   waitUntilChanged / wakeAll on the flow's sync counter (a futex)       *)
(*                                                                         *)
(* Every access to a shared word (a slot's sequence tag, a word of its     *)
(* metadata or payload, headIndex, syncCounter) is a step of its own, so   *)
(* any step of one process may come between two accesses of another.  All  *)
(* these accesses are acquire loads and release stores in the code.        *)
(***************************************************************************)
EXTENDS Integers, Sequences, FiniteSets

CONSTANTS
    Readers,        \* the reader objects attached to the flow
    EventCount,     \* config.event.eventCount: slots of the ring
    PayloadWords,   \* payload capacity of a slot, in 64-bit words
    MaxIndex,       \* EventRingBuffer::MAX_INDEX, the last index a tag can carry
    Timestamps,     \* the event timestamps an application may use
    Values,         \* what a payload word can hold
    Events,         \* the events the producer may commit
    MaxCrashes      \* bound on the number of times the writer goes away

(* What an application can put in an event: a timestamp, the payload size  *)
(* and that many words.                                                    *)
EventRec == UNION {[ts : Timestamps, size : {n}, body : [1..n -> Values]] : n \in 0..PayloadWords}

ASSUME RingAssumption ==
    /\ EventCount \in Nat /\ EventCount >= 2        \* validateGeometry
    /\ PayloadWords \in Nat /\ PayloadWords >= 1
    /\ MaxIndex \in Nat
    /\ Timestamps \subseteq Nat /\ 0 \in Timestamps
    /\ 0 \in Values
    /\ Events \subseteq EventRec
    /\ MaxCrashes \in Nat

(* Sequence tags: the index in the upper bits, the lowest bit says whether *)
(* the entry is complete.  EMPTY is all ones, one index above MAX_INDEX.   *)
WritingTag(i)  == 2 * i
CompleteTag(i) == 2 * i + 1
EMPTY          == 2 * (MaxIndex + 1) + 1
TagIndex(t)    == t \div 2

(* MXL_UNDEFINED_INDEX is 2^64 - 1, that is -1: "head + 1" is 0 for it.    *)
UNDEFINED == -1

SlotOf(i) == i % EventCount
Slots     == 0 .. EventCount - 1
MaxOf(a, b)  == IF a >= b THEN a ELSE b

VARIABLES
    tag,        \* shared: slot -> sequence tag
    slotTs,     \* shared: slot -> the metadata word with the timestamp
    slotSize,   \* shared: slot -> the metadata word with the payload size
    slotBody,   \* shared: slot -> payload words
    head,       \* shared: runtime.headIndex
    sync,       \* shared: state.syncCounter
    valid,      \* the flow's data file still has the inode that is mapped
    wpc,        \* writer: where it is ("down": no writer attached)
    wopen,      \* writer: _open
    lastTs,     \* writer: _lastTimestamp
    ev,         \* writer: the event commit() was called with
    widx,       \* writer: the index it publishes
    wk,         \* writer: payload words stored so far
    crashes,    \* times the writer has gone away
    rpc,        \* reader: where it is in getEvent ("idle": outside)
    next,       \* reader: _nextIndex
    prev,       \* reader: the sync counter remembered at the top of the loop
    rcvTs,      \* reader: received.timestamp
    rcvSize,    \* reader: received.eventSize
    snapshot,   \* reader: the _snapshot buffer, as many words as a slot has
    rk,         \* reader: payload words copied so far
    status,     \* reader: what the last getEvent returned
    log         \* history: the events whose complete tag was stored, in order

words   == <<slotTs, slotSize, slotBody>>
shared  == <<tag, words, head, sync, valid>>
writer  == <<wpc, wopen, lastTs, ev, widx, wk, crashes>>
copy    == <<rcvTs, rcvSize, snapshot>>
readers == <<rpc, next, prev, copy, rk, status>>
vars    == <<shared, writer, readers, log>>

ZeroBody == [k \in 1..PayloadWords |-> 0]

Init ==
    /\ tag = [s \in Slots |-> EMPTY]
    /\ slotTs = [s \in Slots |-> 0]
    /\ slotSize = [s \in Slots |-> 0]
    /\ slotBody = [s \in Slots |-> ZeroBody]
    /\ head = UNDEFINED
    /\ sync = 0
    /\ valid = TRUE
    /\ wpc = "down" /\ wopen = FALSE /\ lastTs = 0
    /\ ev = [ts |-> 0, size |-> 0, body |-> <<>>]
    /\ widx = 0 /\ wk = 0 /\ crashes = 0
    /\ rpc = [r \in Readers |-> "closed"]
    /\ next = [r \in Readers |-> 0]
    /\ prev = [r \in Readers |-> 0]
    /\ rcvTs = [r \in Readers |-> 0]
    /\ rcvSize = [r \in Readers |-> 0]
    /\ snapshot = [r \in Readers |-> ZeroBody]
    /\ rk = [r \in Readers |-> 0]
    /\ status = [r \in Readers |-> "none"]
    /\ log = <<>>

-----------------------------------------------------------------------------
(* An operator X_Bug is X with a plausible mistake in it; it is not used   *)
(* by the model.                                                           *)

(* The oldest index the committed head promises to retain.                 *)
OldestIndex == IF head # UNDEFINED /\ head >= EventCount THEN head - (EventCount - 1) ELSE 0

(* EventRingBuffer::read by a caller nobody races with (a new writer): the *)
(* outcome and the entry it finds.                                         *)
ReadOutcome(i) ==
    LET t == tag[SlotOf(i)] IN
    IF i > MaxIndex THEN "Pending"
    ELSE IF t = CompleteTag(i) THEN "Ready"
    ELSE IF t # EMPTY /\ TagIndex(t) > i THEN "Overwritten"
    ELSE "Pending"

PublishAccepts_NoRetry(i) ==
    LET t == tag[SlotOf(i)] IN
    /\ i <= MaxIndex
    /\ t = EMPTY \/ TagIndex(t) < i

(* What publish() refuses: an index beyond the tags, or a slot whose tag   *)
(* is for this index (completed) or a later one.                           *)
PublishAccepts(i) ==
    LET t == tag[SlotOf(i)] IN
    /\ i <= MaxIndex
    /\ t = EMPTY \/ t = WritingTag(i) \/ TagIndex(t) < i

RecoveredHead_NoAdoption == head

(* The head a new writer starts from: an entry that was completed without  *)
(* advancing the head is adopted.                                          *)
RecoveredHead == IF ReadOutcome(head + 1) = "Ready" THEN head + 1 ELSE head

RestoredTimestamp(h) == IF h = UNDEFINED THEN 0 ELSE slotTs[SlotOf(h)]

NotifiesAfterRecovery_OnlyAdopted(h) == h # head

(* Any committed entry may have been left without a notification.          *)
NotifiesAfterRecovery(h) == h # UNDEFINED

(* The constructor of a new writer throws otherwise.                       *)
RecoveryAccepts ==
    LET n == head + 1
    IN  /\ head # UNDEFINED => ReadOutcome(head) = "Ready"
        /\ ReadOutcome(n) \in {"Ready", "Pending"}
        /\ ReadOutcome(n) = "Ready" => slotTs[SlotOf(n)] >= RestoredTimestamp(head)

(* PosixEventFlowWriter's constructor: restore the timestamp of the head,  *)
(* adopt an entry a crashed writer completed without advancing the head.   *)
(* Nobody else stores to the flow, so the reads and the single store of    *)
(* headIndex are one step; the notification that follows is not.           *)
RecoverWriter ==
    /\ wpc = "down"
    /\ valid
    /\ RecoveryAccepts
    /\ head' = RecoveredHead
    /\ lastTs' = RestoredTimestamp(RecoveredHead)
    /\ wpc' = IF NotifiesAfterRecovery(RecoveredHead) THEN "sync" ELSE "idle"
    /\ wopen' = FALSE
    /\ UNCHANGED <<tag, words, sync, valid, ev, widx, wk, crashes, readers, log>>

OpenEvent ==
    /\ wpc = "idle" /\ ~wopen
    /\ wopen' = TRUE
    /\ UNCHANGED <<shared, wpc, lastTs, ev, widx, wk, crashes, readers, log>>

CancelEvent ==
    /\ wpc = "idle" /\ wopen
    /\ wopen' = FALSE
    /\ UNCHANGED <<shared, wpc, lastTs, ev, widx, wk, crashes, readers, log>>

MarkWriting(i) == tag' = [tag EXCEPT ![SlotOf(i)] = WritingTag(i)]

(* commit(): argument checks, then publish() checks the slot's tag and     *)
(* stores the writing tag.  A rejected call changes nothing.               *)
StoreWritingTag(e) ==
    /\ wpc = "idle" /\ wopen
    /\ e.ts >= lastTs
    /\ e.size <= PayloadWords
    /\ PublishAccepts(head + 1)
    /\ MarkWriting(head + 1)
    /\ ev' = e /\ widx' = head + 1 /\ wk' = 0
    /\ wpc' = "ts"
    /\ UNCHANGED <<words, head, sync, valid, wopen, lastTs, crashes, readers, log>>

StoreTimestamp ==
    /\ wpc = "ts"
    /\ slotTs' = [slotTs EXCEPT ![SlotOf(widx)] = ev.ts]
    /\ wpc' = "size"
    /\ UNCHANGED <<tag, slotSize, slotBody, head, sync, valid, wopen, lastTs, ev, widx, wk, crashes, readers, log>>

StoreSize ==
    /\ wpc = "size"
    /\ slotSize' = [slotSize EXCEPT ![SlotOf(widx)] = ev.size]
    /\ wpc' = "body"
    /\ UNCHANGED <<tag, slotTs, slotBody, head, sync, valid, wopen, lastTs, ev, widx, wk, crashes, readers, log>>

(* storeBytes: only the words the event has; the rest of the slot keeps    *)
(* what the previous entry left there.                                     *)
StoreWord ==
    /\ wpc = "body" /\ wk < ev.size
    /\ slotBody' = [slotBody EXCEPT ![SlotOf(widx)][wk + 1] = ev.body[wk + 1]]
    /\ wk' = wk + 1
    /\ UNCHANGED <<tag, slotTs, slotSize, head, sync, valid, wpc, wopen, lastTs, ev, widx, crashes, readers, log>>

StoreCompleteTag ==
    /\ wpc = "body" /\ wk = ev.size
    /\ tag' = [tag EXCEPT ![SlotOf(widx)] = CompleteTag(widx)]
    /\ log' = Append(log, ev)
    /\ wpc' = "head"
    /\ UNCHANGED <<words, head, sync, valid, wopen, lastTs, ev, widx, wk, crashes, readers>>

StoreHead ==
    /\ wpc = "head"
    /\ head' = widx
    /\ lastTs' = ev.ts
    /\ wopen' = FALSE
    /\ wpc' = "sync"
    /\ UNCHANGED <<tag, words, sync, valid, ev, widx, wk, crashes, readers, log>>

BumpSync ==
    /\ wpc = "sync"
    /\ sync' = sync + 1
    /\ wpc' = "wake"
    /\ UNCHANGED <<tag, words, head, valid, wopen, lastTs, ev, widx, wk, crashes, readers, log>>

(* wakeAll: the kernel makes every sleeper runnable; each one re-enters    *)
(* the loop of waitUntilChanged.                                           *)
WakeAll ==
    /\ wpc = "wake"
    /\ wpc' = "idle"
    /\ rpc' = [r \in Readers |-> IF rpc[r] = "asleep" THEN "wait" ELSE rpc[r]]
    /\ UNCHANGED <<shared, wopen, lastTs, ev, widx, wk, crashes, next, prev, copy, rk, status, log>>

(* The writing process dies between two stores, or releases its writer.    *)
WriterGone ==
    /\ wpc # "down" /\ crashes < MaxCrashes
    /\ wpc' = "down"
    /\ crashes' = crashes + 1
    /\ UNCHANGED <<shared, wopen, lastTs, ev, widx, wk, readers, log>>

(* The flow directory is removed (deleteFlow, garbage collection): the     *)
(* mapping lives on, isFlowValid() turns false, no writer can attach.      *)
RemoveFlow ==
    /\ valid
    /\ valid' = FALSE
    /\ UNCHANGED <<tag, words, head, sync, writer, readers, log>>

-----------------------------------------------------------------------------
Goto(r, pc) == rpc' = [rpc EXCEPT ![r] = pc]

(* getEvent returns: its local variables are gone.                         *)
Return(r, result) ==
    /\ Goto(r, "idle")
    /\ status' = [status EXCEPT ![r] = result]
    /\ prev' = [prev EXCEPT ![r] = 0]
    /\ rk' = [rk EXCEPT ![r] = 0]

OpenReader(r) ==
    /\ rpc[r] = "closed" /\ valid
    /\ next' = [next EXCEPT ![r] = OldestIndex]
    /\ Goto(r, "idle")
    /\ UNCHANGED <<shared, writer, prev, copy, rk, status, log>>

GetEvent(r) ==
    /\ rpc[r] = "idle"
    /\ Goto(r, "sync")
    /\ status' = [status EXCEPT ![r] = "none"]
    /\ UNCHANGED <<shared, writer, next, prev, copy, rk, log>>

LoadSync(r) ==
    /\ rpc[r] = "sync"
    /\ prev' = [prev EXCEPT ![r] = sync]
    /\ Goto(r, "oldest")
    /\ UNCHANGED <<shared, writer, next, copy, rk, status, log>>

(* The head is compared with the cursor before the slot is looked at.      *)
CheckOldest(r) ==
    /\ rpc[r] = "oldest"
    /\ \/ /\ next[r] < OldestIndex
          /\ next' = [next EXCEPT ![r] = OldestIndex]
          /\ Return(r, "TOO_LATE")
       \/ /\ next[r] >= OldestIndex
          /\ Goto(r, "tag")
          /\ UNCHANGED <<next, prev, rk, status>>
    /\ UNCHANGED <<shared, writer, copy, log>>

(* read(): the first load of the sequence tag decides.                     *)
LoadTag(r) ==
    /\ rpc[r] = "tag"
    /\ \/ ReadOutcome(next[r]) = "Ready"       /\ Goto(r, "ts")
       \/ ReadOutcome(next[r]) = "Overwritten" /\ Goto(r, "skip")
       \/ ReadOutcome(next[r]) = "Pending"     /\ Goto(r, "pending")
    /\ UNCHANGED <<shared, writer, next, prev, copy, rk, status, log>>

LoadTimestamp(r) ==
    /\ rpc[r] = "ts"
    /\ rcvTs' = [rcvTs EXCEPT ![r] = slotTs[SlotOf(next[r])]]
    /\ Goto(r, "size")
    /\ UNCHANGED <<shared, writer, next, prev, rcvSize, snapshot, rk, status, log>>

LoadSize(r) ==
    /\ rpc[r] = "size"
    /\ rcvSize' = [rcvSize EXCEPT ![r] = slotSize[SlotOf(next[r])]]
    /\ rk' = [rk EXCEPT ![r] = 0]
    /\ Goto(r, "body")
    /\ UNCHANGED <<shared, writer, next, prev, rcvTs, snapshot, status, log>>

LoadWord(r) ==
    /\ rpc[r] = "body"
    /\ rcvSize[r] <= PayloadWords /\ rk[r] < rcvSize[r]
    /\ snapshot' = [snapshot EXCEPT ![r][rk[r] + 1] = slotBody[SlotOf(next[r])][rk[r] + 1]]
    /\ rk' = [rk EXCEPT ![r] = @ + 1]
    /\ UNCHANGED <<shared, writer, rpc, next, prev, rcvTs, rcvSize, status, log>>

TagMoved_NotChecked(r) == FALSE

TagMoved(r) == tag[SlotOf(next[r])] # CompleteTag(next[r])

(* The second load of the tag: the copy counts only if it has not moved.   *)
RecheckTag(r) ==
    /\ rpc[r] = "body"
    /\ rcvSize[r] > PayloadWords \/ rk[r] = rcvSize[r]
    /\ IF TagMoved(r)
       THEN Goto(r, "skip") /\ UNCHANGED <<next, prev, rk, status>>
       ELSE IF rcvSize[r] > PayloadWords
       THEN Return(r, "FLOW_INVALID") /\ UNCHANGED next
       ELSE /\ Return(r, "OK")
            /\ next' = [next EXCEPT ![r] = @ + 1]
    /\ UNCHANGED <<shared, writer, copy, log>>

NextAfterOverwrite_WholeRing(r) == next[r] + EventCount

NextAfterOverwrite(r) == MaxOf(next[r] + 1, OldestIndex)

SkipOverwritten(r) ==
    /\ rpc[r] = "skip"
    /\ next' = [next EXCEPT ![r] = NextAfterOverwrite(r)]
    /\ Return(r, "TOO_LATE")
    /\ UNCHANGED <<shared, writer, copy, log>>

CheckValid(r) ==
    /\ rpc[r] = "pending"
    /\ \/ valid /\ Goto(r, "wait") /\ UNCHANGED <<prev, rk, status>>
       \/ ~valid /\ Return(r, "FLOW_INVALID")
    /\ UNCHANGED <<shared, writer, next, copy, log>>

(* waitUntilChanged: FUTEX_WAIT sleeps only if the counter still has the   *)
(* remembered value, compared by the kernel atomically with going to sleep.*)
Wait(r) ==
    /\ rpc[r] = "wait"
    /\ Goto(r, IF sync # prev[r] THEN "sync" ELSE "asleep")
    /\ UNCHANGED <<shared, writer, next, prev, copy, rk, status, log>>

(* The deadline passes: before the wait, in its loop, or asleep.           *)
Deadline(r) ==
    /\ rpc[r] \in {"wait", "asleep"}
    /\ Return(r, "TOO_EARLY")
    /\ UNCHANGED <<shared, writer, next, copy, log>>

(* EINTR: the wait is entered again.                                       *)
Interrupted(r) ==
    /\ rpc[r] = "asleep"
    /\ Goto(r, "wait")
    /\ UNCHANGED <<shared, writer, next, prev, copy, rk, status, log>>

-----------------------------------------------------------------------------
CommitStep ==
    \/ StoreTimestamp \/ StoreSize \/ StoreWord \/ StoreCompleteTag
    \/ StoreHead \/ BumpSync \/ WakeAll

WriterNext ==
    \/ RecoverWriter \/ OpenEvent \/ CancelEvent
    \/ \E e \in Events : StoreWritingTag(e)
    \/ CommitStep \/ WriterGone

ReaderStep(r) ==
    \/ LoadSync(r) \/ CheckOldest(r) \/ LoadTag(r) \/ LoadTimestamp(r) \/ LoadSize(r)
    \/ LoadWord(r) \/ RecheckTag(r) \/ SkipOverwritten(r) \/ CheckValid(r) \/ Wait(r)

ReaderNext(r) ==
    ReaderStep(r) \/ OpenReader(r) \/ GetEvent(r) \/ Deadline(r) \/ Interrupted(r)

Next == WriterNext \/ RemoveFlow \/ \E r \in Readers : ReaderNext(r)

Spec == Init /\ [][Next]_vars

(* A thread inside commit() or getEvent() keeps running; nobody has to     *)
(* call them, and neither a deadline nor an interruption has to come.      *)
FairSpec ==
    /\ Spec
    /\ WF_vars(CommitStep)
    /\ \A r \in Readers : WF_vars(ReaderStep(r))

-----------------------------------------------------------------------------
WriterPcs == {"down", "idle", "ts", "size", "body", "head", "sync", "wake"}
ReaderPcs == {"closed", "idle", "sync", "oldest", "tag", "ts", "size", "body",
              "skip", "pending", "wait", "asleep"}
Statuses  == {"none", "OK", "TOO_LATE", "TOO_EARLY", "FLOW_INVALID"}
Payloads  == [1..PayloadWords -> Values]

(* Every variable keeps the type of the field it stands for.               *)
TypeOK ==
    /\ tag \in [Slots -> Nat]
    /\ slotTs \in [Slots -> Timestamps]
    /\ slotSize \in [Slots -> 0..PayloadWords]
    /\ slotBody \in [Slots -> Payloads]
    /\ head \in Int /\ head >= UNDEFINED
    /\ sync \in Nat /\ valid \in BOOLEAN
    /\ wpc \in WriterPcs /\ wopen \in BOOLEAN /\ lastTs \in Timestamps
    /\ ev \in EventRec /\ widx \in Nat /\ wk \in 0..PayloadWords /\ crashes \in Nat
    /\ rpc \in [Readers -> ReaderPcs]
    /\ next \in [Readers -> Nat]
    /\ prev \in [Readers -> Nat]
    /\ rcvTs \in [Readers -> Timestamps]
    /\ rcvSize \in [Readers -> 0..PayloadWords]
    /\ snapshot \in [Readers -> Payloads]
    /\ rk \in [Readers -> 0..PayloadWords]
    /\ status \in [Readers -> Statuses]
    /\ log \in Seq(EventRec)

(* The event a reader's buffer holds: the words its metadata announces.    *)
Received(r) == [ts   |-> rcvTs[r],
                size |-> rcvSize[r],
                body |-> [k \in 1..rcvSize[r] |-> snapshot[r][k]]]

(* getEvent returned OK: what the application sees is exactly the event    *)
(* published at that index, never a mixture with the one overwriting it,   *)
(* whatever writer crashes and recoveries came between.                    *)
SnapshotIntegrity ==
    \A r \in Readers : status[r] = "OK" =>
        /\ next[r] \in 1..Len(log)
        /\ Received(r) = log[next[r]]

(* After any crash the next writer's constructor finds a state it accepts: *)
(* the committed head readable, the next slot complete or free, and the    *)
(* timestamps in order (it throws otherwise and the flow is stuck).        *)
RecoverySucceeds == wpc = "down" => RecoveryAccepts

(* A producer that may commit is never refused by publish() with           *)
(* FLOW_INVALID: no stale tag blocks the slot of the next index.           *)
PublishNeverBlocked == wpc = "idle" /\ head + 1 <= MaxIndex => PublishAccepts(head + 1)

(* A flow is never stuck: not after a crash, and not while it is written.  *)
WriterNeverStuck == RecoverySucceeds /\ PublishNeverBlocked

(* No event is lost or counted twice across crashes: a writer that is not  *)
(* in the middle of a commit has the head at the last published event.     *)
HeadMatchesLog ==
    /\ wpc \in {"idle", "ts", "size", "body", "sync", "wake"} => head = Len(log) - 1
    /\ head \in {Len(log) - 1, Len(log) - 2}

(* Timestamps never decrease along the flow, also across recoveries.       *)
TimestampsOrdered == \A i, j \in 1..Len(log) : i <= j => log[i].ts <= log[j].ts

(* The head follows the log, and the log is in the order of time.          *)
LogConsistent == HeadMatchesLog /\ TimestampsOrdered

(* A reader sleeps on an entry it could have only while somebody is about  *)
(* to notify it: the writer is still between the complete tag and wakeAll, *)
(* or it died there and the next writer has not attached.                  *)
NoLostWakeup ==
    \A r \in Readers :
        rpc[r] = "asleep" /\ next[r] < Len(log) => wpc \in {"head", "sync", "wake", "down"}

(* A completed entry is immutable: its slot's tag can only move on to a    *)
(* later index, and no word of the slot changes while the tag is complete. *)
CompletedIsFinal ==
    [][\A s \in Slots :
          tag[s] # EMPTY /\ tag[s] % 2 = 1 =>
             IF tag'[s] = tag[s]
             THEN /\ slotTs'[s] = slotTs[s] /\ slotSize'[s] = slotSize[s]
                  /\ slotBody'[s] = slotBody[s]
             ELSE TagIndex(tag'[s]) > TagIndex(tag[s])]_vars

(* The ring implements the log of EventLog: the log is what was published, *)
(* the cursor is _nextIndex, the result is what getEvent handed out.       *)
LogCursor == [r \in Readers |-> IF rpc[r] = "closed" THEN -1 ELSE next[r]]
LogOut    == [r \in Readers |-> IF status[r] = "OK" THEN <<Received(r)>> ELSE <<>>]

Log == INSTANCE EventLog WITH
    Retained <- EventCount,
    cursor   <- LogCursor,
    out      <- LogOut

(* Readers get the published events in order, each exactly as committed,   *)
(* and miss only entries the ring has overwritten or is overwriting, across*)
(* writer crashes, recoveries and any interleaving of the shared accesses. *)
ImplementsLog == Log!Spec

(* A reader blocked on a flow whose entry was published gets out of        *)
(* getEvent without its deadline's help, provided the flow stays in place  *)
(* and a crashed writer is always replaced.                                *)
BlockedReaderReturns ==
    \A r \in Readers :
        ([]valid /\ []<>(wpc # "down")) =>
            ((rpc[r] \notin {"closed", "idle"} /\ next[r] < Len(log)) ~> (rpc[r] = "idle"))

-----------------------------------------------------------------------------
(* The inductive invariant behind the safety properties.                   *)
Published == 0 .. Len(log) - 1

(* A tag is empty, complete for a published index, or marks the one entry  *)
(* being written, whose index follows the last published one.              *)
TagsKnown ==
    /\ Len(log) <= MaxIndex + 1
    /\ \A s \in Slots :
          \/ tag[s] = EMPTY
          \/ \E i \in Published : SlotOf(i) = s /\ tag[s] = CompleteTag(i)
          \/ SlotOf(Len(log)) = s /\ tag[s] = WritingTag(Len(log)) /\ Len(log) <= MaxIndex

(* The slot of a published index never goes back before it.                *)
TagsPassed ==
    \A i \in Published :
        \/ tag[SlotOf(i)] = CompleteTag(i)
        \/ tag[SlotOf(i)] # EMPTY /\ TagIndex(tag[SlotOf(i)]) > i

(* The last EventCount entries are in the ring, except the oldest of them  *)
(* once the next entry is being written over it.                           *)
Retention ==
    \A i \in Published : i >= Len(log) - EventCount =>
        \/ tag[SlotOf(i)] = CompleteTag(i)
        \/ /\ i = Len(log) - EventCount
           /\ tag[SlotOf(i)] = WritingTag(Len(log))
           /\ head = Len(log) - 1

SlotHolds(s, e) ==
    /\ slotTs[s] = e.ts
    /\ slotSize[s] = e.size
    /\ \A k \in 1..e.size : slotBody[s][k] = e.body[k]

CompleteMatches ==
    \A i \in Published :
        tag[SlotOf(i)] = CompleteTag(i) => SlotHolds(SlotOf(i), log[i + 1])

(* The writer between two stores of a commit.                              *)
WriterProgress ==
    /\ wpc \in {"ts", "size", "body"} =>
          /\ widx = Len(log) /\ widx <= MaxIndex
          /\ tag[SlotOf(widx)] = WritingTag(widx)
          /\ ev \in Events /\ ev.ts >= lastTs
    /\ wpc \in {"ts", "size"} => wk = 0
    /\ wpc \in {"size", "body"} => slotTs[SlotOf(widx)] = ev.ts
    /\ wpc = "body" =>
          /\ slotSize[SlotOf(widx)] = ev.size
          /\ wk <= ev.size
          /\ \A k \in 1..wk : slotBody[SlotOf(widx)][k] = ev.body[k]
    /\ wpc = "head" => widx = Len(log) - 1 /\ head = Len(log) - 2 /\ ev = log[Len(log)]

LastTimestampKnown ==
    wpc \notin {"down", "head"} /\ log # <<>> => log[Len(log)].ts <= lastTs

(* The sync counter only ever announces committed entries.                 *)
NotifiesCommitted ==
    /\ sync > 0 => head # UNDEFINED
    /\ wpc \in {"sync", "wake"} => log # <<>>

RingInv ==
    /\ TagsKnown /\ TagsPassed /\ Retention /\ CompleteMatches
    /\ WriterProgress /\ HeadMatchesLog
    /\ TimestampsOrdered /\ LastTimestampKnown
    /\ NotifiesCommitted

(* A copy in progress agrees with the log for as long as the tag stands.   *)
CopyMatches(r) ==
    /\ rpc[r] \in {"ts", "size", "body"} => next[r] \in Published
    /\ tag[SlotOf(next[r])] = CompleteTag(next[r]) =>
          /\ rpc[r] \in {"size", "body"} => rcvTs[r] = log[next[r] + 1].ts
          /\ rpc[r] = "body" =>
                /\ rcvSize[r] = log[next[r] + 1].size
                /\ \A k \in 1..rk[r] : snapshot[r][k] = log[next[r] + 1].body[k]

(* A reader that found nothing will notice what was published meanwhile.   *)
WakeupPending(r) ==
    /\ prev[r] <= sync
    /\ rpc[r] \in {"pending", "wait", "asleep"} /\ next[r] < Len(log) =>
          prev[r] # sync \/ wpc \in {"head", "sync", "down"}
    /\ rpc[r] = "asleep" /\ prev[r] # sync => wpc \in {"sync", "wake", "down"}

(* A successful call has returned; its result is the published event.      *)
ResultMatches(r) ==
    status[r] = "OK" => rpc[r] = "idle" /\ next[r] \in 1..Len(log) /\ Received(r) = log[next[r]]

ReaderInv(r) ==
    /\ CopyMatches(r)
    /\ rpc[r] = "skip" => next[r] + EventCount <= Len(log)
    /\ WakeupPending(r)
    /\ ResultMatches(r)

(* What every step preserves.                                              *)
IndInv == TypeOK /\ RingInv /\ \A r \in Readers : ReaderInv(r)
=============================================================================
