-------------------------- MODULE EventRing_proofs --------------------------
(* Theorems about EventRing, for every number of readers, slots, payload   *)
(* words and events.                                                       *)
EXTENDS EventRing, TLAPS

-----------------------------------------------------------------------------
(* Slots and tags.                                                         *)

LEMMA SlotInRange == ASSUME NEW i \in Nat PROVE SlotOf(i) \in Slots
  BY RingAssumption DEF SlotOf, Slots

(* Two indices share a slot only when they are at least a ring apart.      *)
LEMMA SlotsApart ==
  ASSUME NEW i \in Nat, NEW j \in Nat, i < j, SlotOf(i) = SlotOf(j)
  PROVE  i + EventCount <= j
  <1> DEFINE N == EventCount
             q == i \div N
             p == j \div N
             m == i % N
  <1>0. N \in Nat /\ N >= 2
    BY RingAssumption
  <1> HIDE DEF N
  <1>1. /\ q \in Int /\ p \in Int /\ m \in Int
        /\ i = N * q + m
        /\ j = N * p + m
    BY <1>0 DEF SlotOf, N
  <1> HIDE DEF q, p, m
  <1>2. N * q < N * p
    BY <1>0, <1>1
  <1>3. q < p
    BY <1>0, <1>1, <1>2
  <1>4. N * q + N <= N * p
    BY <1>0, <1>1, <1>3
  <1>5. i + N <= j
    BY <1>0, <1>1, <1>4
  <1> QED BY <1>5 DEF N

LEMMA TagFacts ==
  ASSUME NEW i \in Nat, NEW j \in Nat
  PROVE  /\ WritingTag(i) \in Nat /\ CompleteTag(i) \in Nat /\ EMPTY \in Nat
         /\ TagIndex(WritingTag(i)) = i /\ TagIndex(CompleteTag(i)) = i
         /\ CompleteTag(i) # WritingTag(j)
         /\ WritingTag(i) # EMPTY
         /\ i <= MaxIndex => CompleteTag(i) # EMPTY
         /\ CompleteTag(i) = CompleteTag(j) => i = j
         /\ WritingTag(i) = WritingTag(j) => i = j
  BY RingAssumption DEF WritingTag, CompleteTag, EMPTY, TagIndex

LEMMA EventFacts ==
  ASSUME NEW e \in EventRec
  PROVE  /\ e.ts \in Timestamps /\ e.ts \in Nat
         /\ e.size \in 0..PayloadWords
         /\ e.body \in [1..e.size -> Values]
         /\ e = [ts |-> e.ts, size |-> e.size, body |-> e.body]
  BY RingAssumption DEF EventRec

LEMMA OldestInNat == head \in Int /\ head >= UNDEFINED => OldestIndex \in Nat
  BY RingAssumption DEF OldestIndex, UNDEFINED

-----------------------------------------------------------------------------
(* Type correctness.  Its one delicate part is the cursor: OldestIndex is  *)
(* never negative, whatever the head.                                      *)

LEMMA TypeWriter == TypeOK /\ WriterNext => TypeOK'
  <1> SUFFICES ASSUME TypeOK, WriterNext PROVE TypeOK'
    OBVIOUS
  <1> USE DEF TypeOK, shared, words, writer, copy, readers, WriterPcs, Payloads
  <1>1. CASE RecoverWriter
    <2>1. head' \in Int /\ head' >= UNDEFINED
      BY <1>1 DEF RecoverWriter, RecoveredHead, UNDEFINED
    <2>2. lastTs' \in Timestamps
      <3>1. CASE RecoveredHead = UNDEFINED
        BY <1>1, <3>1, RingAssumption DEF RecoverWriter, RestoredTimestamp
      <3>2. CASE RecoveredHead # UNDEFINED
        <4>1. RecoveredHead \in Nat
          BY <1>1, <2>1, <3>2 DEF RecoverWriter, UNDEFINED
        <4>2. SlotOf(RecoveredHead) \in Slots
          BY <4>1, SlotInRange
        <4> QED BY <1>1, <3>2, <4>2 DEF RecoverWriter, RestoredTimestamp
      <3> QED BY <3>1, <3>2
    <2> QED BY <1>1, <2>1, <2>2 DEF RecoverWriter
  <1>2. CASE OpenEvent
    BY <1>2 DEF OpenEvent
  <1>3. CASE CancelEvent
    BY <1>3 DEF CancelEvent
  <1>4. ASSUME NEW e \in Events, StoreWritingTag(e) PROVE TypeOK'
    <2>1. head + 1 \in Nat /\ e \in EventRec
      BY RingAssumption DEF UNDEFINED
    <2>2. WritingTag(head + 1) \in Nat
      BY <2>1 DEF WritingTag
    <2>3. tag' \in [Slots -> Nat]
      BY <1>4, <2>2 DEF StoreWritingTag, MarkWriting
    <2>4. 0 \in 0..PayloadWords
      BY RingAssumption
    <2> QED BY <1>4, <2>1, <2>3, <2>4 DEF StoreWritingTag
  <1>5. CASE CommitStep
    <2>0. /\ ev.ts \in Timestamps /\ ev.size \in 0..PayloadWords
          /\ ev.body \in [1..ev.size -> Values]
      BY EventFacts
    <2>s. SlotOf(widx) \in Slots
      BY SlotInRange
    <2>1. CASE StoreTimestamp
      BY <2>0, <2>s, <2>1 DEF StoreTimestamp
    <2>2. CASE StoreSize
      BY <2>0, <2>s, <2>2 DEF StoreSize
    <2>3. CASE StoreWord
      <3>1. wk + 1 \in 1..ev.size /\ wk + 1 \in 0..PayloadWords
        BY <2>0, <2>3, RingAssumption DEF StoreWord
      <3>2. ev.body[wk + 1] \in Values
        BY <2>0, <3>1
      <3>3. slotBody' \in [Slots -> [1..PayloadWords -> Values]]
        BY <2>s, <2>3, <3>2 DEF StoreWord
      <3> QED BY <2>3, <3>1, <3>3 DEF StoreWord
    <2>4. CASE StoreCompleteTag
      <3>1. CompleteTag(widx) \in Nat
        BY DEF CompleteTag
      <3>2. tag' \in [Slots -> Nat]
        BY <2>4, <3>1 DEF StoreCompleteTag
      <3> QED BY <2>4, <3>2 DEF StoreCompleteTag
    <2>5. CASE StoreHead
      <3>1. head' \in Int /\ head' >= UNDEFINED
        BY <2>5 DEF StoreHead, UNDEFINED
      <3>2. lastTs' \in Timestamps
        BY <2>0, <2>5 DEF StoreHead
      <3> QED BY <2>5, <3>1, <3>2 DEF StoreHead
    <2>6. CASE BumpSync
      BY <2>6 DEF BumpSync
    <2>7. CASE WakeAll
      <3>1. rpc' \in [Readers -> ReaderPcs]
        BY <2>7 DEF WakeAll, ReaderPcs
      <3> QED BY <2>7, <3>1 DEF WakeAll
    <2> QED BY <1>5, <2>1, <2>2, <2>3, <2>4, <2>5, <2>6, <2>7 DEF CommitStep
  <1>6. CASE WriterGone
    BY <1>6 DEF WriterGone
  <1> QED BY <1>1, <1>2, <1>3, <1>4, <1>5, <1>6 DEF WriterNext

LEMMA TypeReturn ==
  ASSUME TypeOK, NEW r \in Readers, NEW x \in Statuses, Return(r, x)
  PROVE  /\ rpc' \in [Readers -> ReaderPcs] /\ status' \in [Readers -> Statuses]
         /\ prev' \in [Readers -> Nat] /\ rk' \in [Readers -> 0..PayloadWords]
  BY RingAssumption DEF TypeOK, Return, Goto, ReaderPcs

LEMMA TypeReader ==
  ASSUME TypeOK, NEW r \in Readers, ReaderNext(r)
  PROVE  TypeOK'
  <1> USE DEF TypeOK, shared, words, writer, copy, readers, Goto, ReaderPcs, Payloads
  <1>s. SlotOf(next[r]) \in Slots
    BY SlotInRange
  <1>z. 0 \in 0..PayloadWords
    BY RingAssumption
  <1>o. OldestIndex \in Nat
    BY OldestInNat
  <1>r. /\ "TOO_LATE" \in Statuses /\ "TOO_EARLY" \in Statuses /\ "OK" \in Statuses
        /\ "FLOW_INVALID" \in Statuses /\ "none" \in Statuses
    BY DEF Statuses
  <1>1. CASE LoadSync(r)
    BY <1>1 DEF LoadSync
  <1>2. CASE CheckOldest(r)
    <2>1. CASE next[r] < OldestIndex /\ Return(r, "TOO_LATE")
      <3>1. next' \in [Readers -> Nat] /\ UNCHANGED <<shared, writer, copy, log>>
        BY <1>2, <1>o, <2>1 DEF CheckOldest
      <3> QED BY <1>r, <2>1, <3>1, TypeReturn
    <2>2. CASE Goto(r, "tag") /\ UNCHANGED <<next, prev, rk, status>>
      BY <1>2, <2>2 DEF CheckOldest
    <2> QED BY <1>2, <2>1, <2>2 DEF CheckOldest
  <1>3. CASE LoadTag(r)
    BY <1>3 DEF LoadTag
  <1>4. CASE LoadTimestamp(r)
    BY <1>4, <1>s DEF LoadTimestamp
  <1>5. CASE LoadSize(r)
    BY <1>5, <1>s, <1>z DEF LoadSize
  <1>6. CASE LoadWord(r)
    <2>1. rk[r] + 1 \in 1..PayloadWords
      BY <1>6, RingAssumption DEF LoadWord
    <2>2. slotBody[SlotOf(next[r])][rk[r] + 1] \in Values
      <3>1. slotBody[SlotOf(next[r])] \in [1..PayloadWords -> Values]
        BY <1>s
      <3> QED BY <2>1, <3>1
    <2>3. snapshot' \in [Readers -> [1..PayloadWords -> Values]]
      BY <1>6, <2>1, <2>2 DEF LoadWord
    <2>4. rk' \in [Readers -> 0..PayloadWords]
      BY <1>6, <2>1, RingAssumption DEF LoadWord
    <2> QED BY <1>6, <2>3, <2>4 DEF LoadWord
  <1>7. CASE RecheckTag(r)
    <2>1. CASE TagMoved(r)
      BY <1>7, <2>1 DEF RecheckTag
    <2>2. CASE ~TagMoved(r) /\ rcvSize[r] > PayloadWords
      BY <1>7, <1>r, <2>2, TypeReturn DEF RecheckTag
    <2>3. CASE ~TagMoved(r) /\ ~(rcvSize[r] > PayloadWords)
      <3>1. /\ Return(r, "OK") /\ next' = [next EXCEPT ![r] = @ + 1]
            /\ UNCHANGED <<shared, writer, copy, log>>
        BY <1>7, <2>3 DEF RecheckTag
      <3>2. next' \in [Readers -> Nat]
        BY <3>1
      <3> QED BY <1>r, <3>1, <3>2, TypeReturn
    <2> QED BY <2>1, <2>2, <2>3
  <1>8. CASE SkipOverwritten(r)
    <2>1. NextAfterOverwrite(r) \in Nat
      BY <1>o DEF NextAfterOverwrite, MaxOf
    <2> QED BY <1>8, <1>r, <2>1, TypeReturn DEF SkipOverwritten
  <1>9. CASE CheckValid(r)
    <2>1. CASE Goto(r, "wait") /\ UNCHANGED <<prev, rk, status>>
      BY <1>9, <2>1 DEF CheckValid
    <2>2. CASE Return(r, "FLOW_INVALID")
      BY <1>9, <1>r, <2>2, TypeReturn DEF CheckValid
    <2> QED BY <1>9, <2>1, <2>2 DEF CheckValid
  <1>10. CASE Wait(r)
    BY <1>10 DEF Wait
  <1>11. CASE OpenReader(r)
    BY <1>11, <1>o DEF OpenReader
  <1>12. CASE GetEvent(r)
    BY <1>12, <1>r DEF GetEvent
  <1>13. CASE Deadline(r)
    BY <1>13, <1>r, TypeReturn DEF Deadline
  <1>14. CASE Interrupted(r)
    BY <1>14 DEF Interrupted
  <1> QED BY <1>1, <1>2, <1>3, <1>4, <1>5, <1>6, <1>7, <1>8, <1>9, <1>10, <1>11, <1>12,
             <1>13, <1>14 DEF ReaderNext, ReaderStep

LEMMA TypeInit == Init => TypeOK
  <1> SUFFICES ASSUME Init PROVE TypeOK
    OBVIOUS
  <1>1. ZeroBody \in Payloads
    BY RingAssumption DEF ZeroBody, Payloads
  <1>2. ev \in EventRec
    <2>1. ev \in [ts : Timestamps, size : {0}, body : [1..0 -> Values]]
      BY RingAssumption DEF Init
    <2> QED BY <2>1, RingAssumption DEF EventRec
  <1>3. EMPTY \in Nat /\ 0 \in 0..PayloadWords
    BY RingAssumption DEF EMPTY
  <1>4. /\ tag \in [Slots -> Nat] /\ slotTs \in [Slots -> Timestamps]
        /\ slotSize \in [Slots -> 0..PayloadWords] /\ slotBody \in [Slots -> Payloads]
    BY <1>1, <1>3, RingAssumption DEF Init
  <1>8. valid \in BOOLEAN /\ wopen \in BOOLEAN
    BY Zenon DEF Init
  <1>5. /\ head \in Int /\ head >= UNDEFINED /\ sync \in Nat
        /\ wpc \in WriterPcs /\ lastTs \in Timestamps
        /\ widx \in Nat /\ wk \in 0..PayloadWords /\ crashes \in Nat
    BY <1>3, RingAssumption DEF Init, UNDEFINED, WriterPcs
  <1>6. /\ rpc \in [Readers -> ReaderPcs] /\ next \in [Readers -> Nat]
        /\ prev \in [Readers -> Nat] /\ rcvTs \in [Readers -> Timestamps]
        /\ rcvSize \in [Readers -> 0..PayloadWords] /\ snapshot \in [Readers -> Payloads]
        /\ rk \in [Readers -> 0..PayloadWords] /\ status \in [Readers -> Statuses]
    BY <1>1, <1>3, RingAssumption DEF Init, ReaderPcs, Statuses
  <1>7. log \in Seq(EventRec)
    BY DEF Init
  <1> QED BY <1>2, <1>4, <1>5, <1>6, <1>7, <1>8 DEF TypeOK

LEMMA TypeStep == TypeOK /\ [Next]_vars => TypeOK'
  <1> SUFFICES ASSUME TypeOK, [Next]_vars PROVE TypeOK'
    OBVIOUS
  <1>1. CASE WriterNext
    BY <1>1, TypeWriter
  <1>2. CASE RemoveFlow
    BY <1>2 DEF RemoveFlow, TypeOK, words, writer, copy, readers
  <1>3. ASSUME NEW r \in Readers, ReaderNext(r) PROVE TypeOK'
    BY <1>3, TypeReader
  <1>4. CASE UNCHANGED vars
    BY <1>4 DEF vars, shared, words, writer, copy, readers, TypeOK
  <1> QED BY <1>1, <1>2, <1>3, <1>4 DEF Next

(* Every behaviour keeps every variable in its type: in particular the     *)
(* cursor, restarted from OldestIndex() after falling behind, never        *)
(* underflows, and no copy leaves the payload buffer.                      *)
THEOREM TypeCorrect == Spec => []TypeOK
  BY TypeInit, TypeStep, PTL DEF Spec

-----------------------------------------------------------------------------
(* The ring: what the writer's steps preserve.                             *)

(* A slot shared by a published index and the next one to publish belongs  *)
(* to the oldest index the ring can hold.                                  *)
LEMMA NextSlotIsOldest ==
  ASSUME log \in Seq(EventRec), NEW i \in Published, SlotOf(i) = SlotOf(Len(log))
  PROVE  i + EventCount <= Len(log)
  BY SlotsApart DEF Published

(* Steps that store nothing to the ring.                                   *)
LEMMA RingFrame ==
  ASSUME TypeOK, RingInv, UNCHANGED <<tag, words, log, head>>
  PROVE  TagsKnown' /\ TagsPassed' /\ Retention' /\ CompleteMatches' /\ TimestampsOrdered'
  <1> USE DEF words, RingInv
  <1>1. Published' = Published
    BY DEF Published
  <1>2. TagsKnown' /\ TagsPassed' /\ Retention'
    BY <1>1 DEF TagsKnown, TagsPassed, Retention
  <1>3. CompleteMatches' /\ TimestampsOrdered'
    BY <1>1 DEF CompleteMatches, SlotHolds, TimestampsOrdered
  <1> QED BY <1>2, <1>3

LEMMA RingMarkWriting ==
  ASSUME TypeOK, RingInv, NEW e \in Events, StoreWritingTag(e)
  PROVE  RingInv'
  <1> DEFINE L == Len(log)
             s == SlotOf(L)
  <1>0. L \in Nat /\ head = L - 1 /\ L <= MaxIndex /\ s \in Slots
    <2>1. L \in Nat /\ head = L - 1
      BY DEF TypeOK, RingInv, HeadMatchesLog, StoreWritingTag
    <2>2. L <= MaxIndex
      BY <2>1 DEF StoreWritingTag, PublishAccepts
    <2> QED BY <2>1, <2>2, SlotInRange
  <1>1. tag' = [tag EXCEPT ![s] = WritingTag(L)] /\ UNCHANGED <<words, log, head, sync>>
    BY <1>0 DEF StoreWritingTag, MarkWriting
  <1>2. tag \in [Slots -> Nat] /\ Published' = Published /\ Len(log') = L
    BY <1>1 DEF TypeOK, Published
  <1>3. TagsKnown'
    BY <1>0, <1>1, <1>2 DEF RingInv, TagsKnown
  <1>4. ASSUME NEW i \in Published
        PROVE  /\ i \in Nat /\ i < L /\ SlotOf(i) \in Slots
               /\ SlotOf(i) = s => i + EventCount <= L
    <2>1. i \in Nat /\ i < L /\ SlotOf(i) \in Slots
      BY <1>0, SlotInRange DEF Published
    <2>2. SlotOf(i) = s => i + EventCount <= L
      BY NextSlotIsOldest DEF TypeOK
    <2> QED BY <2>1, <2>2
  <1>5. TagsPassed'
    <2> SUFFICES ASSUME NEW i \in Published
                 PROVE  \/ tag'[SlotOf(i)] = CompleteTag(i)
                        \/ tag'[SlotOf(i)] # EMPTY /\ TagIndex(tag'[SlotOf(i)]) > i
      BY <1>2 DEF TagsPassed
    <2>1. CASE SlotOf(i) = s
      <3>1. tag'[SlotOf(i)] = WritingTag(L)
        BY <1>0, <1>1, <1>2, <2>1
      <3> QED BY <1>0, <1>4, <3>1, TagFacts
    <2>2. CASE SlotOf(i) # s
      <3>1. tag'[SlotOf(i)] = tag[SlotOf(i)]
        BY <1>1, <1>2, <1>4, <2>2
      <3> QED BY <3>1 DEF RingInv, TagsPassed
    <2> QED BY <2>1, <2>2
  <1>6. Retention'
    <2> SUFFICES ASSUME NEW i \in Published, i >= L - EventCount
                 PROVE  \/ tag'[SlotOf(i)] = CompleteTag(i)
                        \/ i = L - EventCount /\ tag'[SlotOf(i)] = WritingTag(L) /\ head = L - 1
      BY <1>1, <1>2 DEF Retention
    <2>1. CASE SlotOf(i) = s
      BY <1>0, <1>1, <1>2, <1>4, <2>1, RingAssumption
    <2>2. CASE SlotOf(i) # s
      <3>1. tag'[SlotOf(i)] = tag[SlotOf(i)]
        BY <1>1, <1>2, <1>4, <2>2
      <3> QED BY <3>1 DEF RingInv, Retention
    <2> QED BY <2>1, <2>2
  <1>7. CompleteMatches'
    <2> SUFFICES ASSUME NEW i \in Published, tag'[SlotOf(i)] = CompleteTag(i)
                 PROVE  SlotHolds(SlotOf(i), log[i + 1])'
      BY <1>1, <1>2 DEF CompleteMatches
    <2>1. SlotOf(i) # s
      BY <1>0, <1>1, <1>2, <1>4, TagFacts
    <2>2. tag[SlotOf(i)] = CompleteTag(i)
      BY <1>1, <1>2, <1>4, <2>1
    <2> QED BY <1>1, <2>2 DEF RingInv, CompleteMatches, SlotHolds, words
  <1>8. WriterProgress'
    <2>1. widx' = L /\ wk' = 0 /\ wpc' = "ts" /\ ev' = e /\ lastTs' = lastTs /\ e.ts >= lastTs
      BY <1>0 DEF StoreWritingTag
    <2>2. tag'[SlotOf(L)] = WritingTag(L)
      BY <1>0, <1>1, <1>2
    <2> QED BY <1>0, <1>1, <2>1, <2>2 DEF WriterProgress
  <1>9. HeadMatchesLog' /\ TimestampsOrdered' /\ LastTimestampKnown' /\ NotifiesCommitted'
    <2>1. TimestampsOrdered'
      BY <1>1 DEF RingInv, TimestampsOrdered
    <2>2. LastTimestampKnown'
      BY <1>1 DEF RingInv, LastTimestampKnown, StoreWritingTag
    <2>3. NotifiesCommitted'
      BY <1>1 DEF RingInv, NotifiesCommitted, StoreWritingTag
    <2> QED BY <1>0, <1>1, <2>1, <2>2, <2>3 DEF RingInv, HeadMatchesLog
  <1> QED BY <1>3, <1>5, <1>6, <1>7, <1>8, <1>9 DEF RingInv

(* Storing a word of the entry being written touches no complete entry.    *)
LEMMA RingStoreWords ==
  ASSUME TypeOK, RingInv, StoreTimestamp \/ StoreSize \/ StoreWord
  PROVE  RingInv'
  <1> DEFINE s == SlotOf(widx)
  <1>0. /\ widx = Len(log) /\ widx \in Nat /\ s \in Slots
        /\ tag[s] = WritingTag(widx)
        /\ UNCHANGED <<tag, log, head, sync, ev, widx, lastTs>>
        /\ Published' = Published /\ ev \in Events
    BY SlotInRange DEF TypeOK, RingInv, WriterProgress, StoreTimestamp, StoreSize, StoreWord, Published
  <1>1. TagsKnown' /\ TagsPassed' /\ Retention' /\ TimestampsOrdered'
    BY <1>0 DEF RingInv, TagsKnown, TagsPassed, Retention, TimestampsOrdered
  <1>2. CompleteMatches'
    <2> SUFFICES ASSUME NEW i \in Published, tag[SlotOf(i)] = CompleteTag(i)
                 PROVE  SlotHolds(SlotOf(i), log[i + 1])'
      BY <1>0 DEF CompleteMatches
    <2>1. i \in Nat /\ SlotOf(i) \in Slots /\ SlotOf(i) # s
      <3>1. i \in Nat /\ SlotOf(i) \in Slots
        BY <1>0, SlotInRange DEF Published, TypeOK
      <3>2. CompleteTag(i) # WritingTag(widx)
        BY <1>0, <3>1, TagFacts
      <3> QED BY <1>0, <3>1, <3>2
    <2>2. SlotHolds(SlotOf(i), log[i + 1])
      BY DEF RingInv, CompleteMatches
    <2>3. /\ slotTs'[SlotOf(i)] = slotTs[SlotOf(i)]
          /\ slotSize'[SlotOf(i)] = slotSize[SlotOf(i)]
          /\ slotBody'[SlotOf(i)] = slotBody[SlotOf(i)]
      BY <1>0, <2>1 DEF TypeOK, StoreTimestamp, StoreSize, StoreWord
    <2> QED BY <1>0, <2>2, <2>3 DEF SlotHolds
  <1>3. WriterProgress'
    <2>1. CASE StoreTimestamp
      <3>1. slotTs'[s] = ev.ts
        BY <1>0, <2>1 DEF TypeOK, StoreTimestamp
      <3>2. wpc' = "size" /\ wk' = wk /\ wk = 0 /\ widx <= MaxIndex /\ ev.ts >= lastTs
        BY <2>1 DEF StoreTimestamp, RingInv, WriterProgress
      <3> QED BY <1>0, <3>1, <3>2 DEF WriterProgress
    <2>2. CASE StoreSize
      <3>1. slotSize'[s] = ev.size /\ slotTs' = slotTs
        BY <1>0, <2>2 DEF TypeOK, StoreSize
      <3>2. /\ wpc' = "body" /\ wk' = wk /\ wk = 0 /\ widx <= MaxIndex /\ ev.ts >= lastTs
            /\ slotTs[s] = ev.ts
        BY <2>2 DEF StoreSize, RingInv, WriterProgress
      <3>3. 0 <= ev.size
        BY EventFacts DEF TypeOK
      <3> QED BY <1>0, <3>1, <3>2, <3>3 DEF WriterProgress
    <2>3. CASE StoreWord
      <3>1. /\ wpc = "body" /\ wpc' = "body" /\ wk' = wk + 1 /\ wk < ev.size /\ wk \in Nat
            /\ slotTs' = slotTs /\ slotSize' = slotSize /\ ev.size \in 0..PayloadWords
        BY <2>3, EventFacts, RingAssumption DEF TypeOK, StoreWord
      <3>2. /\ slotTs[s] = ev.ts /\ slotSize[s] = ev.size /\ widx <= MaxIndex /\ ev.ts >= lastTs
            /\ \A k \in 1..wk : slotBody[s][k] = ev.body[k]
        BY <3>1 DEF RingInv, WriterProgress
      <3>3. wk + 1 \in 1..PayloadWords /\ slotBody[s] \in [1..PayloadWords -> Values]
        BY <1>0, <3>1, RingAssumption DEF TypeOK, Payloads
      <3>4. slotBody'[s] = [slotBody[s] EXCEPT ![wk + 1] = ev.body[wk + 1]]
        BY <1>0, <2>3 DEF TypeOK, StoreWord
      <3>5. \A k \in 1..wk + 1 : slotBody'[s][k] = ev.body[k]
        <4>1. \A k \in 1..wk : slotBody'[s][k] = slotBody[s][k]
          BY <3>1, <3>3, <3>4
        <4>2. slotBody'[s][wk + 1] = ev.body[wk + 1]
          BY <3>3, <3>4
        <4>3. \A k \in 1..wk + 1 : k \in 1..wk \/ k = wk + 1
          BY <3>1
        <4> QED BY <3>2, <4>1, <4>2, <4>3
      <3> QED BY <1>0, <3>1, <3>2, <3>5 DEF WriterProgress
    <2> QED BY <2>1, <2>2, <2>3
  <1>4. HeadMatchesLog' /\ LastTimestampKnown' /\ NotifiesCommitted'
    BY <1>0 DEF RingInv, HeadMatchesLog, LastTimestampKnown, NotifiesCommitted, StoreTimestamp, StoreSize,
                StoreWord
  <1> QED BY <1>1, <1>2, <1>3, <1>4 DEF RingInv

(* Completing the entry publishes it: the log grows by what was written.   *)
LEMMA RingStoreCompleteTag ==
  ASSUME TypeOK, RingInv, StoreCompleteTag
  PROVE  RingInv'
  <1> DEFINE L == Len(log)
             s == SlotOf(L)
  <1>0. /\ L \in Nat /\ widx = L /\ L <= MaxIndex /\ s \in Slots /\ head = L - 1
        /\ ev \in EventRec /\ tag \in [Slots -> Nat]
    BY SlotInRange DEF TypeOK, RingInv, WriterProgress, HeadMatchesLog, StoreCompleteTag
  <1>1. /\ tag' = [tag EXCEPT ![s] = CompleteTag(L)]
        /\ log' = Append(log, ev)
        /\ UNCHANGED <<words, head, sync, ev, widx, lastTs>>
    BY <1>0 DEF StoreCompleteTag
  <1>2. /\ Len(log') = L + 1 /\ log'[L + 1] = ev /\ tag'[s] = CompleteTag(L)
        /\ \A j \in 1..L : log'[j] = log[j]
    BY <1>0, <1>1 DEF TypeOK
  <1>3. /\ Published' = 0..L /\ Published = 0..L - 1
        /\ \A i \in Published' : i \in Published \/ i = L
    BY <1>0, <1>2 DEF Published
  <1>4. ASSUME NEW i \in Published
        PROVE  /\ i \in Nat /\ i < L /\ SlotOf(i) \in Slots
               /\ SlotOf(i) = s => i + EventCount <= L
               /\ SlotOf(i) # s => tag'[SlotOf(i)] = tag[SlotOf(i)]
    <2>1. i \in Nat /\ i < L /\ SlotOf(i) \in Slots
      BY <1>0, SlotInRange DEF Published
    <2>2. SlotOf(i) = s => i + EventCount <= L
      BY NextSlotIsOldest DEF TypeOK
    <2> QED BY <1>0, <1>1, <2>1, <2>2
  <1>5. TagsKnown'
    <2> SUFFICES ASSUME NEW t \in Slots
                 PROVE  \/ tag'[t] = EMPTY
                        \/ \E i \in Published' : SlotOf(i) = t /\ tag'[t] = CompleteTag(i)
      BY <1>0, <1>2, RingAssumption DEF TagsKnown
    <2>1. CASE t = s
      BY <1>0, <1>2, <1>3, <2>1
    <2>2. CASE t # s
      <3>1. tag'[t] = tag[t]
        BY <1>0, <1>1, <2>2
      <3>2. tag[t] = EMPTY \/ \E i \in Published : SlotOf(i) = t /\ tag[t] = CompleteTag(i)
        BY <2>2 DEF RingInv, TagsKnown
      <3> QED BY <1>0, <1>3, <3>1, <3>2
    <2> QED BY <2>1, <2>2
  <1>6. TagsPassed'
    <2> SUFFICES ASSUME NEW i \in Published'
                 PROVE  \/ tag'[SlotOf(i)] = CompleteTag(i)
                        \/ tag'[SlotOf(i)] # EMPTY /\ TagIndex(tag'[SlotOf(i)]) > i
      BY DEF TagsPassed
    <2>1. CASE i = L
      BY <1>2, <2>1
    <2>2. CASE i \in Published /\ SlotOf(i) = s
      <3>1. tag'[SlotOf(i)] = CompleteTag(L) /\ i \in Nat /\ L > i
        BY <1>2, <1>4, <2>2
      <3>2. CompleteTag(L) # EMPTY /\ TagIndex(CompleteTag(L)) = L
        BY <1>0, TagFacts
      <3> QED BY <3>1, <3>2
    <2>3. CASE i \in Published /\ SlotOf(i) # s
      BY <1>4, <2>3 DEF RingInv, TagsPassed
    <2> QED BY <1>3, <2>1, <2>2, <2>3
  <1>7. Retention'
    <2> SUFFICES ASSUME NEW i \in Published', i >= L + 1 - EventCount
                 PROVE  tag'[SlotOf(i)] = CompleteTag(i)
      BY <1>0, <1>2, RingAssumption DEF Retention
    <2>1. CASE i = L
      BY <1>2, <2>1
    <2>2. CASE i \in Published
      <3>1. SlotOf(i) # s /\ i > L - EventCount
        BY <1>0, <1>4, <2>2, RingAssumption
      <3>2. tag[SlotOf(i)] = CompleteTag(i)
        BY <1>0, <1>4, <2>2, <3>1, RingAssumption DEF RingInv, Retention
      <3> QED BY <1>4, <2>2, <3>1, <3>2
    <2> QED BY <1>3, <2>1, <2>2
  <1>8. CompleteMatches'
    <2> SUFFICES ASSUME NEW i \in Published', tag'[SlotOf(i)] = CompleteTag(i)
                 PROVE  SlotHolds(SlotOf(i), log'[i + 1])
      BY <1>1 DEF CompleteMatches, SlotHolds, words
    <2>1. CASE i = L
      <3>1. /\ slotTs[s] = ev.ts /\ slotSize[s] = ev.size
            /\ \A k \in 1..ev.size : slotBody[s][k] = ev.body[k]
        BY <1>0 DEF RingInv, WriterProgress, StoreCompleteTag
      <3> QED BY <1>2, <2>1, <3>1 DEF SlotHolds
    <2>2. CASE i \in Published
      <3>1. SlotOf(i) # s
        <4>1. i \in Nat /\ i # L
          BY <1>0, <1>4, <2>2
        <4>2. CompleteTag(i) # CompleteTag(L)
          BY <1>0, <4>1, TagFacts
        <4> QED BY <1>2, <4>2
      <3>2. SlotHolds(SlotOf(i), log[i + 1])
        BY <1>4, <2>2, <3>1 DEF RingInv, CompleteMatches
      <3> QED BY <1>0, <1>2, <1>4, <2>2, <3>2
    <2> QED BY <1>3, <2>1, <2>2
  <1>9. WriterProgress'
    <2>1. wpc' = "head" /\ widx' = L /\ head' = L - 1 /\ ev' = ev
      BY <1>0, <1>1 DEF StoreCompleteTag
    <2> QED BY <1>0, <1>2, <2>1 DEF WriterProgress
  <1>10. TimestampsOrdered'
    <2> SUFFICES ASSUME NEW i \in 1..L + 1, NEW j \in 1..L + 1, i <= j
                 PROVE  log'[i].ts <= log'[j].ts
      BY <1>2 DEF TimestampsOrdered
    <2>0. ev.ts \in Nat /\ \A m \in 1..L : log[m].ts \in Nat
      BY <1>0, EventFacts DEF TypeOK
    <2>1. CASE j <= L
      BY <1>0, <1>2, <2>1 DEF RingInv, TimestampsOrdered
    <2>2. CASE i = L + 1
      BY <1>0, <1>2, <2>0, <2>2
    <2>3. CASE i <= L /\ j = L + 1
      <3>1. log[L].ts <= lastTs /\ lastTs <= ev.ts /\ lastTs \in Nat
        BY <1>0, <2>3, RingAssumption
           DEF TypeOK, RingInv, LastTimestampKnown, WriterProgress, StoreCompleteTag
      <3>2. log[i].ts <= log[L].ts
        BY <1>0, <2>3 DEF RingInv, TimestampsOrdered
      <3> QED BY <1>0, <1>2, <2>0, <2>3, <3>1, <3>2
    <2> QED BY <1>0, <2>1, <2>2, <2>3
  <1>11. HeadMatchesLog' /\ LastTimestampKnown' /\ NotifiesCommitted'
    BY <1>0, <1>1, <1>2 DEF RingInv, HeadMatchesLog, LastTimestampKnown, NotifiesCommitted,
                              StoreCompleteTag
  <1> QED BY <1>5, <1>6, <1>7, <1>8, <1>9, <1>10, <1>11 DEF RingInv

(* What a new writer finds: the head's entry intact and, above it, either  *)
(* the entry its predecessor completed or nothing readable.                *)
LEMMA RecoveryFinds ==
  ASSUME TypeOK, RingInv
  PROVE  /\ RecoveryAccepts
         /\ RecoveredHead = Len(log) - 1
         /\ log # <<>> => RestoredTimestamp(Len(log) - 1) = log[Len(log)].ts
  <1> DEFINE L == Len(log)
  <1>0. /\ L \in Nat /\ L <= MaxIndex + 1 /\ head \in Int /\ head >= -1
        /\ head = L - 1 \/ head = L - 2
        /\ MaxIndex \in Nat /\ EventCount \in Nat /\ EventCount >= 2
        /\ tag \in [Slots -> Nat]
    BY RingAssumption DEF TypeOK, RingInv, HeadMatchesLog, TagsKnown, UNDEFINED
  <1>1. ASSUME NEW i \in Published, i = head \/ i = L - 1
        PROVE  /\ i \in Nat /\ i < L /\ i <= MaxIndex
               /\ tag[SlotOf(i)] = CompleteTag(i)
               /\ ReadOutcome(i) = "Ready"
               /\ slotTs[SlotOf(i)] = log[i + 1].ts
    <2>1. i \in Nat /\ i < L /\ i <= MaxIndex
      BY <1>0, <1>1 DEF Published
    <2>2. tag[SlotOf(i)] = CompleteTag(i)
      BY <1>0, <1>1, <2>1 DEF RingInv, Retention
    <2>3. slotTs[SlotOf(i)] = log[i + 1].ts
      BY <2>2 DEF RingInv, CompleteMatches, SlotHolds
    <2>4. ReadOutcome(i) = "Ready"
      BY <1>0, <2>1, <2>2 DEF ReadOutcome
    <2> QED BY <2>1, <2>2, <2>3, <2>4
  <1>2. CASE head = L - 1
    <2>1. ReadOutcome(L) = "Pending"
      <3>1. CASE L > MaxIndex
        BY <3>1 DEF ReadOutcome
      <3>2. CASE L <= MaxIndex
        <4> DEFINE s == SlotOf(L)
        <4>1. s \in Slots
          BY <1>0, SlotInRange
        <4>2. CASE tag[s] = EMPTY
          BY <1>0, <3>2, <4>2, TagFacts DEF ReadOutcome
        <4>3. CASE tag[s] = WritingTag(L)
          BY <1>0, <3>2, <4>3, TagFacts DEF ReadOutcome
        <4>4. ASSUME NEW i \in Published, tag[s] = CompleteTag(i)
              PROVE  ReadOutcome(L) = "Pending"
          <5>1. i \in Nat /\ i < L
            BY <1>0 DEF Published
          <5>2. TagIndex(tag[s]) = i /\ tag[s] # CompleteTag(L)
            BY <1>0, <4>4, <5>1, TagFacts
          <5> QED BY <1>0, <3>2, <5>1, <5>2 DEF ReadOutcome
        <4> QED BY <4>1, <4>2, <4>3, <4>4 DEF RingInv, TagsKnown
      <3> QED BY <1>0, <3>1, <3>2
    <2>2. RecoveredHead = L - 1
      BY <1>0, <1>2, <2>1 DEF RecoveredHead
    <2>3. CASE L = 0
      BY <1>0, <1>2, <2>1, <2>2, <2>3 DEF RecoveryAccepts, UNDEFINED, TypeOK
    <2>4. CASE L > 0
      <3>1. L - 1 \in Published
        BY <1>0, <2>4 DEF Published
      <3>2. ReadOutcome(L - 1) = "Ready" /\ slotTs[SlotOf(L - 1)] = log[L].ts
        BY <1>0, <1>1, <3>1
      <3>3. RestoredTimestamp(L - 1) = log[L].ts
        BY <1>0, <2>4, <3>2 DEF RestoredTimestamp, UNDEFINED
      <3>4. RecoveryAccepts
        BY <1>0, <1>2, <2>1, <3>2 DEF RecoveryAccepts
      <3> QED BY <2>2, <3>3, <3>4
    <2> QED BY <1>0, <2>3, <2>4
  <1>3. CASE head = L - 2
    <2>1. L > 0 /\ L - 1 \in Published
      BY <1>0, <1>3 DEF Published
    <2>2. ReadOutcome(L - 1) = "Ready" /\ slotTs[SlotOf(L - 1)] = log[L].ts
      BY <1>0, <1>1, <2>1
    <2>3. RecoveredHead = L - 1
      BY <1>0, <1>3, <2>2 DEF RecoveredHead
    <2>4. RestoredTimestamp(L - 1) = log[L].ts
      BY <1>0, <2>1, <2>2 DEF RestoredTimestamp, UNDEFINED
    <2>5. CASE head = -1
      <3>1. RestoredTimestamp(head) = 0
        BY <2>5 DEF RestoredTimestamp, UNDEFINED
      <3>2. log[L].ts \in Nat
        BY <1>0, <2>1, EventFacts DEF TypeOK
      <3>3. RecoveryAccepts
        BY <1>0, <1>3, <2>2, <2>5, <3>1, <3>2 DEF RecoveryAccepts, UNDEFINED
      <3> QED BY <2>3, <2>4, <3>3
    <2>6. CASE head # -1
      <3>1. head \in Published
        BY <1>0, <1>3, <2>6 DEF Published
      <3>2. ReadOutcome(head) = "Ready" /\ slotTs[SlotOf(head)] = log[head + 1].ts
        BY <1>1, <3>1
      <3>3. log[head + 1].ts <= log[L].ts
        BY <1>0, <1>3, <2>6 DEF RingInv, TimestampsOrdered
      <3>4. RestoredTimestamp(head) = log[head + 1].ts
        BY <2>6, <3>2 DEF RestoredTimestamp, UNDEFINED
      <3>5. log[head + 1].ts \in Nat /\ log[L].ts \in Nat
        <4>1. log[head + 1] \in EventRec /\ log[L] \in EventRec
          BY <1>0, <1>3, <2>6 DEF TypeOK
        <4> QED BY <4>1, EventFacts
      <3>6. RecoveryAccepts
        BY <1>0, <1>3, <2>2, <3>2, <3>3, <3>4, <3>5 DEF RecoveryAccepts
      <3> QED BY <2>3, <2>4, <3>6
    <2> QED BY <2>5, <2>6
  <1> QED BY <1>0, <1>2, <1>3

LEMMA RingStoreHead ==
  ASSUME TypeOK, RingInv, StoreHead
  PROVE  RingInv'
  <1>0. /\ Len(log) \in Nat /\ head' = Len(log) - 1 /\ head' >= 0
        /\ ev = log[Len(log)] /\ lastTs' = ev.ts /\ wpc' = "sync" /\ head = Len(log) - 2
        /\ UNCHANGED <<tag, words, log, sync>>
        /\ ev.ts \in Nat
    BY EventFacts DEF TypeOK, RingInv, WriterProgress, StoreHead
  <1>1. TagsKnown' /\ TagsPassed' /\ CompleteMatches' /\ TimestampsOrdered'
    BY <1>0 DEF RingInv, TagsKnown, TagsPassed, CompleteMatches, SlotHolds, TimestampsOrdered,
                Published, words
  <1>2. Retention'
    BY <1>0 DEF RingInv, Retention, Published
  <1>3. WriterProgress' /\ HeadMatchesLog' /\ LastTimestampKnown' /\ NotifiesCommitted'
    BY <1>0 DEF WriterProgress, HeadMatchesLog, LastTimestampKnown, NotifiesCommitted, UNDEFINED, TypeOK
  <1> QED BY <1>1, <1>2, <1>3 DEF RingInv

LEMMA RingRecover ==
  ASSUME TypeOK, RingInv, RecoverWriter
  PROVE  RingInv'
  <1>0. /\ Len(log) \in Nat /\ head' = Len(log) - 1
        /\ log # <<>> => lastTs' = log[Len(log)].ts /\ log[Len(log)].ts \in Nat
        /\ UNCHANGED <<tag, words, log, sync>>
        /\ wpc' = "sync" \/ wpc' = "idle"
        /\ head = Len(log) - 1 \/ head = Len(log) - 2
    <2>1. log # <<>> => log[Len(log)].ts \in Nat
      BY EventFacts DEF TypeOK
    <2> QED BY <2>1, RecoveryFinds DEF TypeOK, RecoverWriter, RingInv, HeadMatchesLog
  <1>1. TagsKnown' /\ TagsPassed' /\ CompleteMatches' /\ TimestampsOrdered'
    BY <1>0 DEF RingInv, TagsKnown, TagsPassed, CompleteMatches, SlotHolds, TimestampsOrdered,
                Published, words
  <1>2. Retention'
    BY <1>0 DEF RingInv, Retention, Published
  <1>3. WriterProgress' /\ HeadMatchesLog' /\ LastTimestampKnown'
    BY <1>0 DEF WriterProgress, HeadMatchesLog, LastTimestampKnown
  <1>4. NotifiesCommitted'
    <2>1. sync > 0 => head' # UNDEFINED
      BY <1>0 DEF RingInv, NotifiesCommitted, TypeOK, UNDEFINED
    <2>2. wpc' = "sync" => head' # UNDEFINED
      BY <1>0, RecoveryFinds DEF RecoverWriter, NotifiesAfterRecovery
    <2>3. wpc' # "wake" /\ (head' # UNDEFINED => log # <<>>)
      BY <1>0 DEF UNDEFINED, TypeOK
    <2> QED BY <1>0, <2>1, <2>2, <2>3 DEF NotifiesCommitted
  <1> QED BY <1>1, <1>2, <1>3, <1>4 DEF RingInv

LEMMA RingStep ==
  ASSUME TypeOK, RingInv, [Next]_vars
  PROVE  RingInv'
  <1>1. ASSUME UNCHANGED <<tag, words, head, sync, wpc, lastTs, ev, widx, wk, log>>
        PROVE  RingInv'
    <2>1. TagsKnown' /\ TagsPassed' /\ Retention' /\ CompleteMatches' /\ TimestampsOrdered'
      BY <1>1, RingFrame
    <2>2. WriterProgress' /\ HeadMatchesLog' /\ LastTimestampKnown' /\ NotifiesCommitted'
      BY <1>1 DEF RingInv, WriterProgress, HeadMatchesLog, LastTimestampKnown, NotifiesCommitted, words
    <2> QED BY <2>1, <2>2 DEF RingInv
  <1>2. CASE BumpSync \/ WakeAll \/ WriterGone
    <2>1. TagsKnown' /\ TagsPassed' /\ Retention' /\ CompleteMatches' /\ TimestampsOrdered'
      BY <1>2, RingFrame DEF BumpSync, WakeAll, WriterGone, shared, words
    <2>2. /\ wpc' \in {"wake", "idle", "down"} /\ UNCHANGED <<log, head, lastTs>>
          /\ wpc' # "down" => wpc \in {"sync", "wake"}
      BY <1>2 DEF BumpSync, WakeAll, WriterGone, shared
    <2>3. WriterProgress' /\ HeadMatchesLog' /\ LastTimestampKnown'
      BY <2>2 DEF RingInv, WriterProgress, HeadMatchesLog, LastTimestampKnown
    <2>4. NotifiesCommitted'
      <3>1. CASE BumpSync
        <4>1. head = Len(log) - 1 /\ head' = head /\ sync \in Nat
          BY <3>1 DEF BumpSync, RingInv, HeadMatchesLog, TypeOK
        <4>2. Len(log) > 0 /\ log' = log /\ log # <<>>
          BY <3>1, <4>1 DEF BumpSync, RingInv, NotifiesCommitted, TypeOK
        <4> QED BY <4>1, <4>2 DEF UNDEFINED, TypeOK, NotifiesCommitted
      <3>2. CASE WakeAll \/ WriterGone
        BY <3>2 DEF RingInv, NotifiesCommitted, WakeAll, WriterGone, shared
      <3> QED BY <1>2, <3>1, <3>2
    <2> QED BY <2>1, <2>3, <2>4 DEF RingInv
  <1>3. CASE RemoveFlow \/ OpenEvent \/ CancelEvent \/ UNCHANGED vars
    BY <1>1, <1>3 DEF RemoveFlow, OpenEvent, CancelEvent, vars, shared, writer
  <1>4. ASSUME NEW r \in Readers, ReaderNext(r) PROVE RingInv'
    BY <1>1, <1>4 DEF ReaderNext, ReaderStep, LoadSync, CheckOldest, LoadTag, LoadTimestamp,
        LoadSize, LoadWord, RecheckTag, SkipOverwritten, CheckValid, Wait, OpenReader, GetEvent,
        Deadline, Interrupted, shared, writer
  <1>5. CASE WriterNext
    BY <1>2, <1>3, <1>5, RingRecover, RingMarkWriting, RingStoreWords, RingStoreCompleteTag,
       RingStoreHead DEF WriterNext, CommitStep
  <1> QED BY <1>3, <1>4, <1>5 DEF Next

-----------------------------------------------------------------------------
(* The readers.                                                            *)

LEMMA ReaderUnderWriter ==
  ASSUME TypeOK, RingInv, NEW q \in Readers, ReaderInv(q), WriterNext
  PROVE  ReaderInv(q)'
  <1> DEFINE n == next[q]
             L == Len(log)
  <1>0. /\ UNCHANGED <<next, prev, rcvTs, rcvSize, snapshot, rk, status>>
        /\ n \in Nat /\ L \in Nat /\ tag \in [Slots -> Nat] /\ SlotOf(n) \in Slots
        /\ rpc'[q] = rpc[q] \/ (WakeAll /\ rpc[q] = "asleep" /\ rpc'[q] = "wait")
    <2>0. n \in Nat /\ L \in Nat /\ tag \in [Slots -> Nat] /\ SlotOf(n) \in Slots
      <3>1. n \in Nat /\ L \in Nat /\ tag \in [Slots -> Nat]
        BY DEF TypeOK
      <3> QED BY <3>1, SlotInRange
    <2>1. CASE RecoverWriter \/ OpenEvent \/ CancelEvent \/ WriterGone
      BY <2>0, <2>1 DEF RecoverWriter, OpenEvent, CancelEvent, WriterGone, readers, copy
    <2>2. ASSUME NEW e \in Events, StoreWritingTag(e)
          PROVE  UNCHANGED readers
      BY <2>2 DEF StoreWritingTag
    <2>3. CASE StoreTimestamp \/ StoreSize \/ StoreWord \/ StoreCompleteTag \/ StoreHead \/ BumpSync
      BY <2>0, <2>3 DEF StoreTimestamp, StoreSize, StoreWord, StoreCompleteTag, StoreHead, BumpSync,
         readers, copy
    <2>4. CASE WakeAll
      <3>1. rpc'[q] = IF rpc[q] = "asleep" THEN "wait" ELSE rpc[q]
        BY <2>4 DEF WakeAll
      <3> QED BY <2>0, <2>4, <3>1 DEF WakeAll, copy
    <2> QED BY <2>0, <2>1, <2>2, <2>3, <2>4 DEF WriterNext, CommitStep, readers, copy
  <1>1. /\ L <= Len(log') /\ Len(log') \in Nat
        /\ \A j \in 1..L : log'[j] = log[j]
        /\ Len(log') > L => StoreCompleteTag
    <2>1. CASE StoreCompleteTag
      BY <2>1 DEF StoreCompleteTag, TypeOK
    <2>2. CASE ~StoreCompleteTag
      <3>1. log' = log
        BY <2>2 DEF WriterNext, CommitStep, RecoverWriter, OpenEvent, CancelEvent, WriterGone,
           StoreWritingTag, StoreTimestamp, StoreSize, StoreWord, StoreHead, BumpSync, WakeAll
      <3> QED BY <1>0, <3>1
    <2> QED BY <2>1, <2>2
  <1>2. ASSUME n \in Published, tag'[SlotOf(n)] = CompleteTag(n)
        PROVE  tag[SlotOf(n)] = CompleteTag(n)
    <2>0. n < L
      BY <1>0, <1>2 DEF Published
    <2>1. ASSUME NEW e \in Events, StoreWritingTag(e)
          PROVE  tag[SlotOf(n)] = CompleteTag(n)
      <3>1. head + 1 = L
        BY <1>0, <2>1 DEF StoreWritingTag, RingInv, HeadMatchesLog, TypeOK
      <3>2. tag' = [tag EXCEPT ![SlotOf(L)] = WritingTag(L)]
        BY <2>1, <3>1 DEF StoreWritingTag, MarkWriting
      <3>3. CompleteTag(n) # WritingTag(L)
        BY <1>0, TagFacts
      <3> QED BY <1>0, <1>2, <3>2, <3>3
    <2>2. CASE StoreCompleteTag
      <3>1. widx = L
        BY <2>2 DEF StoreCompleteTag, RingInv, WriterProgress
      <3>2. tag' = [tag EXCEPT ![SlotOf(L)] = CompleteTag(L)]
        BY <2>2, <3>1 DEF StoreCompleteTag
      <3>3. CompleteTag(n) # CompleteTag(L)
        <4>1. n # L
          BY <1>0, <2>0
        <4> QED BY <1>0, <4>1, TagFacts
      <3> QED BY <1>0, <1>2, <3>2, <3>3
    <2>3. CASE ~StoreCompleteTag /\ ~(\E e \in Events : StoreWritingTag(e))
      <3>1. tag' = tag
        BY <2>3 DEF WriterNext, CommitStep, RecoverWriter, OpenEvent, CancelEvent, WriterGone,
           StoreTimestamp, StoreSize, StoreWord, StoreHead, BumpSync, WakeAll, shared
      <3> QED BY <1>2, <3>1
    <2> QED BY <2>1, <2>2, <2>3
  <1>3. CopyMatches(q)'
    <2>1. rpc'[q] \in {"ts", "size", "body"} => rpc[q] = rpc'[q] /\ n \in Published
      BY <1>0 DEF ReaderInv, CopyMatches
    <2>2. n \in Published => n \in Published' /\ log'[n + 1] = log[n + 1]
      BY <1>0, <1>1 DEF Published
    <2> QED BY <1>0, <1>2, <2>1, <2>2 DEF ReaderInv, CopyMatches
  <1>4. rpc'[q] = "skip" => next'[q] + EventCount <= Len(log')
    BY <1>0, <1>1, RingAssumption DEF ReaderInv
  <1>5. WakeupPending(q)'
    <2>0. prev[q] \in Nat /\ sync \in Nat /\ prev[q] <= sync
      BY DEF TypeOK, ReaderInv, WakeupPending
    <2>1. CASE StoreCompleteTag
      BY <1>0, <2>0, <2>1 DEF StoreCompleteTag, WakeAll, ReaderInv, WakeupPending
    <2>2. CASE ~StoreCompleteTag
      <3>1. Len(log') = L
        BY <1>0, <1>1, <2>2
      <3>2. CASE \E e \in Events : StoreWritingTag(e)
        BY <1>0, <2>0, <3>1, <3>2 DEF StoreWritingTag, WakeAll, ReaderInv, WakeupPending
      <3>3. CASE OpenEvent \/ CancelEvent \/ WriterGone
        BY <1>0, <2>0, <3>1, <3>3 DEF OpenEvent, CancelEvent, WriterGone, shared, WakeAll, ReaderInv,
           WakeupPending
      <3>4. CASE StoreTimestamp \/ StoreSize \/ StoreWord
        BY <1>0, <2>0, <3>1, <3>4 DEF StoreTimestamp, StoreSize, StoreWord, WakeAll, ReaderInv,
           WakeupPending
      <3>5. CASE StoreHead
        BY <1>0, <2>0, <3>1, <3>5 DEF StoreHead, WakeAll, ReaderInv, WakeupPending
      <3>6. CASE BumpSync
        BY <1>0, <2>0, <3>1, <3>6 DEF BumpSync, WakeAll, ReaderInv, WakeupPending
      <3>7. CASE WakeAll
        <4>1. rpc'[q] # "asleep" /\ wpc = "wake" /\ sync' = sync
          BY <3>7 DEF WakeAll, TypeOK, shared
        <4>2. rpc'[q] \in {"pending", "wait"} => rpc[q] \in {"pending", "wait", "asleep"}
          BY <1>0
        <4> QED BY <1>0, <2>0, <3>1, <4>1, <4>2 DEF ReaderInv, WakeupPending
      <3>8. CASE RecoverWriter
        <4>1. wpc = "down" /\ sync' = sync /\ rpc' = rpc
          BY <3>8 DEF RecoverWriter, readers
        <4>2. wpc' = "sync" \/ (wpc' = "idle" /\ L = 0 /\ sync = 0)
          <5>1. CASE L = 0
            BY <1>0, <2>0, <3>8, <5>1 DEF RecoverWriter, RingInv, NotifiesCommitted, HeadMatchesLog,
               UNDEFINED, TypeOK
          <5>2. CASE L > 0
            BY <1>0, <3>8, <5>2, RecoveryFinds
               DEF RecoverWriter, NotifiesAfterRecovery, UNDEFINED
          <5> QED BY <1>0, <5>1, <5>2
        <4> QED BY <1>0, <2>0, <3>1, <4>1, <4>2 DEF ReaderInv, WakeupPending
      <3> QED BY <2>2, <3>2, <3>3, <3>4, <3>5, <3>6, <3>7, <3>8 DEF WriterNext, CommitStep
    <2> QED BY <2>1, <2>2
  <1>6. ResultMatches(q)'
    <2>1. Received(q)' = Received(q)
      BY <1>0 DEF Received
    <2> QED BY <1>0, <1>1, <2>1 DEF ReaderInv, ResultMatches
  <1> QED BY <1>3, <1>4, <1>5, <1>6 DEF ReaderInv

(* The invariant of a reader survives the steps of other readers, and any  *)
(* step that only concerns the validity of the flow.                       *)
LEMMA ReaderFrame ==
  ASSUME NEW q \in Readers, ReaderInv(q), UNCHANGED <<tag, log, sync, wpc>>,
         rpc'[q] = rpc[q], next'[q] = next[q], prev'[q] = prev[q], rcvTs'[q] = rcvTs[q],
         rcvSize'[q] = rcvSize[q], snapshot'[q] = snapshot[q], rk'[q] = rk[q],
         status'[q] = status[q]
  PROVE  ReaderInv(q)'
  BY DEF ReaderInv, CopyMatches, WakeupPending, ResultMatches, Received, Published

(* What the outcome of a first load of the tag says about the log.         *)
LEMMA OutcomeMeans ==
  ASSUME TypeOK, RingInv, NEW n \in Nat
  PROVE  /\ ReadOutcome(n) = "Ready" => n \in Published /\ tag[SlotOf(n)] = CompleteTag(n)
         /\ ReadOutcome(n) = "Overwritten" => n + EventCount <= Len(log)
         /\ ReadOutcome(n) = "Pending" => n >= Len(log)
  <1> DEFINE s == SlotOf(n)
             L == Len(log)
  <1>0. /\ s \in Slots /\ L \in Nat /\ L <= MaxIndex + 1 /\ MaxIndex \in Nat
        /\ EventCount \in Nat
    <2>1. L \in Nat /\ L <= MaxIndex + 1
      BY DEF TypeOK, RingInv, TagsKnown
    <2> QED BY <2>1, SlotInRange, RingAssumption
  <1>1. CASE tag[s] = EMPTY
    <2>1. n \notin Published
      <3> SUFFICES ASSUME n \in Published PROVE FALSE
        OBVIOUS
      <3>1. tag[s] = CompleteTag(n) /\ n <= MaxIndex
        BY <1>0, <1>1 DEF RingInv, TagsPassed, Published
      <3> QED BY <1>1, <3>1, TagFacts
    <2>2. n >= L
      BY <1>0, <2>1 DEF Published
    <2>3. n <= MaxIndex => tag[s] # CompleteTag(n)
      BY <1>1, TagFacts
    <2>4. ReadOutcome(n) = "Pending"
      BY <1>0, <1>1, <2>3 DEF ReadOutcome
    <2> QED BY <2>2, <2>4
  <1>2. ASSUME NEW i \in Published, SlotOf(i) = s, tag[s] = CompleteTag(i)
        PROVE  /\ ReadOutcome(n) = "Ready" => n \in Published /\ tag[s] = CompleteTag(n)
               /\ ReadOutcome(n) = "Overwritten" => n + EventCount <= L
               /\ ReadOutcome(n) = "Pending" => n >= L
    <2>0. i \in Nat /\ i < L /\ i <= MaxIndex /\ TagIndex(tag[s]) = i /\ tag[s] # EMPTY
      <3>1. i \in Nat /\ i < L /\ i <= MaxIndex
        BY <1>0 DEF Published
      <3> QED BY <1>2, <3>1, TagFacts
    <2>1. CASE n = i
      <3>1. ReadOutcome(n) = "Ready"
        BY <1>0, <1>2, <2>0, <2>1 DEF ReadOutcome
      <3> QED BY <1>2, <2>1, <3>1
    <2>2. CASE n # i
      <3>1. tag[s] # CompleteTag(n)
        BY <1>2, <2>0, <2>2, TagFacts
      <3>2. ReadOutcome(n) # "Ready"
        BY <1>0, <2>0, <3>1 DEF ReadOutcome
      <3>3. ReadOutcome(n) = "Overwritten" => i > n
        BY <2>0, <3>1 DEF ReadOutcome
      <3>4. i > n => n + EventCount <= L
        BY <1>0, <1>2, <2>0, SlotsApart
      <3>5. ReadOutcome(n) = "Pending" => n >= L
        <4>1. n \in Published => i > n
          BY <2>0, <3>1 DEF RingInv, TagsPassed
        <4>2. i > n => ReadOutcome(n) = "Overwritten"
          BY <1>0, <2>0, <3>1 DEF ReadOutcome
        <4> QED BY <1>0, <4>1, <4>2 DEF Published
      <3> QED BY <3>2, <3>3, <3>4, <3>5
    <2> QED BY <2>1, <2>2
  <1>3. ASSUME SlotOf(L) = s, tag[s] = WritingTag(L), L <= MaxIndex
        PROVE  /\ ReadOutcome(n) = "Ready" => n \in Published /\ tag[s] = CompleteTag(n)
               /\ ReadOutcome(n) = "Overwritten" => n + EventCount <= L
               /\ ReadOutcome(n) = "Pending" => n >= L
    <2>0. TagIndex(tag[s]) = L /\ tag[s] # CompleteTag(n) /\ tag[s] # EMPTY
      BY <1>0, <1>3, TagFacts
    <2>1. ReadOutcome(n) # "Ready"
      BY <1>0, <2>0 DEF ReadOutcome
    <2>2. ReadOutcome(n) = "Overwritten" => L > n
      BY <1>0, <2>0 DEF ReadOutcome
    <2>3. L > n => n + EventCount <= L
      BY <1>0, <1>3, SlotsApart
    <2>4. L > n => ReadOutcome(n) = "Overwritten"
      BY <1>0, <1>3, <2>0 DEF ReadOutcome
    <2> QED BY <1>0, <2>1, <2>2, <2>3, <2>4
  <1> QED BY <1>0, <1>1, <1>2, <1>3 DEF RingInv, TagsKnown

LEMMA OldestIsLost == TypeOK /\ RingInv => OldestIndex = 0 \/ OldestIndex + EventCount <= Len(log)
  BY RingAssumption DEF TypeOK, RingInv, HeadMatchesLog, OldestIndex, UNDEFINED

(* A reader that returns without an event.                                 *)
LEMMA ReturnInv ==
  ASSUME TypeOK, RingInv, NEW r \in Readers, ReaderInv(r), NEW x \in Statuses, x # "OK",
         Return(r, x), UNCHANGED <<shared, writer, copy, log>>
  PROVE  ReaderInv(r)'
  <1>1. rpc'[r] = "idle" /\ status'[r] = x /\ prev'[r] = 0 /\ sync' = sync /\ sync \in Nat
    BY DEF TypeOK, Return, Goto, shared
  <1>2. CopyMatches(r)' /\ WakeupPending(r)' /\ ResultMatches(r)'
    BY <1>1 DEF CopyMatches, WakeupPending, ResultMatches
  <1> QED BY <1>1, <1>2 DEF ReaderInv

(* A reader that moves on inside getEvent, its result still outstanding.   *)
LEMMA ReaderOwnStep ==
  ASSUME TypeOK, RingInv, NEW r \in Readers, ReaderInv(r), ReaderNext(r)
  PROVE  ReaderInv(r)'
  <1> DEFINE n == next[r]
             s == SlotOf(n)
  <1>0. /\ n \in Nat /\ sync \in Nat /\ prev[r] \in Nat /\ prev[r] <= sync /\ Len(log) \in Nat
        /\ rk[r] \in Nat /\ s \in Slots
    <2>1. n \in Nat /\ sync \in Nat /\ prev[r] \in Nat /\ Len(log) \in Nat /\ rk[r] \in Nat
      BY DEF TypeOK
    <2> QED BY <2>1, SlotInRange DEF ReaderInv, WakeupPending
  <1>u. UNCHANGED <<tag, words, head, sync, valid, writer, log>> /\ wpc' = wpc
    BY DEF ReaderNext, ReaderStep, LoadSync, CheckOldest, LoadTag, LoadTimestamp, LoadSize, LoadWord,
       RecheckTag, SkipOverwritten, CheckValid, Wait, OpenReader, GetEvent, Deadline, Interrupted,
       shared, writer
  <1>s. "TOO_LATE" \in Statuses /\ "TOO_EARLY" \in Statuses /\ "FLOW_INVALID" \in Statuses
    BY DEF Statuses
  <1>n. rpc[r] # "idle" => status[r] # "OK"
    BY DEF ReaderInv, ResultMatches
  <1>1. CASE LoadSync(r)
    <2>1. rpc'[r] = "oldest" /\ status'[r] = status[r] /\ prev'[r] = sync /\ status[r] # "OK"
      BY <1>1, <1>n DEF LoadSync, Goto, TypeOK
    <2> QED BY <1>0, <1>u, <2>1 DEF ReaderInv, CopyMatches, WakeupPending, ResultMatches
  <1>2. CASE CheckOldest(r)
    <2>1. CASE Return(r, "TOO_LATE")
      BY <1>2, <1>s, <2>1, ReturnInv DEF CheckOldest
    <2>2. CASE Goto(r, "tag") /\ UNCHANGED <<next, prev, rk, status>>
      <3>1. rpc'[r] = "tag" /\ rpc[r] = "oldest"
        BY <1>2, <2>2 DEF CheckOldest, Goto, TypeOK
      <3> QED BY <1>0, <1>n, <1>u, <2>2, <3>1
              DEF ReaderInv, CopyMatches, WakeupPending, ResultMatches
    <2> QED BY <1>2, <2>1, <2>2 DEF CheckOldest
  <1>3. CASE LoadTag(r)
    <2>1. rpc[r] = "tag" /\ UNCHANGED <<next, prev, rk, status>>
      BY <1>3 DEF LoadTag
    <2>2. CASE ReadOutcome(n) = "Ready" /\ Goto(r, "ts")
      <3>1. rpc'[r] = "ts" /\ n \in Published
        BY <1>0, <2>2, OutcomeMeans DEF Goto, TypeOK
      <3> QED BY <1>0, <1>n, <1>u, <2>1, <3>1
              DEF ReaderInv, CopyMatches, WakeupPending, ResultMatches, Published
    <2>3. CASE ReadOutcome(n) = "Overwritten" /\ Goto(r, "skip")
      <3>1. rpc'[r] = "skip" /\ n + EventCount <= Len(log)
        BY <1>0, <2>3, OutcomeMeans DEF Goto, TypeOK
      <3> QED BY <1>0, <1>n, <1>u, <2>1, <3>1
              DEF ReaderInv, CopyMatches, WakeupPending, ResultMatches
    <2>4. CASE ReadOutcome(n) = "Pending" /\ Goto(r, "pending")
      <3>1. rpc'[r] = "pending" /\ n >= Len(log)
        BY <1>0, <2>4, OutcomeMeans DEF Goto, TypeOK
      <3> QED BY <1>0, <1>n, <1>u, <2>1, <3>1
              DEF ReaderInv, CopyMatches, WakeupPending, ResultMatches
    <2> QED BY <1>3, <2>2, <2>3, <2>4 DEF LoadTag
  <1>h. ASSUME rpc[r] \in {"ts", "size", "body"}
        PROVE  /\ n \in Published
               /\ tag[s] = CompleteTag(n) =>
                     /\ slotTs[s] = log[n + 1].ts /\ slotSize[s] = log[n + 1].size
                     /\ \A k \in 1..log[n + 1].size : slotBody[s][k] = log[n + 1].body[k]
    <2>1. n \in Published
      BY <1>h DEF ReaderInv, CopyMatches
    <2> QED BY <2>1 DEF RingInv, CompleteMatches, SlotHolds
  <1>4. CASE LoadTimestamp(r)
    <2>1. /\ rpc[r] = "ts" /\ rpc'[r] = "size" /\ rcvTs'[r] = slotTs[s]
          /\ UNCHANGED <<next, prev, rcvSize, snapshot, rk, status>>
      BY <1>4 DEF LoadTimestamp, Goto, TypeOK
    <2>2. CopyMatches(r)'
      BY <1>h, <1>u, <2>1 DEF CopyMatches, Published
    <2> QED BY <1>0, <1>n, <1>u, <2>1, <2>2 DEF ReaderInv, WakeupPending, ResultMatches
  <1>5. CASE LoadSize(r)
    <2>1. /\ rpc[r] = "size" /\ rpc'[r] = "body" /\ rcvSize'[r] = slotSize[s] /\ rk'[r] = 0
          /\ UNCHANGED <<next, prev, rcvTs, snapshot, status>>
      BY <1>5 DEF LoadSize, Goto, TypeOK
    <2>2. CopyMatches(r)'
      BY <1>h, <1>u, <2>1 DEF CopyMatches, Published, ReaderInv
    <2> QED BY <1>0, <1>n, <1>u, <2>1, <2>2 DEF ReaderInv, WakeupPending, ResultMatches
  <1>6. CASE LoadWord(r)
    <2>0. rk[r] + 1 \in 1..PayloadWords /\ rk[r] < rcvSize[r] /\ rcvSize[r] \in Nat
      BY <1>6, RingAssumption DEF LoadWord, TypeOK
    <2>1. /\ rpc[r] = "body" /\ rk'[r] = rk[r] + 1
          /\ snapshot'[r] = [snapshot[r] EXCEPT ![rk[r] + 1] = slotBody[s][rk[r] + 1]]
          /\ UNCHANGED <<rpc, next, prev, rcvTs, rcvSize, status>>
      BY <1>6 DEF LoadWord, TypeOK
    <2>2. snapshot[r] \in [1..PayloadWords -> Values]
      BY DEF TypeOK, Payloads
    <2>3. ASSUME tag[s] = CompleteTag(n)
          PROVE  \A k \in 1..rk[r] + 1 : snapshot'[r][k] = log[n + 1].body[k]
      <3>1. /\ rcvSize[r] = log[n + 1].size
            /\ \A k \in 1..rk[r] : snapshot[r][k] = log[n + 1].body[k]
        BY <2>1, <2>3 DEF ReaderInv, CopyMatches
      <3>2. slotBody[s][rk[r] + 1] = log[n + 1].body[rk[r] + 1]
        BY <1>0, <1>h, <2>0, <2>1, <2>3, <3>1
      <3>3. snapshot'[r][rk[r] + 1] = log[n + 1].body[rk[r] + 1]
        BY <2>0, <2>1, <2>2, <3>2
      <3>4. \A k \in 1..rk[r] : snapshot'[r][k] = snapshot[r][k]
        BY <1>0, <2>0, <2>1, <2>2
      <3>5. \A k \in 1..rk[r] + 1 : k \in 1..rk[r] \/ k = rk[r] + 1
        BY <1>0
      <3> QED BY <3>1, <3>3, <3>4, <3>5
    <2>4. CopyMatches(r)'
      BY <1>u, <2>1, <2>3 DEF CopyMatches, Published, ReaderInv
    <2> QED BY <1>0, <1>n, <1>u, <2>1, <2>4 DEF ReaderInv, WakeupPending, ResultMatches
  <1>7. CASE RecheckTag(r)
    <2>0. rpc[r] = "body" /\ n \in Published /\ UNCHANGED copy
      BY <1>7 DEF RecheckTag, ReaderInv, CopyMatches
    <2>1. CASE TagMoved(r)
      <3>1. rpc'[r] = "skip" /\ UNCHANGED <<next, prev, rk, status>>
        BY <1>7, <2>1 DEF RecheckTag, Goto, TypeOK
      <3>2. n + EventCount <= Len(log)
        <4>1. n < Len(log) /\ tag[s] # CompleteTag(n)
          BY <1>0, <2>0, <2>1 DEF Published, TagMoved
        <4>2. ReadOutcome(n) # "Pending" /\ ReadOutcome(n) # "Ready"
          BY <1>0, <4>1, OutcomeMeans
        <4>3. ReadOutcome(n) = "Overwritten"
          BY <4>2 DEF ReadOutcome
        <4> QED BY <1>0, <4>3, OutcomeMeans
      <3> QED BY <1>0, <1>n, <1>u, <2>0, <3>1, <3>2
              DEF ReaderInv, CopyMatches, WakeupPending, ResultMatches
    <2>2. CASE ~TagMoved(r) /\ rcvSize[r] > PayloadWords
      BY <1>7, <1>s, <2>2, ReturnInv DEF RecheckTag
    <2>3. CASE ~TagMoved(r) /\ ~(rcvSize[r] > PayloadWords)
      <3>1. /\ Return(r, "OK") /\ next'[r] = n + 1 /\ rk[r] = rcvSize[r]
        BY <1>7, <2>3 DEF RecheckTag, TypeOK
      <3>2. rpc'[r] = "idle" /\ prev'[r] = 0
        BY <3>1 DEF Return, Goto, TypeOK
      <3>3. /\ tag[s] = CompleteTag(n) /\ rcvTs[r] = log[n + 1].ts /\ rcvSize[r] = log[n + 1].size
            /\ \A k \in 1..rk[r] : snapshot[r][k] = log[n + 1].body[k]
        BY <2>0, <2>3 DEF TagMoved, ReaderInv, CopyMatches
      <3>4. n + 1 \in 1..Len(log)
        BY <1>0, <2>0 DEF Published
      <3>5. Received(r) = log[n + 1]
        <4>1. log[n + 1] \in EventRec
          BY <3>4 DEF TypeOK
        <4> DEFINE e == log[n + 1]
        <4>2. e.body \in [1..e.size -> Values] /\ e = [ts |-> e.ts, size |-> e.size, body |-> e.body]
          BY <4>1, EventFacts
        <4>3. [k \in 1..rcvSize[r] |-> snapshot[r][k]] = e.body
          BY <3>1, <3>3, <4>2
        <4> QED BY <3>3, <4>2, <4>3 DEF Received
      <3>6. Received(r)' = Received(r)
        BY <2>0 DEF Received, copy
      <3> QED BY <1>0, <1>u, <3>1, <3>2, <3>4, <3>5, <3>6
              DEF ReaderInv, CopyMatches, WakeupPending, ResultMatches
    <2> QED BY <2>1, <2>2, <2>3
  <1>8. CASE SkipOverwritten(r)
    BY <1>8, <1>s, ReturnInv DEF SkipOverwritten
  <1>9. CASE CheckValid(r)
    <2>1. CASE Return(r, "FLOW_INVALID")
      BY <1>9, <1>s, <2>1, ReturnInv DEF CheckValid
    <2>2. CASE Goto(r, "wait") /\ UNCHANGED <<prev, rk, status>>
      <3>1. rpc'[r] = "wait" /\ rpc[r] = "pending" /\ next' = next
        BY <1>9, <2>2 DEF CheckValid, Goto, TypeOK
      <3> QED BY <1>0, <1>n, <1>u, <2>2, <3>1
              DEF ReaderInv, CopyMatches, WakeupPending, ResultMatches
    <2> QED BY <1>9, <2>1, <2>2 DEF CheckValid
  <1>10. CASE Wait(r)
    <2>1. /\ rpc[r] = "wait" /\ UNCHANGED <<next, prev, rk, status>>
          /\ rpc'[r] = IF sync # prev[r] THEN "sync" ELSE "asleep"
      BY <1>10 DEF Wait, Goto, TypeOK
    <2> QED BY <1>0, <1>n, <1>u, <2>1
            DEF ReaderInv, CopyMatches, WakeupPending, ResultMatches
  <1>11. CASE OpenReader(r)
    <2>1. rpc'[r] = "idle" /\ rpc[r] = "closed" /\ UNCHANGED <<prev, rk, status>>
      BY <1>11 DEF OpenReader, Goto, TypeOK
    <2> QED BY <1>0, <1>n, <1>u, <2>1
            DEF ReaderInv, CopyMatches, WakeupPending, ResultMatches
  <1>12. CASE GetEvent(r)
    <2>1. rpc'[r] = "sync" /\ status'[r] = "none" /\ UNCHANGED <<next, prev>>
      BY <1>12 DEF GetEvent, Goto, TypeOK
    <2> QED BY <1>0, <1>u, <2>1 DEF ReaderInv, CopyMatches, WakeupPending, ResultMatches
  <1>13. CASE Deadline(r)
    BY <1>13, <1>s, ReturnInv DEF Deadline
  <1>14. CASE Interrupted(r)
    <2>1. rpc'[r] = "wait" /\ rpc[r] = "asleep" /\ UNCHANGED <<next, prev, rk, status>>
      BY <1>14 DEF Interrupted, Goto, TypeOK
    <2> QED BY <1>0, <1>n, <1>u, <2>1
            DEF ReaderInv, CopyMatches, WakeupPending, ResultMatches
  <1> QED BY <1>1, <1>2, <1>3, <1>4, <1>5, <1>6, <1>7, <1>8, <1>9, <1>10, <1>11, <1>12, <1>13, <1>14
          DEF ReaderNext, ReaderStep

-----------------------------------------------------------------------------
(* The inductive invariant and what follows from it.                       *)

LEMMA IndInit == Init => IndInv
  <1> SUFFICES ASSUME Init PROVE IndInv
    OBVIOUS
  <1>1. TypeOK
    BY TypeInit
  <1>2. Published = {} /\ Len(log) = 0
    BY DEF Init, Published
  <1>3. RingInv
    BY <1>2, RingAssumption DEF Init, RingInv, TagsKnown, TagsPassed, Retention, CompleteMatches,
       WriterProgress, HeadMatchesLog, TimestampsOrdered, LastTimestampKnown, NotifiesCommitted,
       UNDEFINED
  <1>4. ASSUME NEW r \in Readers PROVE ReaderInv(r)
    BY DEF Init, ReaderInv, CopyMatches, WakeupPending, ResultMatches
  <1> QED BY <1>1, <1>3, <1>4 DEF IndInv

LEMMA IndStep == IndInv /\ [Next]_vars => IndInv'
  <1> SUFFICES ASSUME IndInv, [Next]_vars PROVE IndInv'
    OBVIOUS
  <1>0. TypeOK /\ RingInv /\ \A q \in Readers : ReaderInv(q)
    BY DEF IndInv
  <1>1. TypeOK'
    BY <1>0, TypeStep
  <1>2. RingInv'
    BY <1>0, RingStep
  <1>3. ASSUME NEW q \in Readers PROVE ReaderInv(q)'
    <2>1. CASE WriterNext
      BY <1>0, <2>1, ReaderUnderWriter
    <2>2. CASE RemoveFlow \/ UNCHANGED vars
      BY <1>0, <2>2, ReaderFrame DEF RemoveFlow, vars, shared, writer, readers, copy
    <2>3. ASSUME NEW r \in Readers, ReaderNext(r), r = q
          PROVE  ReaderInv(q)'
      BY <1>0, <2>3, ReaderOwnStep
    <2>4. ASSUME NEW r \in Readers, ReaderNext(r), r # q
          PROVE  ReaderInv(q)'
      <3>1. /\ UNCHANGED <<tag, log, sync, wpc>>
            /\ rpc'[q] = rpc[q] /\ next'[q] = next[q] /\ prev'[q] = prev[q]
            /\ rcvTs'[q] = rcvTs[q] /\ rcvSize'[q] = rcvSize[q] /\ snapshot'[q] = snapshot[q]
            /\ rk'[q] = rk[q] /\ status'[q] = status[q]
        BY <1>0, <2>4 DEF ReaderNext, ReaderStep, LoadSync, CheckOldest, LoadTag, LoadTimestamp,
           LoadSize, LoadWord, RecheckTag, SkipOverwritten, CheckValid, Wait, OpenReader, GetEvent,
           Deadline, Interrupted, Goto, Return, shared, writer, copy, TypeOK
      <3> QED BY <1>0, <3>1, ReaderFrame
    <2> QED BY <2>1, <2>2, <2>3, <2>4 DEF Next
  <1> QED BY <1>1, <1>2, <1>3 DEF IndInv

(* Everything TLC checks of IndInv on a small ring holds for every one.    *)
THEOREM Inductive == Spec => []IndInv
  BY IndInit, IndStep, PTL DEF Spec

(* An event handed to an application is the one published at that index,   *)
(* word for word, for any ring size, payload size and number of readers.   *)
THEOREM SnapshotsAreExact == Spec => []SnapshotIntegrity
  <1>1. IndInv => SnapshotIntegrity
    BY DEF IndInv, ReaderInv, ResultMatches, SnapshotIntegrity
  <1> QED BY <1>1, Inductive, PTL

(* Whatever step a writer died at, its successor's constructor succeeds.   *)
THEOREM RecoveryNeverStuck == Spec => []RecoverySucceeds
  <1>1. IndInv => RecoverySucceeds
    BY RecoveryFinds DEF IndInv, RecoverySucceeds
  <1> QED BY <1>1, Inductive, PTL

(* publish() never refuses the next index below MAX_INDEX.                 *)
THEOREM PublishAlwaysPossible == Spec => []PublishNeverBlocked
  <1>1. ASSUME IndInv PROVE PublishNeverBlocked
    <2> SUFFICES ASSUME wpc = "idle", head + 1 <= MaxIndex PROVE PublishAccepts(head + 1)
      BY DEF PublishNeverBlocked
    <2> DEFINE L == Len(log)
               s == SlotOf(L)
    <2>0. TypeOK /\ TagsKnown /\ HeadMatchesLog
      BY <1>1 DEF IndInv, RingInv
    <2>1. L \in Nat /\ head + 1 = L /\ L <= MaxIndex
      <3>1. L \in Nat /\ head = L - 1
        BY <2>0 DEF TypeOK, HeadMatchesLog
      <3> QED BY <3>1
    <2>2. s \in Slots
      BY <2>1, SlotInRange
    <2>3. ASSUME NEW i \in Published, tag[s] = CompleteTag(i) PROVE TagIndex(tag[s]) < L
      <3>1. i \in Nat /\ i < L
        BY <2>1 DEF Published
      <3> QED BY <2>3, <3>1, TagFacts
    <2>4. tag[s] = EMPTY \/ tag[s] = WritingTag(L) \/ TagIndex(tag[s]) < L
      BY <2>0, <2>2, <2>3 DEF TagsKnown
    <2> QED BY <2>1, <2>4 DEF PublishAccepts
  <1> QED BY <1>1, Inductive, PTL

(* Both together: whatever writers died in, the flow can be written on.    *)
THEOREM FlowNeverStuck == Spec => []WriterNeverStuck
  <1>1. RecoverySucceeds /\ PublishNeverBlocked => WriterNeverStuck
    BY DEF WriterNeverStuck
  <1> QED BY <1>1, RecoveryNeverStuck, PublishAlwaysPossible, PTL

(* The head follows the published events across crashes, and timestamps    *)
(* never decrease.                                                         *)
THEOREM HeadAndOrder == Spec => []LogConsistent
  <1>1. IndInv => LogConsistent
    BY DEF IndInv, RingInv, LogConsistent
  <1> QED BY <1>1, Inductive, PTL

(* No reader sleeps through a publication.                                 *)
THEOREM WakeupsAreNotLost == Spec => []NoLostWakeup
  <1>1. IndInv => NoLostWakeup
    BY DEF IndInv, ReaderInv, WakeupPending, NoLostWakeup
  <1> QED BY <1>1, Inductive, PTL

(* A tag with its lowest bit set stands for an entry that was published.   *)
LEMMA CompleteIsPublished ==
  ASSUME TypeOK, TagsKnown, NEW s \in Slots, tag[s] # EMPTY, tag[s] % 2 = 1
  PROVE  /\ TagIndex(tag[s]) \in Nat /\ TagIndex(tag[s]) < Len(log)
         /\ tag[s] # WritingTag(Len(log))
  <1>1. Len(log) \in Nat
    BY DEF TypeOK
  <1>2. tag[s] # WritingTag(Len(log))
    <2>1. WritingTag(Len(log)) % 2 = 0
      BY <1>1 DEF WritingTag
    <2> QED BY <2>1
  <1>3. PICK i \in Published : tag[s] = CompleteTag(i)
    BY <1>2 DEF TagsKnown
  <1>4. i \in Nat /\ i < Len(log)
    BY <1>1, <1>3 DEF Published
  <1>5. TagIndex(tag[s]) = i
    BY <1>3, <1>4, TagFacts
  <1> QED BY <1>2, <1>4, <1>5

(* No store of any writer changes a completed entry, except that the slot  *)
(* is taken for a later index: readers may rely on a tag they find twice.  *)
THEOREM CompletedStaysFinal == Spec => CompletedIsFinal
  <1> DEFINE Final(s) ==
        IF tag'[s] = tag[s]
        THEN slotTs'[s] = slotTs[s] /\ slotSize'[s] = slotSize[s] /\ slotBody'[s] = slotBody[s]
        ELSE TagIndex(tag'[s]) > TagIndex(tag[s])
  <1>1. ASSUME IndInv, [Next]_vars, NEW s \in Slots, tag[s] # EMPTY, tag[s] % 2 = 1
        PROVE  Final(s)
    <2> DEFINE L == Len(log)
    <2>0. TypeOK /\ TagsKnown /\ WriterProgress /\ HeadMatchesLog /\ L \in Nat
      BY <1>1 DEF IndInv, RingInv, TypeOK
    <2>1. TagIndex(tag[s]) \in Nat /\ TagIndex(tag[s]) < L
      BY <1>1, <2>0, CompleteIsPublished
    <2>2. CASE UNCHANGED <<tag, words>>
      BY <2>2 DEF words
    <2>3. ASSUME NEW e \in Events, StoreWritingTag(e)
          PROVE  Final(s)
      <3>1. head + 1 = L /\ UNCHANGED words
        BY <2>0, <2>3 DEF StoreWritingTag, HeadMatchesLog
      <3>2. tag' = [tag EXCEPT ![SlotOf(L)] = WritingTag(L)]
        BY <2>3, <3>1 DEF StoreWritingTag, MarkWriting
      <3>3. CASE s = SlotOf(L)
        <4>1. tag'[s] = WritingTag(L)
          BY <2>0, <3>2, <3>3 DEF TypeOK
        <4>2. TagIndex(tag'[s]) = L
          BY <2>0, <4>1, TagFacts
        <4> QED BY <2>0, <2>1, <3>1, <4>2 DEF words
      <3>4. CASE s # SlotOf(L)
        BY <2>0, <3>1, <3>2, <3>4 DEF words, TypeOK
      <3> QED BY <3>3, <3>4
    <2>4. ASSUME StoreTimestamp \/ StoreSize \/ StoreWord \/ StoreCompleteTag
          PROVE  Final(s)
      <3>1. widx = L /\ tag[SlotOf(widx)] = WritingTag(L)
        BY <2>0, <2>4 DEF WriterProgress, StoreTimestamp, StoreSize, StoreWord, StoreCompleteTag
      <3>2. tag[s] # WritingTag(L)
        BY <1>1, <2>0, CompleteIsPublished
      <3>3. s # SlotOf(widx)
        BY <3>1, <3>2
      <3> QED BY <2>0, <2>4, <3>3 DEF StoreTimestamp, StoreSize, StoreWord, StoreCompleteTag, words, TypeOK
    <2>5. ASSUME Next, ~UNCHANGED <<tag, words>>
          PROVE  \/ \E e \in Events : StoreWritingTag(e)
                 \/ StoreTimestamp \/ StoreSize \/ StoreWord \/ StoreCompleteTag
      BY <2>5 DEF Next, WriterNext, CommitStep, RecoverWriter, OpenEvent, CancelEvent, StoreHead, BumpSync,
         WakeAll, WriterGone, RemoveFlow, ReaderNext, ReaderStep, OpenReader, GetEvent, LoadSync,
         CheckOldest, LoadTag, LoadTimestamp, LoadSize, LoadWord, RecheckTag, SkipOverwritten,
         CheckValid, Wait, Deadline, Interrupted, shared
    <2>6. CASE UNCHANGED vars
      BY <2>2, <2>6 DEF vars, shared
    <2> QED BY <1>1, <2>2, <2>3, <2>4, <2>5, <2>6
  <1>2. ASSUME IndInv, [Next]_vars
        PROVE  [\A s \in Slots :
                   tag[s] # EMPTY /\ tag[s] % 2 = 1 =>
                      IF tag'[s] = tag[s]
                      THEN /\ slotTs'[s] = slotTs[s] /\ slotSize'[s] = slotSize[s]
                           /\ slotBody'[s] = slotBody[s]
                      ELSE TagIndex(tag'[s]) > TagIndex(tag[s])]_vars
    BY <1>1, <1>2
  <1> QED BY <1>2, Inductive, PTL DEF Spec, CompletedIsFinal

-----------------------------------------------------------------------------
(* The ring implements the log.                                            *)

LEMMA LogWriterStep ==
  ASSUME IndInv, WriterNext
  PROVE  [Log!Next]_(Log!vars)
  <1>0. TypeOK /\ RingInv
    BY DEF IndInv
  <1>1. LogCursor' = LogCursor /\ LogOut' = LogOut
    <2>1. /\ UNCHANGED <<next, rcvTs, rcvSize, snapshot, status>>
          /\ \A q \in Readers : rpc'[q] = "closed" <=> rpc[q] = "closed"
      <3>1. CASE WakeAll
        BY <3>1 DEF WakeAll, copy
      <3>2. CASE ~WakeAll
        BY <3>2 DEF WriterNext, CommitStep, RecoverWriter, OpenEvent, CancelEvent, WriterGone,
           StoreWritingTag, StoreTimestamp, StoreSize, StoreWord, StoreCompleteTag, StoreHead,
           BumpSync, readers, copy
      <3> QED BY <3>1, <3>2
    <2> QED BY <2>1 DEF LogCursor, LogOut, Received
  <1>2. CASE StoreCompleteTag
    <2>1. ev \in Events /\ ev.ts >= lastTs /\ log' = Append(log, ev)
      BY <1>0, <1>2 DEF RingInv, WriterProgress, StoreCompleteTag
    <2>2. log # <<>> => log[Len(log)].ts <= ev.ts
      <3> SUFFICES ASSUME log # <<>> PROVE log[Len(log)].ts <= ev.ts
        OBVIOUS
      <3>1. log[Len(log)].ts <= lastTs
        BY <1>0, <1>2 DEF RingInv, LastTimestampKnown, StoreCompleteTag
      <3>2. log[Len(log)] \in EventRec /\ ev \in EventRec /\ lastTs \in Nat
        BY <1>0, RingAssumption DEF TypeOK
      <3>3. log[Len(log)].ts \in Nat /\ ev.ts \in Nat
        BY <3>2, EventFacts
      <3> QED BY <2>1, <3>1, <3>2, <3>3
    <2>3. Log!Publish(ev)
      BY <1>1, <2>1, <2>2 DEF Log!Publish
    <2> QED BY <2>1, <2>3 DEF Log!Next
  <1>3. CASE ~StoreCompleteTag
    <2>1. log' = log
      BY <1>3 DEF WriterNext, CommitStep, RecoverWriter, OpenEvent, CancelEvent, WriterGone,
         StoreWritingTag, StoreTimestamp, StoreSize, StoreWord, StoreHead, BumpSync, WakeAll
    <2> QED BY <1>1, <2>1 DEF Log!vars
  <1> QED BY <1>2, <1>3

LEMMA LogReaderStep ==
  ASSUME IndInv, NEW r \in Readers, ReaderNext(r)
  PROVE  [Log!Next]_(Log!vars)
  <1> DEFINE n == next[r]
  <1>t. TypeOK /\ RingInv /\ ReaderInv(r)
    BY DEF IndInv
  <1>0. /\ TypeOK /\ RingInv /\ ReaderInv(r) /\ TypeOK'
        /\ n \in Nat /\ Len(log) \in Nat /\ EventCount \in Nat /\ OldestIndex \in Nat
    <2>1. TypeOK'
      BY <1>t, TypeReader
    <2>2. n \in Nat /\ Len(log) \in Nat
      BY <1>t DEF TypeOK
    <2>3. OldestIndex \in Nat
      BY <1>t, OldestInNat DEF TypeOK
    <2> QED BY <1>t, <2>1, <2>2, <2>3, RingAssumption
  <1>1. log' = log
    BY DEF ReaderNext, ReaderStep, LoadSync, CheckOldest, LoadTag, LoadTimestamp, LoadSize, LoadWord,
       RecheckTag, SkipOverwritten, CheckValid, Wait, OpenReader, GetEvent, Deadline, Interrupted
  <1>2. ASSUME NEW q \in Readers, q # r
        PROVE  /\ rpc'[q] = rpc[q] /\ next'[q] = next[q] /\ status'[q] = status[q]
               /\ rcvTs'[q] = rcvTs[q] /\ rcvSize'[q] = rcvSize[q] /\ snapshot'[q] = snapshot[q]
    <2>1. CASE OpenReader(r) \/ GetEvent(r) \/ LoadSync(r) \/ CheckOldest(r)
      BY <1>0, <1>2, <2>1 DEF OpenReader, GetEvent, LoadSync, CheckOldest, Goto, Return, copy, TypeOK
    <2>2. CASE LoadTag(r) \/ LoadTimestamp(r) \/ LoadSize(r)
      BY <1>0, <1>2, <2>2 DEF LoadTag, LoadTimestamp, LoadSize, Goto, copy, TypeOK
    <2>3. CASE LoadWord(r)
      BY <1>0, <1>2, <2>3 DEF LoadWord, TypeOK
    <2>4. CASE RecheckTag(r)
      <3>1. /\ rpc' = [rpc EXCEPT ![r] = rpc'[r]] /\ next' = [next EXCEPT ![r] = next'[r]]
            /\ status' = [status EXCEPT ![r] = status'[r]] /\ UNCHANGED copy
        <4>1. CASE Goto(r, "skip") /\ UNCHANGED <<next, prev, rk, status>>
          BY <1>0, <2>4, <4>1 DEF RecheckTag, Goto, TypeOK
        <4>2. CASE Return(r, "FLOW_INVALID") /\ UNCHANGED next
          BY <1>0, <2>4, <4>2 DEF RecheckTag, Goto, Return, TypeOK
        <4>3. CASE Return(r, "OK") /\ next' = [next EXCEPT ![r] = @ + 1]
          BY <1>0, <2>4, <4>3 DEF RecheckTag, Goto, Return, TypeOK
        <4> QED BY <2>4, <4>1, <4>2, <4>3 DEF RecheckTag
      <3> QED BY <1>0, <1>2, <3>1 DEF copy, TypeOK
    <2>6. CASE SkipOverwritten(r)
      BY <1>0, <1>2, <2>6 DEF SkipOverwritten, Goto, Return, copy, TypeOK
    <2>5. CASE CheckValid(r) \/ Wait(r) \/ Deadline(r) \/ Interrupted(r)
      BY <1>0, <1>2, <2>5 DEF CheckValid, Wait, Deadline, Interrupted, Goto, Return, copy, TypeOK
    <2> QED BY <2>1, <2>2, <2>3, <2>4, <2>5, <2>6 DEF ReaderNext, ReaderStep
  <1>3. ASSUME NEW c, NEW o,
               c = IF rpc'[r] = "closed" THEN -1 ELSE next'[r],
               o = IF status'[r] = "OK" THEN <<Received(r)'>> ELSE <<>>
        PROVE  LogCursor' = [LogCursor EXCEPT ![r] = c] /\ LogOut' = [LogOut EXCEPT ![r] = o]
    BY <1>2, <1>3 DEF LogCursor, LogOut, Received
  <1>4. /\ LogCursor[r] = IF rpc[r] = "closed" THEN -1 ELSE n
        /\ LogOut[r] = IF status[r] = "OK" THEN <<Received(r)>> ELSE <<>>
        /\ LogCursor = [LogCursor EXCEPT ![r] = LogCursor[r]]
        /\ LogOut = [LogOut EXCEPT ![r] = LogOut[r]]
    BY DEF LogCursor, LogOut
  <1>5. rpc[r] # "idle" => status[r] # "OK"
    BY <1>0 DEF ReaderInv, ResultMatches
  (* A call that ends or goes on without an event and without moving.      *)
  <1>6. ASSUME rpc[r] \notin {"closed", "idle"}, rpc'[r] # "closed", next'[r] = n, status'[r] # "OK"
        PROVE  UNCHANGED Log!vars
    BY <1>1, <1>3, <1>4, <1>5, <1>6 DEF Log!vars
  (* The cursor jumps.                                                     *)
  <1>7. ASSUME rpc[r] \notin {"closed", "idle"}, rpc'[r] # "closed", status'[r] # "OK",
               next'[r] \in Nat, next'[r] > n, next'[r] <= Len(log) + 1 - EventCount
        PROVE  Log!Next
    <2>1. LogCursor' = [LogCursor EXCEPT ![r] = next'[r]] /\ LogOut' = [LogOut EXCEPT ![r] = <<>>]
      BY <1>3, <1>7
    <2>2. LogCursor[r] = n
      BY <1>4, <1>7
    <2>3. LogCursor[r] # -1 /\ next'[r] \in LogCursor[r] + 1 .. Len(log) + 1 - EventCount
      BY <1>0, <1>7, <2>2
    <2>4. \E c \in LogCursor[r] + 1 .. Len(log) + 1 - EventCount :
             LogCursor' = [LogCursor EXCEPT ![r] = c]
      BY <2>1, <2>3
    <2>5. Log!FallBehind(r)
      BY <1>1, <2>1, <2>3, <2>4 DEF Log!FallBehind, Log!Detached
    <2> QED BY <2>5 DEF Log!Next
  <1>8. OldestIndex = 0 \/ OldestIndex + EventCount <= Len(log)
    BY <1>0, OldestIsLost
  <1>9. CASE OpenReader(r)
    <2>1. /\ rpc[r] = "closed" /\ rpc'[r] = "idle" /\ next'[r] = OldestIndex /\ status'[r] = status[r]
          /\ status[r] # "OK"
      BY <1>0, <1>5, <1>9 DEF OpenReader, Goto, TypeOK
    <2>2. /\ LogCursor' = [LogCursor EXCEPT ![r] = OldestIndex]
          /\ LogOut' = [LogOut EXCEPT ![r] = <<>>]
      BY <1>3, <2>1
    <2>3. LogOut' = LogOut /\ LogCursor[r] = -1
      BY <1>4, <2>1, <2>2
    <2>4. /\ OldestIndex \in 0 .. Len(log)
          /\ OldestIndex = 0 \/ OldestIndex <= Len(log) + 1 - EventCount
      BY <1>0, <1>8, RingAssumption
    <2>5. \E c \in 0 .. Len(log) :
             /\ c = 0 \/ c <= Len(log) + 1 - EventCount
             /\ LogCursor' = [LogCursor EXCEPT ![r] = c]
      BY <2>2, <2>4
    <2>6. Log!Attach(r)
      BY <1>1, <2>3, <2>5 DEF Log!Attach, Log!Detached
    <2> QED BY <2>6 DEF Log!Next
  <1>10. CASE GetEvent(r)
    <2>1. rpc[r] = "idle" /\ rpc'[r] = "sync" /\ next'[r] = n /\ status'[r] = "none"
      BY <1>0, <1>10 DEF GetEvent, Goto, TypeOK
    <2>2. LogCursor' = [LogCursor EXCEPT ![r] = n] /\ LogOut' = [LogOut EXCEPT ![r] = <<>>]
      BY <1>3, <2>1
    <2>3. LogCursor' = LogCursor
      BY <1>4, <2>1, <2>2
    <2>4. Log!Forget(r)
      BY <1>1, <2>2, <2>3 DEF Log!Forget
    <2> QED BY <2>4 DEF Log!Next
  <1>11. CASE LoadSync(r) \/ LoadTag(r) \/ LoadTimestamp(r) \/ LoadSize(r) \/ LoadWord(r)
              \/ CheckValid(r) \/ Wait(r) \/ Deadline(r) \/ Interrupted(r)
    <2>1. /\ rpc[r] \notin {"closed", "idle"} /\ rpc'[r] # "closed" /\ next'[r] = n
          /\ status'[r] # "OK"
      BY <1>0, <1>5, <1>11 DEF LoadSync, LoadTag, LoadTimestamp, LoadSize, LoadWord, CheckValid, Wait,
         Deadline, Interrupted, Goto, Return, TypeOK
    <2> QED BY <1>6, <2>1
  <1>12. CASE CheckOldest(r)
    <2>1. CASE Goto(r, "tag") /\ UNCHANGED <<next, prev, rk, status>>
      <3>1. rpc[r] = "oldest" /\ rpc'[r] = "tag" /\ next'[r] = n /\ status'[r] # "OK"
        BY <1>0, <1>5, <1>12, <2>1 DEF CheckOldest, Goto, TypeOK
      <3> QED BY <1>6, <3>1
    <2>2. CASE n < OldestIndex /\ next' = [next EXCEPT ![r] = OldestIndex] /\ Return(r, "TOO_LATE")
      <3>1. rpc[r] = "oldest" /\ rpc'[r] = "idle" /\ next'[r] = OldestIndex /\ status'[r] # "OK"
        BY <1>0, <1>12, <2>2 DEF CheckOldest, Goto, Return, TypeOK
      <3>2. OldestIndex > n /\ OldestIndex <= Len(log) + 1 - EventCount
        BY <1>0, <1>8, <2>2
      <3> QED BY <1>0, <1>7, <3>1, <3>2
    <2> QED BY <1>12, <2>1, <2>2 DEF CheckOldest
  <1>13. CASE SkipOverwritten(r)
    <2>1. /\ rpc[r] = "skip" /\ rpc'[r] = "idle" /\ next'[r] = NextAfterOverwrite(r)
          /\ status'[r] # "OK"
      BY <1>0, <1>13 DEF SkipOverwritten, Goto, Return, TypeOK
    <2>2. n + EventCount <= Len(log)
      BY <1>0, <2>1 DEF ReaderInv
    <2>3. /\ NextAfterOverwrite(r) \in Nat /\ NextAfterOverwrite(r) > n
          /\ NextAfterOverwrite(r) <= Len(log) + 1 - EventCount
      BY <1>0, <1>8, <2>2 DEF NextAfterOverwrite, MaxOf
    <2> QED BY <1>7, <2>1, <2>3
  <1>14. CASE RecheckTag(r)
    <2>0. rpc[r] = "body" /\ n \in Published
      BY <1>0, <1>14 DEF RecheckTag, ReaderInv, CopyMatches
    <2>1. CASE TagMoved(r)
      <3>1. rpc'[r] = "skip" /\ next'[r] = n /\ status'[r] # "OK"
        BY <1>0, <1>5, <1>14, <2>0, <2>1 DEF RecheckTag, Goto, TypeOK
      <3> QED BY <1>6, <2>0, <3>1
    <2>2. CASE ~TagMoved(r) /\ rcvSize[r] > PayloadWords
      <3>1. rpc'[r] = "idle" /\ next'[r] = n /\ status'[r] # "OK"
        BY <1>0, <1>14, <2>2 DEF RecheckTag, Goto, Return, TypeOK
      <3> QED BY <1>6, <2>0, <3>1
    <2>3. CASE ~TagMoved(r) /\ ~(rcvSize[r] > PayloadWords)
      <3>1. Return(r, "OK") /\ next'[r] = n + 1
        BY <1>0, <1>14, <2>3 DEF RecheckTag, TypeOK
      <3>2. rpc'[r] = "idle" /\ status'[r] = "OK"
        BY <1>0, <3>1 DEF Return, Goto, TypeOK
      <3>3. Received(r)' = log[n + 1]
        <4>1. ReaderInv(r)'
          BY <1>0, ReaderOwnStep
        <4> QED BY <1>1, <3>1, <3>2, <4>1 DEF ReaderInv, ResultMatches
      <3>4. /\ LogCursor' = [LogCursor EXCEPT ![r] = n + 1]
            /\ LogOut' = [LogOut EXCEPT ![r] = <<log[n + 1]>>]
        BY <1>3, <3>1, <3>2, <3>3
      <3>5. LogCursor[r] = n
        BY <1>4, <2>0
      <3>6. n \in 0..Len(log) - 1
        BY <2>0 DEF Published
      <3>7. Log!Deliver(r)
        BY <1>1, <3>4, <3>5, <3>6 DEF Log!Deliver
      <3> QED BY <3>7 DEF Log!Next
    <2> QED BY <2>1, <2>2, <2>3
  <1> QED BY <1>9, <1>10, <1>11, <1>12, <1>13, <1>14 DEF ReaderNext, ReaderStep

(* The event flow implements its abstract log: readers receive the events  *)
(* in order, each exactly as committed, and skip only entries the ring     *)
(* can no longer hold, whatever the sizes, crashes and interleavings.      *)
THEOREM RingImplementsLog == Spec => ImplementsLog
  <1>1. Init => Log!Init
    BY DEF Init, Log!Init, LogCursor, LogOut, Log!Detached
  <1>2. IndInv /\ [Next]_vars => [Log!Next]_(Log!vars)
    <2> SUFFICES ASSUME IndInv, [Next]_vars PROVE [Log!Next]_(Log!vars)
      OBVIOUS
    <2>1. CASE RemoveFlow \/ UNCHANGED vars
      BY <2>1 DEF RemoveFlow, vars, shared, writer, readers, copy, Log!vars, LogCursor, LogOut,
         Received
    <2> QED BY <2>1, LogWriterStep, LogReaderStep DEF Next
  <1> QED BY <1>1, <1>2, Inductive, PTL DEF Spec, ImplementsLog, Log!Spec
=============================================================================
