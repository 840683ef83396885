----------------------- MODULE ContinuousFlow_proofs -----------------------
(***************************************************************************)
(* The fragments of a range, type correctness, and what readers find in    *)
(* the ring, for rings, ranges and gaps of any length.                     *)
(***************************************************************************)
EXTENDS ContinuousFlow, TLAPS

WordSize == 2^SizeBits

LEMMA Sizes ==
  /\ BufferLength \in Nat /\ BufferLength >= 2
  /\ Half \in Nat /\ Half < BufferLength /\ 2 * Half <= BufferLength
  /\ WordSize \in Nat /\ WordSize > 2 * BufferLength
  /\ MaxIndex \in Nat /\ MaxSkip \in Nat /\ MaxRestarts \in Nat
  BY ContinuousAssumption DEF Half, WordSize

LEMMA CountsAreNat ==
  /\ \A n \in ReadCounts \cup {0} : n \in Nat
  /\ \A i \in 0..MaxIndex : i \in Nat
<1>1. ReadCounts \subseteq Nat
  BY ContinuousAssumption
<1>2. \A n \in ReadCounts \cup {0} : n \in Nat
  BY <1>1
<1> QED
  BY <1>2

-----------------------------------------------------------------------------
(* Offsets in the ring.                                                    *)

LEMMA OffsetTyped == \A n \in Int : OffsetOf(n) \in Offsets
  BY Sizes DEF OffsetOf, Offsets

(* An offset is the one number of the ring that is congruent to n.         *)
LEMMA OffsetQuotient ==
  ASSUME NEW n \in Int
  PROVE  \E q \in Int : n = BufferLength * q + OffsetOf(n)
<1>1. n \div BufferLength \in Int /\ n = BufferLength * (n \div BufferLength) + OffsetOf(n)
  BY Sizes DEF OffsetOf
<1> QED
  BY <1>1

LEMMA OffsetIs ==
  ASSUME NEW q \in Int, NEW o \in Offsets
  PROVE  OffsetOf(BufferLength * q + o) = o
<1> DEFINE n == BufferLength * q + o
<1>1. n \in Int /\ BufferLength \in Nat \ {0} /\ o \in Int /\ 0 <= o /\ o < BufferLength
  BY Sizes DEF Offsets
<1>2. n \div BufferLength = q
  <2> HIDE DEF n
  <2>1. BufferLength * q <= n /\ n < BufferLength * q + BufferLength
    BY <1>1 DEF n
  <2> QED
    BY <1>1, <2>1
<1>3. n = BufferLength * (n \div BufferLength) + (n % BufferLength)
  BY <1>1
<1>4. n = BufferLength * q + (n % BufferLength) /\ n % BufferLength \in Int
  BY <1>1, <1>2, <1>3
<1> DEFINE p == BufferLength * q
<1>5. p \in Int /\ n = p + o /\ n = p + (n % BufferLength)
  BY <1>1, <1>4
<1> HIDE DEF n, p
<1> QED
  <2>1. n % BufferLength = o
    BY <1>1, <1>4, <1>5
  <2> QED
    BY <2>1 DEF OffsetOf, n

(* Where the k-th sample before i lies.                                    *)
LEMMA Backwards ==
  ASSUME NEW i \in Nat, NEW k \in 0..BufferLength
  PROVE  OffsetOf(i - k) = IF k <= OffsetOf(i) THEN OffsetOf(i) - k ELSE OffsetOf(i) + BufferLength - k
<1> DEFINE o == OffsetOf(i)
<1>1. PICK q \in Int : i = BufferLength * q + o
  BY OffsetQuotient
<1>2. o \in Offsets /\ BufferLength \in Nat
  BY OffsetTyped, Sizes
<1> HIDE DEF o
<1>3. CASE k <= o
  <2>1. o - k \in Offsets
    BY <1>2, <1>3 DEF Offsets
  <2>2. i - k = BufferLength * q + (o - k)
    BY <1>1, <1>2, Sizes DEF Offsets
  <2>3. OffsetOf(i - k) = o - k
    BY <2>1, <2>2, OffsetIs
  <2> QED
    BY <1>3, <2>3 DEF o
<1>4. CASE ~(k <= o)
  <2>1. o + BufferLength - k \in Offsets
    BY <1>2, <1>4 DEF Offsets
  <2>2. i - k = BufferLength * (q - 1) + (o + BufferLength - k)
    <3>1. BufferLength * (q - 1) = BufferLength * q - BufferLength
      BY <1>2
    <3> DEFINE p == BufferLength * q
               p1 == BufferLength * (q - 1)
    <3>2. p \in Int /\ i = p + o /\ p1 = p - BufferLength
      BY <1>1, <1>2, <3>1
    <3> HIDE DEF p, p1
    <3>3. i - k = p1 + (o + BufferLength - k)
      BY <1>2, <3>2 DEF Offsets
    <3> QED
      BY <3>3 DEF p1
  <2>3. OffsetOf(i - k) = o + BufferLength - k
    BY <2>1, <2>2, OffsetIs
  <2> QED
    BY <1>4, <2>3 DEF o
<1> QED
  BY <1>3, <1>4

(* The start of a range of n samples up to i.                              *)
LEMMA StartOf ==
  ASSUME NEW i \in Nat, NEW n \in 0..BufferLength
  PROVE  OffsetOf(i + BufferLength - n) =
           IF n <= OffsetOf(i) THEN OffsetOf(i) - n
           ELSE OffsetOf(i) + BufferLength - n
<1>1. PICK q \in Int : i - n = BufferLength * q + OffsetOf(i - n)
  BY OffsetQuotient
<1>2. OffsetOf(i - n) \in Offsets /\ BufferLength \in Nat
  BY OffsetTyped, Sizes
<1>3. i + BufferLength - n = BufferLength * (q + 1) + OffsetOf(i - n)
  <2>1. BufferLength * (q + 1) = BufferLength * q + BufferLength
    BY <1>2
  <2> DEFINE p == BufferLength * q
             p1 == BufferLength * (q + 1)
             o == OffsetOf(i - n)
  <2>2. p \in Int /\ o \in Int /\ i - n = p + o /\ p1 = p + BufferLength
    BY <1>1, <1>2, <2>1 DEF Offsets
  <2> HIDE DEF p, p1, o
  <2>3. i + BufferLength - n = p1 + o
    BY <1>2, <2>2
  <2> QED
    BY <2>3 DEF p1, o
<1>4. OffsetOf(i + BufferLength - n) = OffsetOf(i - n)
  <2>1. q + 1 \in Int
    OBVIOUS
  <2> QED
    BY <1>2, <1>3, <2>1, OffsetIs
<1> QED
  BY <1>4, Backwards

(* The fragments of a range that is not empty.                             *)
LEMMA FragmentsAre ==
  ASSUME NEW i \in Nat, NEW n \in 1..BufferLength
  PROVE  LET o == OffsetOf(i) IN
         Fragments(i, n) = IF n <= o THEN <<o - n, n, 0>>
                           ELSE <<o + BufferLength - n, n - o, o>>
<1> DEFINE o == OffsetOf(i)
           start == OffsetOf(i + BufferLength - n)
<1>1. o \in Int /\ 0 <= o /\ o < BufferLength /\ BufferLength \in Nat /\ n \in Int /\ 1 <= n /\ n <= BufferLength
  BY OffsetTyped, Sizes DEF Offsets
<1>2. start = IF n <= o THEN o - n ELSE o + BufferLength - n
  BY StartOf
<1>3. FirstLength(i, n) = IF start < o THEN n ELSE BufferLength - start
  BY DEF FirstLength
<1>4. Fragments(i, n) = <<start, FirstLength(i, n), (n - FirstLength(i, n)) % WordSize>>
  BY DEF Fragments, WordSize
<1> HIDE DEF o, start
<1>5. \A x \in 0..BufferLength : x % WordSize = x
  <2> SUFFICES ASSUME NEW x \in 0..BufferLength PROVE x % WordSize = x
    OBVIOUS
  <2>1. WordSize \in Nat /\ x \in Nat /\ x < WordSize
    BY Sizes
  <2> QED
    BY <2>1
<1>6. CASE n <= o
  <2>1. FirstLength(i, n) = n /\ start = o - n /\ n - FirstLength(i, n) = 0
    BY <1>1, <1>2, <1>3, <1>6
  <2> QED
    BY <1>1, <1>4, <1>5, <1>6, <2>1 DEF o
<1>7. CASE ~(n <= o)
  <2>1. FirstLength(i, n) = n - o /\ start = o + BufferLength - n /\ n - FirstLength(i, n) = o
    BY <1>1, <1>2, <1>3, <1>7
  <2> QED
    BY <1>1, <1>4, <1>5, <1>7, <2>1 DEF o
<1> QED
  BY <1>6, <1>7

(* They cover the places of the samples of the range.                      *)
LEMMA FragmentsCover ==
  ASSUME NEW i \in Nat, NEW n \in 1..BufferLength
  PROVE  Covered(Fragments(i, n)) = {OffsetOf(i - k) : k \in 1..n}
<1> DEFINE o == OffsetOf(i)
<1>1. /\ o \in Int /\ 0 <= o /\ o < BufferLength /\ BufferLength \in Nat
      /\ n \in Int /\ 1 <= n /\ n <= BufferLength
  BY OffsetTyped, Sizes DEF Offsets
<1>2. \A k \in 1..n : OffsetOf(i - k) = IF k <= o THEN o - k ELSE o + BufferLength - k
  BY <1>1, Backwards
<1>3. Fragments(i, n) = IF n <= o THEN <<o - n, n, 0>> ELSE <<o + BufferLength - n, n - o, o>>
  BY FragmentsAre
<1> HIDE DEF o
<1>4. CASE n <= o
  <2>1. Covered(Fragments(i, n)) = (o - n)..(o - 1)
    BY <1>1, <1>3, <1>4 DEF Covered
  <2>2. ASSUME NEW x \in Covered(Fragments(i, n)) PROVE \E k \in 1..n : x = OffsetOf(i - k)
    <3>1. o - x \in 1..n /\ o - x <= o /\ x = o - (o - x)
      BY <1>1, <1>4, <2>1, <2>2
    <3> QED
      BY <1>2, <3>1
  <2>3. ASSUME NEW k \in 1..n PROVE OffsetOf(i - k) \in Covered(Fragments(i, n))
    BY <1>1, <1>2, <1>4, <2>1, <2>3
  <2> QED
    BY <2>2, <2>3
<1>5. CASE ~(n <= o)
  <2>1. Covered(Fragments(i, n)) = ((o + BufferLength - n)..(BufferLength - 1)) \cup (0..(o - 1))
    BY <1>1, <1>3, <1>5 DEF Covered
  <2>2. ASSUME NEW x \in Covered(Fragments(i, n)) PROVE \E k \in 1..n : x = OffsetOf(i - k)
    <3>1. CASE x \in 0..(o - 1)
      <4>1. o - x \in 1..n /\ o - x <= o /\ x = o - (o - x)
        BY <1>1, <1>5, <3>1
      <4> QED
        BY <1>2, <4>1
    <3>2. CASE x \in (o + BufferLength - n)..(BufferLength - 1)
      <4>1. o + BufferLength - x \in 1..n /\ ~(o + BufferLength - x <= o) /\ x = o + BufferLength - (o + BufferLength - x)
        BY <1>1, <1>5, <3>2
      <4> QED
        BY <1>2, <4>1
    <3> QED
      BY <2>1, <2>2, <3>1, <3>2
  <2>3. ASSUME NEW k \in 1..n PROVE OffsetOf(i - k) \in Covered(Fragments(i, n))
    BY <1>1, <1>2, <1>5, <2>1, <2>3
  <2> QED
    BY <2>2, <2>3
<1> QED
  BY <1>4, <1>5

(* Whatever range a reader asks for, empty ones included.                  *)
LEMMA FragmentsTyped ==
  ASSUME NEW i \in Nat, NEW n \in 0..Half
  PROVE  Fragments(i, n) \in Offsets \X Word \X Word
<1> DEFINE start == OffsetOf(i + BufferLength - n)
           first == FirstLength(i, n)
           third == (n - first) % WordSize
<1>1. BufferLength \in Nat /\ WordSize \in Nat /\ WordSize > 2 * BufferLength /\ n \in 0..BufferLength
  BY Sizes
<1>2. start \in Offsets
  BY <1>1, OffsetTyped
<1>3. first = IF start < OffsetOf(i) THEN n ELSE BufferLength - start
  BY DEF FirstLength
<1>4. Fragments(i, n) = <<start, first, third>>
  BY DEF Fragments, WordSize
<1> HIDE DEF start, first
<1>5. first \in 0..(WordSize - 1) /\ n - first \in Int
  BY <1>1, <1>2, <1>3 DEF Offsets
<1>6. third \in 0..(WordSize - 1)
  BY <1>1, <1>5
<1> HIDE DEF third
<1> QED
  BY <1>2, <1>4, <1>5, <1>6 DEF Word, WordSize

-----------------------------------------------------------------------------
(* Type correctness, and what readers are given.                           *)

(* The types alone are not inductive: an open range starts at or after the *)
(* first sample there is, and only a range that is complete is committed.  *)
RangeOpen ==
    /\ cur # UNDEFINED => count <= cur
    /\ wpc = "clear" => cur # UNDEFINED

MemoryTyped ==
    /\ head \in 0..MaxIndex /\ sync \in Nat
    /\ buf \in [Offsets -> Cleared..MaxIndex]

WriterTyped ==
    /\ wpc \in {"down", "idle", "clear", "signal", "sync", "wake"}
    /\ {cur, last, base} \subseteq UNDEFINED..MaxIndex
    /\ count \in 0..Half /\ written \in 0..count
    /\ pending \subseteq Offsets
    /\ batch \in Nat /\ restarts \in 0..MaxRestarts
    /\ from \in 0..MaxIndex
    /\ RangeOpen

ReadersTyped ==
    /\ rpc \in [Readers -> {"idle", "sync", "head", "early", "asleep"}]
    /\ want \in [Readers -> 0..MaxIndex]
    /\ rcount \in [Readers -> ReadCounts \cup {0}]
    /\ prev \in [Readers -> Nat]
    /\ seen \in [Readers -> 0..MaxIndex]
    /\ frag \in [Readers -> Offsets \X Word \X Word]
    /\ status \in [Readers -> {"none", "OK", "TOO_LATE", "TOO_EARLY", "FLOW_INVALID"}]

(* A reader that was given a range still has its fragments, and could have *)
(* the range at the head it saw.                                           *)
FragmentsGiven ==
    \A r \in Readers :
        status[r] = "OK" =>
            /\ frag[r] = Fragments(want[r], rcount[r]) /\ rcount[r] <= Half
            /\ Readable(seen[r], want[r], rcount[r])

ContinuousInv == MemoryTyped /\ WriterTyped /\ ReadersTyped /\ FragmentsGiven /\ valid \in BOOLEAN

LEMMA InvTypes == ContinuousInv => TypeOK
  BY DEF ContinuousInv, MemoryTyped, WriterTyped, ReadersTyped, TypeOK

LEMMA InvFragments == ContinuousInv => FragmentsFit
<1> SUFFICES ASSUME ContinuousInv, NEW r \in Readers, status[r] = "OK", rcount[r] > 0
             PROVE  /\ frag[r][2] + frag[r][3] = rcount[r]
                    /\ Covered(frag[r]) = {OffsetOf(n) : n \in Given(r)}
  BY DEF FragmentsFit
<1>1. /\ want[r] \in Nat /\ rcount[r] \in 1..BufferLength
      /\ frag[r] = Fragments(want[r], rcount[r])
  <2>1. want[r] \in 0..MaxIndex /\ rcount[r] \in ReadCounts \cup {0}
    BY DEF ContinuousInv, ReadersTyped
  <2>2. want[r] \in Nat /\ rcount[r] \in Nat
    BY <2>1, CountsAreNat
  <2>3. frag[r] = Fragments(want[r], rcount[r]) /\ rcount[r] <= Half
    BY DEF ContinuousInv, FragmentsGiven
  <2> QED
    BY <2>1, <2>2, <2>3, Sizes
<1>2. OffsetOf(want[r]) \in Int
  BY <1>1, OffsetTyped DEF Offsets
<1>3. frag[r][2] + frag[r][3] = rcount[r]
  BY <1>1, <1>2, FragmentsAre
<1>4. Covered(frag[r]) = {OffsetOf(want[r] - k) : k \in 1..rcount[r]}
  BY <1>1, FragmentsCover
<1>5. {OffsetOf(n) : n \in Given(r)} = {OffsetOf(want[r] - k) : k \in 1..rcount[r]}
  BY DEF Given
<1> QED
  BY <1>3, <1>4, <1>5

LEMMA InvInit == Init => ContinuousInv
<1> SUFFICES ASSUME Init PROVE ContinuousInv
  OBVIOUS
<1>1. MemoryTyped
  BY Sizes DEF Init, MemoryTyped, Cleared
<1>2. WriterTyped
  BY Sizes DEF Init, WriterTyped, RangeOpen, UNDEFINED
<1>3. ReadersTyped
  <2>1. <<0, 0, 0>> \in Offsets \X Word \X Word
    BY Sizes DEF Offsets, Word, WordSize
  <2> QED
    BY <2>1, Sizes DEF Init, ReadersTyped
<1>4. FragmentsGiven /\ valid \in BOOLEAN
  BY DEF Init, FragmentsGiven
<1> QED
  BY <1>1, <1>2, <1>3, <1>4 DEF ContinuousInv

(* What is cleared before a commit lies in the ring.                       *)
LEMMA SkippedTyped ==
  ASSUME WriterTyped, cur # UNDEFINED
  PROVE  SkippedOffsets \subseteq Offsets
<1>1. CASE last # UNDEFINED /\ cur - count > last
  <2> DEFINE start == cur - count
  <2>1. start \in Nat /\ last \in Nat /\ start > last /\ count \in 0..Half
    BY <1>1, Sizes DEF WriterTyped, RangeOpen, UNDEFINED
  <2>2. ClearedCount \in 1..BufferLength
    BY <2>1, Sizes DEF ClearedCount, MinOf
  <2>3. SkippedOffsets = Covered(Fragments(start, ClearedCount))
    BY <1>1 DEF SkippedOffsets
  <2>4. \A k \in 1..ClearedCount : OffsetOf(start - k) \in Offsets
    BY <2>1, <2>2, OffsetTyped
  <2> HIDE DEF start
  <2> QED
    BY <2>1, <2>2, <2>3, <2>4, FragmentsCover
<1> QED
  BY <1>1 DEF SkippedOffsets

LEMMA WriterStep ==
  ASSUME ContinuousInv, WriterNext
  PROVE  MemoryTyped' /\ WriterTyped' /\ (valid \in BOOLEAN)'
<1>1. MemoryTyped /\ WriterTyped /\ valid \in BOOLEAN /\ MaxIndex \in Nat
  BY Sizes DEF ContinuousInv
<1>2. CASE AttachWriter
  BY <1>1, <1>2 DEF AttachWriter, MemoryTyped, WriterTyped, RangeOpen, shared, history
<1>3. CASE CancelSamples
  BY <1>1, <1>3, Sizes DEF CancelSamples, MemoryTyped, WriterTyped, RangeOpen, UNDEFINED, shared, history
<1>4. ASSUME NEW i \in 0..MaxIndex, NEW n \in Counts, OpenSamples(i, n)
      PROVE  MemoryTyped' /\ WriterTyped' /\ (valid \in BOOLEAN)'
  <2>1. n \in 0..Half /\ n <= i /\ i \in UNDEFINED..MaxIndex
    BY <1>4, Sizes, ContinuousAssumption DEF OpenSamples, OpenAccepted, UNDEFINED
  <2>2. /\ cur' = i /\ count' = n /\ written' = 0 /\ wpc' = "idle"
        /\ UNCHANGED <<shared, pending, last, batch, restarts, history>>
    BY <1>4 DEF OpenSamples
  <2>3. written' \in 0..count'
    BY <2>1, <2>2
  <2> QED
    BY <1>1, <2>1, <2>2, <2>3 DEF MemoryTyped, WriterTyped, RangeOpen, shared, history
<1>5. CASE WriteSample
  <2>1. /\ UNCHANGED <<head, sync, valid, wpc, cur, count, pending, last, batch, restarts, history>>
        /\ buf' = [buf EXCEPT ![OffsetOf(cur - count + written)] = cur - count + written]
        /\ written' = written + 1 /\ cur # UNDEFINED /\ written < count
    BY <1>5 DEF WriteSample
  <2>2. cur - count + written \in 0..MaxIndex /\ written' \in 0..count
    BY <1>1, <2>1, Sizes DEF WriterTyped, RangeOpen, UNDEFINED
  <2>3. cur - count + written \in Cleared..MaxIndex
    BY <2>2 DEF Cleared
  <2>4. buf' \in [Offsets -> Cleared..MaxIndex]
    BY <1>1, <2>1, <2>3 DEF MemoryTyped
  <2> QED
    BY <1>1, <2>1, <2>2, <2>4 DEF MemoryTyped, WriterTyped, RangeOpen, history
<1>6. CASE CommitSamples
  <2>1. /\ cur # UNDEFINED /\ pending' = SkippedOffsets /\ wpc' = "clear"
        /\ UNCHANGED <<shared, cur, count, written, last, batch, restarts, history>>
    BY <1>6 DEF CommitSamples
  <2>2. pending' \subseteq Offsets
    BY <1>1, <2>1, SkippedTyped
  <2> QED
    BY <1>1, <2>1, <2>2 DEF MemoryTyped, WriterTyped, RangeOpen, shared, history
<1>7. CASE ClearSample
  <2>1. PICK o \in pending : buf' = [buf EXCEPT ![o] = Cleared] /\ pending' = pending \ {o}
    BY <1>7 DEF ClearSample
  <2>2. UNCHANGED <<head, sync, valid, wpc, cur, count, written, last, batch, restarts, history>>
    BY <1>7 DEF ClearSample
  <2>3. Cleared \in Cleared..MaxIndex
    BY <1>1 DEF Cleared
  <2>4. buf' \in [Offsets -> Cleared..MaxIndex]
    BY <1>1, <2>1, <2>3 DEF MemoryTyped
  <2> QED
    BY <1>1, <2>1, <2>2, <2>4 DEF MemoryTyped, WriterTyped, RangeOpen, history
<1>8. CASE StoreHead
  <2>1. /\ UNCHANGED <<buf, sync, valid, pending, batch, restarts>>
        /\ head' = cur /\ last' = cur /\ from' = cur - count
        /\ base' = cur - count \/ base' = base
        /\ cur' = UNDEFINED /\ count' = 0 /\ written' = 0 /\ wpc' = "signal"
    BY <1>8 DEF StoreHead
  <2>2. cur \in 0..MaxIndex /\ cur - count \in 0..MaxIndex
    BY <1>1, <1>8, Sizes DEF StoreHead, WriterTyped, RangeOpen, UNDEFINED
  <2>3. /\ {cur', last', base'} \subseteq UNDEFINED..MaxIndex
        /\ count' \in 0..Half /\ written' \in 0..count'
    BY <1>1, <2>1, <2>2, Sizes DEF WriterTyped, UNDEFINED
  <2> QED
    BY <1>1, <2>1, <2>2, <2>3 DEF MemoryTyped, WriterTyped, RangeOpen
<1>9. CASE SignalBatch
  <2>1. batch' \in Nat
    <3>1. HeadBatch \in Nat
      BY <1>1, ContinuousAssumption DEF MemoryTyped, HeadBatch
    <3> QED
      BY <1>1, <1>9, <3>1 DEF SignalBatch, AnnouncedBatch, WriterTyped
  <2>2. /\ wpc' \in {"sync", "idle"}
        /\ UNCHANGED <<shared, cur, count, written, pending, last, restarts, history>>
    BY <1>9 DEF SignalBatch
  <2> QED
    BY <1>1, <2>1, <2>2 DEF MemoryTyped, WriterTyped, RangeOpen, shared, history
<1>10. CASE BumpSync \/ WakeAll
  <2>1. /\ wpc' \in {"wake", "idle"} /\ sync' \in Nat
        /\ UNCHANGED <<head, buf, valid, cur, count, written, pending, last, batch, restarts, history>>
    BY <1>1, <1>10 DEF BumpSync, WakeAll, MemoryTyped, shared
  <2> QED
    BY <1>1, <2>1 DEF MemoryTyped, WriterTyped, RangeOpen, history
<1>11. CASE WriterGone
  <2>1. /\ wpc' = "down" /\ cur' = UNDEFINED /\ count' = 0 /\ written' = 0 /\ pending' = {}
        /\ last' = UNDEFINED /\ batch' = 0 /\ base' = UNDEFINED
        /\ UNCHANGED <<shared, from>>
    BY <1>11 DEF WriterGone
  <2>2. restarts' \in 0..MaxRestarts
    BY <1>1, <1>11, Sizes DEF WriterGone, WriterTyped
  <2> QED
    BY <1>1, <2>1, <2>2, Sizes DEF MemoryTyped, WriterTyped, RangeOpen, UNDEFINED, shared
<1> QED
  BY <1>2, <1>3, <1>4, <1>5, <1>6, <1>7, <1>8, <1>9, <1>10, <1>11 DEF WriterNext, InCommit

(* A return that is not a success forgets the range.                       *)
LEMMA ReturnStep ==
  ASSUME ReadersTyped, FragmentsGiven, NEW r \in Readers,
         NEW result \in {"TOO_LATE", "TOO_EARLY", "FLOW_INVALID"},
         Return(r, result), UNCHANGED <<seen, frag>>
  PROVE  ReadersTyped' /\ FragmentsGiven'
<1>1. ReadersTyped'
  BY Sizes DEF ReadersTyped, Return, Goto
<1>2. \A x \in Readers : status'[x] = "OK" =>
        status[x] = "OK" /\ want'[x] = want[x] /\ rcount'[x] = rcount[x] /\ frag'[x] = frag[x]
        /\ seen'[x] = seen[x]
  BY DEF ReadersTyped, Return
<1> QED
  BY <1>1, <1>2 DEF FragmentsGiven

LEMMA ReaderNextStep ==
  ASSUME ContinuousInv, NEW r \in Readers, ReaderNext(r)
  PROVE  ReadersTyped' /\ FragmentsGiven'
<1>1. ReadersTyped /\ MemoryTyped /\ FragmentsGiven
  BY DEF ContinuousInv
<1>2. ASSUME NEW i \in 0..MaxIndex, NEW n \in ReadCounts, GetSamples(r, i, n)
      PROVE  ReadersTyped' /\ FragmentsGiven'
  <2>1. <<0, 0, 0>> \in Offsets \X Word \X Word
    BY Sizes DEF Offsets, Word, WordSize
  <2>2. ReadersTyped'
    BY <1>1, <1>2, <2>1, Sizes DEF GetSamples, Goto, ReadersTyped
  <2>3. \A x \in Readers : status'[x] = "OK" =>
          status[x] = "OK" /\ want'[x] = want[x] /\ rcount'[x] = rcount[x] /\ frag'[x] = frag[x]
        /\ seen'[x] = seen[x]
    BY <1>1, <1>2 DEF GetSamples, ReadersTyped
  <2> QED
    BY <1>1, <2>2, <2>3 DEF FragmentsGiven
<1>3. CASE LoadSync(r) \/ Wait(r) \/ Interrupted(r)
  <2>1. /\ prev' = prev \/ prev' = [prev EXCEPT ![r] = sync]
        /\ \E pc \in {"head", "sync", "asleep", "early"} : Goto(r, pc)
        /\ UNCHANGED <<want, rcount, seen, frag, status>>
    BY <1>3 DEF LoadSync, Wait, Interrupted
  <2> QED
    BY <1>1, <2>1 DEF Goto, ReadersTyped, MemoryTyped, FragmentsGiven
<1>4. CASE Deadline(r)
  BY <1>1, <1>4, ReturnStep DEF Deadline
<1>5. CASE LoadHead(r)
  <2>1. CASE Goto(r, "early") /\ UNCHANGED <<want, rcount, prev, seen, frag, status>>
    BY <1>1, <2>1 DEF Goto, ReadersTyped, FragmentsGiven
  <2>2. CASE Return(r, "TOO_LATE") /\ UNCHANGED <<seen, frag>>
    BY <1>1, <2>2, ReturnStep
  <2>3. CASE /\ Readable(head, want[r], rcount[r])
             /\ seen' = [seen EXCEPT ![r] = head]
             /\ frag' = [frag EXCEPT ![r] = Fragments(want[r], rcount[r])]
             /\ Return(r, "OK")
    <3>1. want[r] \in Nat /\ rcount[r] \in Nat /\ head \in Nat
      <4>1. want[r] \in 0..MaxIndex /\ rcount[r] \in ReadCounts \cup {0} /\ head \in 0..MaxIndex
        BY <1>1 DEF ReadersTyped, MemoryTyped
      <4> QED
        BY <4>1, CountsAreNat
    <3>2. rcount[r] \in 0..Half
      <4>1. head - MinIndex(head) <= Half /\ MinIndex(head) \in Nat
        BY <3>1, Sizes DEF MinIndex
      <4> QED
        BY <2>3, <3>1, <4>1, Sizes DEF Readable
    <3>3. Fragments(want[r], rcount[r]) \in Offsets \X Word \X Word
      BY <3>1, <3>2, FragmentsTyped
    <3>4. /\ want' = [want EXCEPT ![r] = want[r]] /\ rcount' = [rcount EXCEPT ![r] = rcount[r]]
          /\ prev' = [prev EXCEPT ![r] = 0] /\ status' = [status EXCEPT ![r] = "OK"]
          /\ rpc' = [rpc EXCEPT ![r] = "idle"]
      BY <2>3 DEF Return, Goto
    <3>5. want' = want /\ rcount' = rcount
      BY <1>1, <3>4 DEF ReadersTyped
    <3>6. ReadersTyped'
      BY <1>1, <2>3, <3>3, <3>4, <3>5 DEF ReadersTyped, MemoryTyped
    <3>7. FragmentsGiven'
      <4> SUFFICES ASSUME NEW x \in Readers, status'[x] = "OK"
                   PROVE  /\ frag'[x] = Fragments(want'[x], rcount'[x]) /\ rcount'[x] <= Half
                          /\ Readable(seen'[x], want'[x], rcount'[x])
        BY DEF FragmentsGiven, Fragments, FirstLength, Readable, MinIndex
      <4>1. CASE x = r
        BY <1>1, <2>3, <3>2, <3>5, <4>1 DEF ReadersTyped
      <4>2. CASE x # r
        BY <1>1, <2>3, <3>4, <3>5, <4>2 DEF ReadersTyped, FragmentsGiven
      <4> QED
        BY <4>1, <4>2
    <3> QED
      BY <3>6, <3>7
  <2> QED
    BY <1>5, <2>1, <2>2, <2>3 DEF LoadHead
<1> QED
  BY <1>2, <1>3, <1>4, <1>5 DEF ReaderNext, ReaderStep

(* Readers are woken by the writer, which leaves all else of theirs alone. *)
LEMMA ReadersFrame ==
  ASSUME ContinuousInv, WriterNext
  PROVE  ReadersTyped' /\ FragmentsGiven'
<1>1. UNCHANGED <<want, rcount, prev, seen, frag, status>>
  BY DEF WriterNext, InCommit, AttachWriter, WriteSample, CancelSamples, CommitSamples, WriterGone, OpenSamples,
     ClearSample, StoreHead, SignalBatch, BumpSync, WakeAll, readers
<1>2. rpc' = rpc \/ rpc' = [r \in Readers |-> IF rpc[r] = "asleep" THEN "early" ELSE rpc[r]]
  BY DEF WriterNext, InCommit, AttachWriter, WriteSample, CancelSamples, CommitSamples, WriterGone, OpenSamples,
     ClearSample, StoreHead, SignalBatch, BumpSync, WakeAll, readers
<1> QED
  BY <1>1, <1>2 DEF ContinuousInv, ReadersTyped, FragmentsGiven

LEMMA Inductive == Spec => []ContinuousInv
<1>1. ContinuousInv /\ [Next]_vars => ContinuousInv'
  <2> SUFFICES ASSUME ContinuousInv, [Next]_vars PROVE ContinuousInv'
    OBVIOUS
  <2>1. CASE RemoveFlow \/ UNCHANGED vars
    <3>1. UNCHANGED <<head, buf, sync, writer, readers, history>> /\ (valid' = FALSE \/ valid' = valid)
      BY <2>1 DEF RemoveFlow, vars, shared
    <3>2. MemoryTyped' /\ WriterTyped'
      BY <3>1 DEF ContinuousInv, MemoryTyped, WriterTyped, RangeOpen, writer, history
    <3>3. ReadersTyped' /\ FragmentsGiven'
      BY <3>1 DEF ContinuousInv, ReadersTyped, FragmentsGiven, readers
    <3>4. (valid \in BOOLEAN)'
      BY <3>1 DEF ContinuousInv
    <3> QED
      BY <3>2, <3>3, <3>4 DEF ContinuousInv
  <2>2. CASE WriterNext
    BY <2>2, WriterStep, ReadersFrame DEF ContinuousInv
  <2>3. ASSUME NEW r \in Readers, ReaderNext(r) PROVE ContinuousInv'
    <3>1. UNCHANGED <<shared, writer, history>>
      BY <2>3 DEF ReaderNext, ReaderStep, LoadSync, LoadHead, Wait, Deadline, Interrupted, GetSamples
    <3>2. MemoryTyped' /\ WriterTyped' /\ (valid \in BOOLEAN)'
      BY <3>1 DEF ContinuousInv, MemoryTyped, WriterTyped, RangeOpen, shared, writer, history
    <3> QED
      BY <2>3, <3>2, ReaderNextStep DEF ContinuousInv
  <2> QED
    BY <2>1, <2>2, <2>3 DEF Next
<1> QED
  BY <1>1, InvInit, PTL DEF Spec

(* Samples, counters and what readers hold keep their types: in particular *)
(* what a commit clears lies inside the ring, however long the gap.        *)
THEOREM TypeCorrect == Spec => []TypeOK
  BY Inductive, InvTypes, PTL

(* getSamples: whatever the length of the ring, the phase of the range and *)
(* the batches of the writer, the two fragments are as long as the range   *)
(* and cover exactly the places of its samples.                            *)
THEOREM FragmentsFitRange == Spec => []FragmentsFit
  BY Inductive, InvFragments, PTL

-----------------------------------------------------------------------------
(* What the ring holds.                                                    *)

(* Two samples less than a turn of the ring apart have places of their own.*)
LEMMA PlacesDiffer ==
  ASSUME NEW n \in Int, NEW m \in Int, n < m, m - n < BufferLength
  PROVE  OffsetOf(n) # OffsetOf(m)
<1> SUFFICES ASSUME OffsetOf(n) = OffsetOf(m) PROVE FALSE
  OBVIOUS
<1>1. PICK q \in Int : n = BufferLength * q + OffsetOf(n)
  BY OffsetQuotient
<1>2. PICK p \in Int : m = BufferLength * p + OffsetOf(m)
  BY OffsetQuotient
<1> DEFINE o == OffsetOf(n)
           bq == BufferLength * q
           bp == BufferLength * p
           d == p - q
           bd == BufferLength * d
<1>3. o \in Int /\ BufferLength \in Nat /\ BufferLength >= 1
  BY OffsetTyped, Sizes DEF Offsets
<1>4. bq \in Int /\ bp \in Int /\ d \in Int /\ bd = bp - bq
  BY <1>3
<1>5. d >= 1 => bd >= BufferLength
  BY <1>3
<1>6. d <= 0 => bd <= 0
  BY <1>3
<1>7. n = bq + o /\ m = bp + o
  BY <1>1, <1>2
<1> HIDE DEF o, bq, bp, d, bd
<1> QED
  BY <1>3, <1>4, <1>5, <1>6, <1>7

(* The producer's progress: the open range lies at or after the head, and  *)
(* a writer that has committed left the head at its last sample.           *)
Progress ==
    /\ base = UNDEFINED <=> last = UNDEFINED
    /\ last # UNDEFINED => last = head /\ base <= head
    /\ cur # UNDEFINED => wpc \in {"idle", "clear"} /\ cur - count >= head
    /\ wpc = "clear" => written = count

(* The part of the open range that is filled, out of reach of what a       *)
(* commit clears.                                                          *)
Filled ==
    /\ cur # UNDEFINED => \A n \in cur - count .. cur - count + written - 1 : buf[OffsetOf(n)] = n
    /\ wpc = "clear" => \A n \in cur - count .. cur - 1 : OffsetOf(n) \notin pending

(* Behind the head nothing reads as older than it is, and a commit has     *)
(* cleared, or is about to, what it skips and readers could reach.         *)
Fresh ==
    /\ base # UNDEFINED =>
         \A n \in MinIndex(head) .. head - 1 : n >= base => buf[OffsetOf(n)] \notin 0 .. n - 1
    /\ wpc = "clear" /\ last # UNDEFINED =>
         \A n \in head .. cur - count - 1 :
             n >= cur - BufferLength => OffsetOf(n) \in pending \/ buf[OffsetOf(n)] = Cleared

SampleInv == Progress /\ Filled /\ Fresh /\ LastRangeKept

(* What the invariant is about.                                            *)
samples == <<head, buf, wpc, cur, count, written, pending, last, base, from>>

LEMMA SampleInit == Init => SampleInv
  BY DEF Init, SampleInv, Progress, Filled, Fresh, LastRangeKept, UNDEFINED

LEMMA SampleFrame == SampleInv /\ UNCHANGED samples => SampleInv'
  BY DEF SampleInv, Progress, Filled, Fresh, LastRangeKept, MinIndex, OffsetOf, samples

(* The numbers of the state, as the arithmetic below needs them.           *)
LEMMA Numbers ==
  ASSUME WriterTyped, MemoryTyped
  PROVE  /\ head \in Nat /\ count \in Nat /\ count <= Half /\ written \in Nat /\ written <= count
         /\ cur # UNDEFINED => cur \in Nat /\ cur - count \in Nat
         /\ last # UNDEFINED => last \in Nat
         /\ base # UNDEFINED => base \in Nat
         /\ cur \in Int /\ last \in Int /\ base \in Int
         /\ MinIndex(head) \in Nat /\ head - Half <= MinIndex(head) /\ MinIndex(head) <= head
         /\ buf \in [Offsets -> Cleared..MaxIndex]
<1>1. head \in Nat /\ count \in Nat /\ count <= Half /\ written \in Nat /\ written <= count
  BY Sizes DEF WriterTyped, MemoryTyped
<1>2. /\ cur # UNDEFINED => cur \in Nat /\ cur - count \in Nat
      /\ last # UNDEFINED => last \in Nat
      /\ base # UNDEFINED => base \in Nat
      /\ cur \in Int /\ last \in Int /\ base \in Int
  BY <1>1, Sizes DEF WriterTyped, RangeOpen, UNDEFINED
<1>3. MinIndex(head) \in Nat /\ head - Half <= MinIndex(head) /\ MinIndex(head) <= head
  BY <1>1, Sizes DEF MinIndex
<1> QED
  BY <1>1, <1>2, <1>3 DEF MemoryTyped

(* Steps that leave the ring as it is.                                     *)
LEMMA QuietStep ==
  ASSUME ContinuousInv, SampleInv,
         \/ AttachWriter \/ CancelSamples \/ SignalBatch \/ BumpSync \/ WakeAll \/ WriterGone
         \/ \E i \in 0..MaxIndex, n \in Counts : OpenSamples(i, n)
  PROVE  SampleInv'
<1>1. WriterTyped /\ MemoryTyped /\ Progress /\ Filled /\ Fresh /\ LastRangeKept
  BY DEF ContinuousInv, SampleInv
<1>2. UNCHANGED <<head, buf>>
  BY DEF AttachWriter, CancelSamples, SignalBatch, BumpSync, WakeAll, WriterGone, OpenSamples, shared
<1>3. CASE AttachWriter \/ CancelSamples \/ SignalBatch \/ BumpSync \/ WakeAll
  <2>1. /\ UNCHANGED <<last, base, from>>
        /\ (UNCHANGED <<cur, count, written>>) \/ (cur' = UNDEFINED /\ wpc' = "idle" /\ wpc = "idle")
        /\ wpc' # "clear" /\ wpc # "clear"
        /\ wpc' \in {"signal", "sync", "wake"} => wpc \in {"signal", "sync", "wake"}
        /\ wpc # "idle" => wpc' \in {"idle", "sync", "wake"}
        /\ wpc = "idle" => wpc' = "idle"
    BY <1>3 DEF AttachWriter, CancelSamples, SignalBatch, BumpSync, WakeAll, history
  <2>2. Progress' /\ Filled'
    BY <1>1, <1>2, <2>1 DEF Progress, Filled, OffsetOf
  <2>3. Fresh' /\ LastRangeKept'
    BY <1>1, <1>2, <2>1 DEF Fresh, LastRangeKept, MinIndex, OffsetOf
  <2> QED
    BY <2>2, <2>3 DEF SampleInv
<1>4. CASE WriterGone
  <2>1. wpc' = "down" /\ cur' = UNDEFINED /\ last' = UNDEFINED /\ base' = UNDEFINED
    BY <1>4 DEF WriterGone
  <2> QED
    BY <2>1 DEF SampleInv, Progress, Filled, Fresh, LastRangeKept
<1>5. CASE \E i \in 0..MaxIndex, n \in Counts : OpenSamples(i, n)
  <2>1. PICK i \in 0..MaxIndex, n \in Counts : OpenSamples(i, n)
    BY <1>5
  <2>2. /\ cur' = i /\ count' = n /\ written' = 0 /\ wpc = "idle" /\ wpc' = "idle" /\ i - n >= head
        /\ i \in Int /\ n \in Int
        /\ UNCHANGED <<last, base, from>>
    BY <2>1, ContinuousAssumption DEF OpenSamples, ProducerOpens, history
  <2>3. Progress'
    BY <1>1, <1>2, <2>2 DEF Progress
  <2>4. Filled'
    BY <2>2 DEF Filled
  <2>5. Fresh' /\ LastRangeKept'
    BY <1>1, <1>2, <2>2 DEF Fresh, LastRangeKept, MinIndex, OffsetOf
  <2> QED
    BY <2>3, <2>4, <2>5 DEF SampleInv
<1> QED
  BY <1>3, <1>4, <1>5

(* The producer fills one more place of the open range.                    *)
LEMMA FillStep ==
  ASSUME ContinuousInv, SampleInv, WriteSample
  PROVE  SampleInv'
<1> DEFINE m == cur - count + written
<1>1. WriterTyped /\ MemoryTyped /\ Progress /\ Filled /\ Fresh /\ LastRangeKept
  BY DEF ContinuousInv, SampleInv
<1>2. /\ wpc = "idle" /\ cur # UNDEFINED /\ written < count /\ written' = written + 1
      /\ buf' = [buf EXCEPT ![OffsetOf(m)] = m]
      /\ UNCHANGED <<head, wpc, cur, count, pending, last, base, from>>
  BY DEF WriteSample, history
<1>3. m \in Nat /\ m >= head /\ m < cur
  BY <1>1, <1>2, Numbers DEF Progress
<1>4. OffsetOf(m) \in Offsets
  BY <1>3, OffsetTyped
<1>5. Progress'
  BY <1>1, <1>2 DEF Progress
<1>6. Filled'
  <2> SUFFICES ASSUME NEW n \in cur - count .. cur - count + (written + 1) - 1
               PROVE  buf'[OffsetOf(n)] = n
    BY <1>2 DEF Filled, OffsetOf
  <2>1. n \in Int /\ OffsetOf(n) \in Offsets
    BY <1>1, Numbers, OffsetTyped
  <2>2. CASE n = m
    BY <1>1, <1>2, <1>4, <2>2, Numbers
  <2>3. CASE n # m
    <3>1. n \in cur - count .. cur - count + written - 1 /\ n < m /\ m - n < BufferLength
      BY <1>1, <1>2, <2>3, Numbers, Sizes
    <3>2. OffsetOf(n) # OffsetOf(m)
      BY <1>3, <2>1, <3>1, PlacesDiffer
    <3> QED
      BY <1>1, <1>2, <1>4, <2>1, <3>1, <3>2, Numbers DEF Filled
  <2> QED
    BY <2>2, <2>3
<1>7. Fresh'
  <2> SUFFICES ASSUME base # UNDEFINED, NEW n \in MinIndex(head) .. head - 1, n >= base
               PROVE  buf'[OffsetOf(n)] \notin 0 .. n - 1
    BY <1>2 DEF Fresh, MinIndex, OffsetOf
  <2>1. n \in Int /\ OffsetOf(n) \in Offsets /\ buf[OffsetOf(n)] \notin 0 .. n - 1
    BY <1>1, Numbers, OffsetTyped DEF Fresh
  <2>2. m \notin 0 .. n - 1
    BY <1>1, <1>3, <2>1, Numbers
  <2> HIDE DEF m
  <2> QED
    BY <1>1, <1>2, <1>4, <2>1, <2>2, Numbers
<1>8. LastRangeKept'
  BY <1>2 DEF LastRangeKept
<1> QED
  BY <1>5, <1>6, <1>7, <1>8 DEF SampleInv

(* A commit sets out to clear the places of skipped samples, none of which *)
(* is one of its range.                                                    *)
LEMMA SkippedAre ==
  ASSUME WriterTyped, MemoryTyped, cur # UNDEFINED, last # UNDEFINED, cur - count > last
  PROVE  SkippedOffsets = {OffsetOf(cur - count - k) : k \in 1..ClearedCount}
<1>1. /\ cur - count \in Nat /\ count \in 0..Half /\ ClearedCount \in 1..BufferLength
  BY Numbers, Sizes DEF ClearedCount, MinOf
<1>2. SkippedOffsets = Covered(Fragments(cur - count, ClearedCount))
  BY DEF SkippedOffsets
<1> DEFINE start == cur - count
<1>3. start \in Nat
  BY <1>1
<1> HIDE DEF start
<1>4. Covered(Fragments(start, ClearedCount)) = {OffsetOf(start - k) : k \in 1..ClearedCount}
  BY <1>1, <1>3, FragmentsCover
<1> QED
  BY <1>2, <1>4 DEF start

LEMMA CommitStep ==
  ASSUME ContinuousInv, SampleInv, CommitSamples
  PROVE  SampleInv'
<1>1. WriterTyped /\ MemoryTyped /\ Progress /\ Filled /\ Fresh /\ LastRangeKept
  BY DEF ContinuousInv, SampleInv
<1>2. /\ wpc = "idle" /\ wpc' = "clear" /\ cur # UNDEFINED /\ written = count
      /\ pending' = SkippedOffsets
      /\ UNCHANGED <<head, buf, cur, count, written, last, base, from>>
  BY DEF CommitSamples, shared, history
<1>3. Progress'
  BY <1>1, <1>2 DEF Progress
<1>4. ASSUME NEW n \in cur - count .. cur - 1 PROVE OffsetOf(n) \notin SkippedOffsets
  <2>1. CASE last # UNDEFINED /\ cur - count > last
    <3> SUFFICES ASSUME NEW k \in 1..ClearedCount PROVE OffsetOf(n) # OffsetOf(cur - count - k)
      BY <1>1, <1>2, <2>1, SkippedAre
    <3>1. ClearedCount \in Int /\ ClearedCount <= BufferLength - count
      BY <1>1, <1>2, <2>1, Numbers, Sizes DEF ClearedCount, MinOf
    <3>2. /\ n \in Int /\ cur - count - k \in Int /\ cur - count - k < n
          /\ n - (cur - count - k) < BufferLength
      BY <1>1, <1>2, <3>1, Numbers, Sizes
    <3> QED
      BY <3>2, PlacesDiffer
  <2>2. CASE ~(last # UNDEFINED /\ cur - count > last)
    BY <2>2 DEF SkippedOffsets
  <2> QED
    BY <2>1, <2>2
<1>5. Filled'
  BY <1>1, <1>2, <1>4 DEF Filled, OffsetOf
<1>6. Fresh'
  <2>1. ASSUME last # UNDEFINED, NEW n \in head .. cur - count - 1, n >= cur - BufferLength
        PROVE  OffsetOf(n) \in SkippedOffsets
    <3>1. last = head /\ cur - count > last
      BY <1>1, <1>2, <2>1, Numbers DEF Progress
    <3> DEFINE k == cur - count - n
    <3>2. k \in 1..ClearedCount
      BY <1>1, <1>2, <2>1, <3>1, Numbers, Sizes DEF ClearedCount, MinOf
    <3>3. n = cur - count - k
      BY <1>1, <1>2, <2>1, Numbers
    <3> HIDE DEF k
    <3>4. OffsetOf(n) \in {OffsetOf(cur - count - j) : j \in 1..ClearedCount}
      BY <3>2, <3>3
    <3> QED
      BY <1>1, <1>2, <2>1, <3>1, <3>4, SkippedAre
  <2> QED
    BY <1>1, <1>2, <2>1 DEF Fresh, MinIndex, OffsetOf
<1>7. LastRangeKept'
  BY <1>2 DEF LastRangeKept
<1> QED
  BY <1>3, <1>5, <1>6, <1>7 DEF SampleInv

LEMMA ClearStep ==
  ASSUME ContinuousInv, SampleInv, ClearSample
  PROVE  SampleInv'
<1>1. WriterTyped /\ MemoryTyped /\ Progress /\ Filled /\ Fresh
  BY DEF ContinuousInv, SampleInv
<1>2. PICK o \in pending : wpc = "clear" /\ buf' = [buf EXCEPT ![o] = Cleared] /\ pending' = pending \ {o}
  BY DEF ClearSample
<1>3. UNCHANGED <<head, wpc, cur, count, written, last, base, from>>
  BY DEF ClearSample, history
<1>4. \A n \in Int : OffsetOf(n) \in Offsets /\ buf'[OffsetOf(n)] = IF OffsetOf(n) = o THEN Cleared ELSE buf[OffsetOf(n)]
  BY <1>1, <1>2, Numbers, OffsetTyped
<1>5. Progress'
  BY <1>1, <1>3 DEF Progress
<1>6. Filled'
  <2>1. ASSUME NEW n \in cur - count .. cur - 1, cur # UNDEFINED
        PROVE  buf'[OffsetOf(n)] = buf[OffsetOf(n)] /\ OffsetOf(n) \notin pending'
    <3>1. n \in Int
      BY <1>1, Numbers
    <3>2. OffsetOf(n) \notin pending
      BY <1>1, <1>2, <2>1 DEF Filled
    <3> QED
      BY <1>2, <1>4, <3>1, <3>2
  <2>2. written = count /\ cur # UNDEFINED
    BY <1>1, <1>2 DEF Progress, WriterTyped, RangeOpen
  <2>3. cur - count + written - 1 = cur - 1
    BY <1>1, <2>2, Numbers
  <2> QED
    BY <1>1, <1>3, <2>1, <2>2, <2>3 DEF Filled, OffsetOf
<1>7. Fresh'
  <2>1. ASSUME base # UNDEFINED, NEW n \in MinIndex(head) .. head - 1, n >= base
        PROVE  buf'[OffsetOf(n)] \notin 0 .. n - 1
    <3>1. n \in Int /\ buf[OffsetOf(n)] \notin 0 .. n - 1
      BY <1>1, <2>1, Numbers DEF Fresh
    <3>2. Cleared \notin 0 .. n - 1
      BY <3>1 DEF Cleared
    <3> QED
      BY <1>4, <3>1, <3>2
  <2>2. ASSUME last # UNDEFINED, NEW n \in head .. cur - count - 1, n >= cur - BufferLength
        PROVE  OffsetOf(n) \in pending' \/ buf'[OffsetOf(n)] = Cleared
    <3>1. n \in Int /\ (OffsetOf(n) \in pending \/ buf[OffsetOf(n)] = Cleared)
      BY <1>1, <1>2, <2>2, Numbers DEF Fresh
    <3> QED
      BY <1>2, <1>4, <3>1
  <2> QED
    BY <1>2, <1>3, <2>1, <2>2 DEF Fresh, MinIndex, OffsetOf
<1>8. LastRangeKept'
  BY <1>2, <1>3 DEF LastRangeKept
<1> QED
  BY <1>5, <1>6, <1>7, <1>8 DEF SampleInv

(* The range is committed: what lay before it was cleared, or is out of    *)
(* readers' reach.                                                         *)
LEMMA HeadStep ==
  ASSUME ContinuousInv, SampleInv, StoreHead
  PROVE  SampleInv'
<1>1. WriterTyped /\ MemoryTyped /\ Progress /\ Filled /\ Fresh
  BY DEF ContinuousInv, SampleInv
<1>2. /\ wpc = "clear" /\ wpc' = "signal" /\ pending = {}
      /\ head' = cur /\ last' = cur /\ from' = cur - count
      /\ base' = (IF base = UNDEFINED THEN cur - count ELSE base)
      /\ cur' = UNDEFINED /\ UNCHANGED <<buf, pending>>
  BY DEF StoreHead
<1>3. cur # UNDEFINED /\ cur - count >= head /\ written = count
  BY <1>1, <1>2 DEF Progress, WriterTyped, RangeOpen
<1>4. /\ cur \in Nat /\ count \in Nat /\ cur - count \in Nat /\ head \in Nat /\ UNDEFINED = -1
      /\ base \in Int /\ last \in Int /\ base # UNDEFINED => base \in Nat
  BY <1>1, <1>3, Numbers DEF UNDEFINED
<1>5. Progress'
  BY <1>1, <1>2, <1>3, <1>4 DEF Progress
<1>6. Filled'
  BY <1>2 DEF Filled
<1>7. \A n \in cur - count .. cur - 1 : buf[OffsetOf(n)] = n
  <2>1. cur - count + written - 1 = cur - 1
    BY <1>3, <1>4
  <2> QED
    BY <1>1, <1>3, <2>1 DEF Filled
<1>8. LastRangeKept'
  BY <1>2, <1>7 DEF LastRangeKept, OffsetOf
<1>9. Fresh'
  <2> SUFFICES ASSUME NEW n \in MinIndex(cur) .. cur - 1, n >= base'
               PROVE  buf[OffsetOf(n)] \notin 0 .. n - 1
    BY <1>2 DEF Fresh, MinIndex, OffsetOf
  <2>1. /\ MinIndex(cur) \in Nat /\ cur - Half <= MinIndex(cur) /\ MinIndex(head) <= MinIndex(cur)
        /\ MinIndex(head) \in Nat /\ n \in Int
    BY <1>3, <1>4, Sizes DEF MinIndex
  <2>2. CASE n \in cur - count .. cur - 1
    BY <1>7, <2>1, <2>2
  <2>3. CASE n < cur - count
    <3>1. base # UNDEFINED /\ base' = base /\ last # UNDEFINED
      BY <1>1, <1>2, <2>1, <2>3 DEF Progress
    <3>2. CASE n < head
      BY <1>1, <1>4, <2>1, <3>1, <3>2 DEF Fresh
    <3>3. CASE n >= head
      <4>1. n \in head .. cur - count - 1 /\ n >= cur - BufferLength
        BY <1>4, <2>1, <2>3, <3>3, Sizes
      <4>2. buf[OffsetOf(n)] = Cleared
        BY <1>1, <1>2, <3>1, <4>1 DEF Fresh
      <4> QED
        BY <2>1, <4>2 DEF Cleared
    <3> QED
      BY <1>4, <2>1, <3>2, <3>3
  <2> QED
    BY <1>4, <2>1, <2>2, <2>3
<1> QED
  BY <1>5, <1>6, <1>8, <1>9 DEF SampleInv

LEMMA SamplesInductive == Spec => []SampleInv
<1>1. ContinuousInv /\ SampleInv /\ [Next]_vars => SampleInv'
  <2> SUFFICES ASSUME ContinuousInv, SampleInv, [Next]_vars PROVE SampleInv'
    OBVIOUS
  <2>1. CASE UNCHANGED samples
    BY <2>1, SampleFrame
  <2>2. CASE WriterNext
    BY <2>2, QuietStep, FillStep, CommitStep, ClearStep, HeadStep DEF WriterNext, InCommit
  <2>3. CASE RemoveFlow \/ UNCHANGED vars
    BY <2>1, <2>3 DEF RemoveFlow, vars, shared, writer, history, samples
  <2>4. ASSUME NEW r \in Readers, ReaderNext(r) PROVE SampleInv'
    <3>1. UNCHANGED <<shared, writer, history>>
      BY <2>4 DEF ReaderNext, ReaderStep, LoadSync, LoadHead, Wait, Deadline, Interrupted, GetSamples
    <3> QED
      BY <2>1, <3>1 DEF shared, writer, history, samples
  <2> QED
    BY <2>2, <2>3, <2>4 DEF Next
<1> QED
  BY <1>1, SampleInit, Inductive, PTL DEF Spec

(* commit() clears what a writer skips after its first commit, around the  *)
(* end of the ring and for gaps of any length, before the head passes it.  *)
THEOREM SkippedNeverStale == Spec => []NoStaleSamples
<1>1. SampleInv => NoStaleSamples
  BY DEF SampleInv, Fresh, NoStaleSamples
<1> QED
  BY <1>1, SamplesInductive, PTL

(* commit(): clearing a gap spares the range committed with it.            *)
THEOREM RangeSurvivesClearing == Spec => []LastRangeKept
<1>1. SampleInv => LastRangeKept
  BY DEF SampleInv
<1> QED
  BY <1>1, SamplesInductive, PTL

(* A producer that skips nothing: every place behind the head that readers *)
(* can reach holds the sample that belongs there, and nothing is cleared.  *)
Contiguous ==
    /\ base # UNDEFINED =>
         \A n \in MinIndex(head) .. head - 1 : n >= base => buf[OffsetOf(n)] = n
    /\ cur # UNDEFINED => cur - count = head
    /\ wpc = "clear" => pending = {}

LEMMA ContiguousWriter ==
  ASSUME MaxSkip = 0, ContinuousInv, SampleInv, Contiguous, WriterNext
  PROVE  Contiguous'
<1>1. WriterTyped /\ MemoryTyped /\ Progress /\ Filled
  BY DEF ContinuousInv, SampleInv
<1>2. CASE AttachWriter \/ CancelSamples \/ SignalBatch \/ BumpSync \/ WakeAll \/ WriterGone
  <2>1. /\ UNCHANGED <<head, buf>> /\ wpc' # "clear"
        /\ base' = base \/ base' = UNDEFINED
        /\ UNCHANGED <<cur, count>> \/ cur' = UNDEFINED
    BY <1>2 DEF AttachWriter, CancelSamples, SignalBatch, BumpSync, WakeAll, WriterGone, shared, history
  <2> QED
    BY <2>1 DEF Contiguous, MinIndex, OffsetOf
<1>3. ASSUME NEW i \in 0..MaxIndex, NEW n \in Counts, OpenSamples(i, n) PROVE Contiguous'
  <2>1. /\ cur' = i /\ count' = n /\ wpc' = "idle" /\ UNCHANGED <<head, buf, base>>
        /\ i - n >= head /\ i - n <= head + MaxSkip
    BY <1>3 DEF OpenSamples, ProducerOpens, shared, history
  <2>2. i - n = head
    <3>1. n \in Nat /\ i \in Nat /\ head \in Nat
      BY <1>1, Numbers, ContinuousAssumption
    <3> QED
      BY <2>1, <3>1
  <2> QED
    BY <2>1, <2>2 DEF Contiguous, MinIndex, OffsetOf
<1>4. CASE WriteSample
  <2> DEFINE m == cur - count + written
  <2>1. /\ wpc' = "idle" /\ cur # UNDEFINED /\ written < count
        /\ buf' = [buf EXCEPT ![OffsetOf(m)] = m]
        /\ UNCHANGED <<head, cur, count, base>>
    BY <1>4 DEF WriteSample, history
  <2>2. m \in Nat /\ m >= head /\ m < head + Half
    BY <1>1, <2>1, Numbers, Sizes DEF Contiguous
  <2>3. ASSUME base # UNDEFINED, NEW n \in MinIndex(head) .. head - 1, n >= base PROVE buf'[OffsetOf(n)] = n
    <3>1. n \in Int /\ OffsetOf(n) \in Offsets /\ buf[OffsetOf(n)] = n
      BY <1>1, <2>3, Numbers, OffsetTyped DEF Contiguous
    <3>2. n < m /\ m - n < BufferLength
      BY <1>1, <2>2, <3>1, Numbers, Sizes
    <3>3. OffsetOf(n) # OffsetOf(m)
      BY <2>2, <3>1, <3>2, PlacesDiffer
    <3> QED
      BY <1>1, <2>1, <3>1, <3>3, Numbers
  <2> QED
    BY <2>1, <2>3 DEF Contiguous, MinIndex, OffsetOf
<1>5. CASE CommitSamples
  <2>1. /\ cur # UNDEFINED /\ pending' = SkippedOffsets /\ UNCHANGED <<head, buf, cur, count, base>>
    BY <1>5 DEF CommitSamples, shared, history
  <2>2. SkippedOffsets = {}
    <3>1. last # UNDEFINED => ~(cur - count > last)
      BY <1>1, <2>1, Numbers DEF Contiguous, Progress
    <3> QED
      BY <3>1 DEF SkippedOffsets
  <2> QED
    BY <2>1, <2>2 DEF Contiguous, MinIndex, OffsetOf
<1>6. CASE ClearSample
  BY <1>6 DEF ClearSample, Contiguous
<1>7. CASE StoreHead
  <2>1. /\ wpc = "clear" /\ wpc' = "signal" /\ head' = cur /\ cur' = UNDEFINED /\ UNCHANGED buf
        /\ base' = (IF base = UNDEFINED THEN cur - count ELSE base)
    BY <1>7 DEF StoreHead
  <2>2. /\ cur # UNDEFINED /\ written = count /\ cur - count = head
        /\ cur \in Nat /\ head \in Nat /\ count \in Nat
    BY <1>1, <2>1, Numbers DEF Contiguous, Progress, WriterTyped, RangeOpen
  <2>3. ASSUME NEW n \in MinIndex(cur) .. cur - 1, n >= base' PROVE buf[OffsetOf(n)] = n
    <3>1. MinIndex(cur) \in Nat /\ MinIndex(head) <= MinIndex(cur) /\ MinIndex(head) \in Nat /\ n \in Int
      BY <2>2, Sizes DEF MinIndex
    <3>2. CASE n >= head
      <4>1. n \in cur - count .. cur - count + written - 1
        BY <2>2, <3>1, <3>2
      <4> QED
        BY <1>1, <2>2, <4>1 DEF Filled
    <3>3. CASE n < head
      <4>1. base # UNDEFINED /\ base' = base
        BY <2>1, <2>2, <2>3, <3>1, <3>3
      <4>2. n \in MinIndex(head) .. head - 1
        BY <2>2, <3>1, <3>3
      <4> QED
        BY <2>3, <4>1, <4>2 DEF Contiguous
    <3> QED
      BY <2>2, <3>1, <3>2, <3>3
  <2> QED
    BY <2>1, <2>3 DEF Contiguous, MinIndex, OffsetOf
<1> QED
  BY <1>2, <1>3, <1>4, <1>5, <1>6, <1>7 DEF WriterNext, InCommit

(* getSamples, with a producer that skips nothing: whatever the lengths of *)
(* ring, ranges and batches and wherever the producer is with the range it *)
(* fills in place, the samples a reader was given are untouched as long as *)
(* the head has not moved.                                                 *)
THEOREM RangesStayIntact == ASSUME MaxSkip = 0 PROVE Spec => []ReadRangeIntact
<1>1. Init => Contiguous
  BY DEF Init, Contiguous
<1>2. ContinuousInv /\ SampleInv /\ Contiguous /\ [Next]_vars => Contiguous'
  <2> SUFFICES ASSUME ContinuousInv, SampleInv, Contiguous, [Next]_vars PROVE Contiguous'
    OBVIOUS
  <2>1. CASE UNCHANGED <<head, buf, base, cur, count, wpc, pending>>
    BY <2>1 DEF Contiguous, MinIndex, OffsetOf
  <2>2. CASE RemoveFlow \/ UNCHANGED vars
    BY <2>1, <2>2 DEF RemoveFlow, vars, shared, writer, history
  <2>3. ASSUME NEW r \in Readers, ReaderNext(r) PROVE Contiguous'
    <3>1. UNCHANGED <<shared, writer, history>>
      BY <2>3 DEF ReaderNext, ReaderStep, LoadSync, LoadHead, Wait, Deadline, Interrupted, GetSamples
    <3> QED
      BY <2>1, <3>1 DEF shared, writer, history
  <2> QED
    BY <2>2, <2>3, ContiguousWriter DEF Next
<1>3. ContinuousInv /\ Contiguous => ReadRangeIntact
  <2> SUFFICES ASSUME ContinuousInv, Contiguous, NEW r \in Readers, status[r] = "OK", head = seen[r],
                      NEW n \in Given(r), base # UNDEFINED, n >= base
               PROVE  buf[OffsetOf(n)] = n
    BY DEF ReadRangeIntact
  <2>1. /\ want[r] \in Nat /\ rcount[r] \in Nat
        /\ Readable(head, want[r], rcount[r])
        /\ head \in Nat /\ MinIndex(head) \in Nat
    <3>1. want[r] \in 0..MaxIndex /\ rcount[r] \in ReadCounts \cup {0}
      BY DEF ContinuousInv, ReadersTyped
    <3>2. Readable(head, want[r], rcount[r])
      BY DEF ContinuousInv, FragmentsGiven
    <3> QED
      BY <3>1, <3>2, CountsAreNat, Numbers DEF ContinuousInv
  <2>2. PICK k \in 1..rcount[r] : n = want[r] - k
    BY DEF Given
  <2>3. n \in MinIndex(head) .. head - 1
    BY <2>1, <2>2 DEF Readable
  <2> QED
    BY <2>3 DEF Contiguous
<1> QED
  BY <1>1, <1>2, <1>3, Inductive, SamplesInductive, PTL DEF Spec

(* The open range begins no further ahead than the producer may skip, and  *)
(* a commit clears nothing but what lies between the head and its range.   *)
Near ==
    /\ cur # UNDEFINED => cur - count <= head + MaxSkip
    /\ wpc = "clear" => pending \subseteq {OffsetOf(n) : n \in head .. cur - count - 1}

LEMMA NearWriter ==
  ASSUME ContinuousInv, SampleInv, Near, WriterNext
  PROVE  Near'
<1>1. WriterTyped /\ MemoryTyped /\ Progress
  BY DEF ContinuousInv, SampleInv
<1>2. CASE \/ AttachWriter \/ WriteSample \/ CancelSamples \/ StoreHead \/ SignalBatch \/ BumpSync
           \/ WakeAll \/ WriterGone
  <2>1. wpc' # "clear"
    BY <1>2 DEF AttachWriter, WriteSample, CancelSamples, StoreHead, SignalBatch, BumpSync, WakeAll, WriterGone
  <2>2. cur' = UNDEFINED \/ UNCHANGED <<cur, count, head>>
    BY <1>2 DEF AttachWriter, WriteSample, CancelSamples, StoreHead, SignalBatch, BumpSync, WakeAll, WriterGone, shared
  <2> QED
    BY <2>1, <2>2 DEF Near
<1>3. ASSUME NEW i \in 0..MaxIndex, NEW n \in Counts, OpenSamples(i, n) PROVE Near'
  BY <1>3 DEF OpenSamples, ProducerOpens, Near, shared
<1>4. CASE CommitSamples
  <2>1. /\ cur # UNDEFINED /\ pending' = SkippedOffsets /\ UNCHANGED <<head, cur, count>>
    BY <1>4 DEF CommitSamples, shared
  <2>2. CASE last # UNDEFINED /\ cur - count > last
    <3>1. /\ last = head /\ head \in Nat /\ cur - count \in Nat /\ count \in 0..Half
          /\ ClearedCount \in Nat /\ ClearedCount <= cur - count - head
      BY <1>1, <2>1, <2>2, Numbers, Sizes DEF Progress, ClearedCount, MinOf
    <3>2. ASSUME NEW k \in 1..ClearedCount PROVE cur - count - k \in head .. cur - count - 1
      BY <3>1
    <3>3. SkippedOffsets = {OffsetOf(cur - count - k) : k \in 1..ClearedCount}
      BY <1>1, <2>1, <2>2, SkippedAre
    <3> QED
      BY <2>1, <3>2, <3>3 DEF Near, OffsetOf
  <2>3. CASE ~(last # UNDEFINED /\ cur - count > last)
    BY <2>1, <2>3 DEF SkippedOffsets, Near
  <2> QED
    BY <2>2, <2>3
<1>5. CASE ClearSample
  BY <1>5 DEF ClearSample, Near, OffsetOf
<1> QED
  BY <1>2, <1>3, <1>4, <1>5 DEF WriterNext, InCommit

(* getSamples: on a ring whose halves leave as much room between them as   *)
(* the producer skips at a time, neither the samples it writes in place    *)
(* nor those it clears are ones a reader was given, until the head moves.  *)
THEOREM GivenStayUntouched ==
  ASSUME 2 * Half + MaxSkip <= BufferLength
  PROVE  Spec => GivenSamplesUntouched
<1> DEFINE Untouched ==
        \A r \in Readers :
            status[r] = "OK" /\ head = seen[r] =>
                \A n \in Given(r) : buf'[OffsetOf(n)] = buf[OffsetOf(n)]
<1>1. Init => Near
  BY DEF Init, Near
<1>2. ContinuousInv /\ SampleInv /\ Near /\ [Next]_vars => Near'
  <2> SUFFICES ASSUME ContinuousInv, SampleInv, Near, [Next]_vars PROVE Near'
    OBVIOUS
  <2>1. CASE UNCHANGED <<head, cur, count, wpc, pending>>
    BY <2>1 DEF Near, OffsetOf
  <2>2. CASE RemoveFlow \/ UNCHANGED vars
    BY <2>1, <2>2 DEF RemoveFlow, vars, shared, writer
  <2>3. ASSUME NEW r \in Readers, ReaderNext(r) PROVE Near'
    <3>1. UNCHANGED <<shared, writer>>
      BY <2>3 DEF ReaderNext, ReaderStep, LoadSync, LoadHead, Wait, Deadline, Interrupted, GetSamples
    <3> QED
      BY <2>1, <3>1 DEF shared, writer
  <2> QED
    BY <2>2, <2>3, NearWriter DEF Next
<1>3. ContinuousInv /\ SampleInv /\ Near /\ [Next]_vars => [Untouched]_vars
  <2> SUFFICES ASSUME ContinuousInv, SampleInv, Near, Next,
                      NEW r \in Readers, status[r] = "OK", head = seen[r],
                      NEW n \in Given(r)
               PROVE  buf'[OffsetOf(n)] = buf[OffsetOf(n)]
    OBVIOUS
  <2>1. WriterTyped /\ MemoryTyped /\ Progress
    BY DEF ContinuousInv, SampleInv
  <2>2. n \in Int /\ n < head /\ n >= head - Half
    <3>1. want[r] \in Nat /\ rcount[r] \in Nat
      BY CountsAreNat DEF ContinuousInv, ReadersTyped
    <3>2. Readable(head, want[r], rcount[r])
      BY DEF ContinuousInv, FragmentsGiven
    <3>3. PICK k \in 1..rcount[r] : n = want[r] - k
      BY DEF Given
    <3>4. MinIndex(head) \in Nat /\ head - Half <= MinIndex(head) /\ head \in Nat /\ Half \in Nat
      BY <2>1, Numbers, Sizes
    <3> QED
      BY <3>1, <3>2, <3>3, <3>4 DEF Readable
  <2>3. ASSUME NEW m \in Int, m >= head, m < head + MaxSkip + Half
        PROVE  OffsetOf(n) # OffsetOf(m)
    <3>1. n < m /\ m - n < BufferLength
      BY <2>1, <2>2, <2>3, Numbers, Sizes
    <3> QED
      BY <2>2, <2>3, <3>1, PlacesDiffer
  <2>4. CASE UNCHANGED buf
    BY <2>4
  <2>5. CASE WriteSample
    <3> DEFINE m == cur - count + written
    <3>1. cur # UNDEFINED /\ written < count /\ buf' = [buf EXCEPT ![OffsetOf(m)] = m]
      BY <2>5 DEF WriteSample
    <3>2. m \in Int /\ m >= head /\ m < head + MaxSkip + Half
      BY <2>1, <3>1, Numbers, Sizes DEF Progress, Near
    <3>3. OffsetOf(n) # OffsetOf(m)
      BY <2>3, <3>2
    <3> QED
      BY <2>1, <3>1, <3>3, Numbers
  <2>6. CASE ClearSample
    <3>1. PICK o \in pending : wpc = "clear" /\ buf' = [buf EXCEPT ![o] = Cleared]
      BY <2>6 DEF ClearSample
    <3>2. cur # UNDEFINED
      BY <2>1, <3>1 DEF WriterTyped, RangeOpen
    <3>3. PICK m \in head .. cur - count - 1 : o = OffsetOf(m)
      BY <3>1 DEF Near
    <3>4. m \in Int /\ m >= head /\ m < head + MaxSkip + Half
      BY <2>1, <3>2, <3>3, Numbers, Sizes DEF Near
    <3>5. OffsetOf(n) # o
      BY <2>3, <3>3, <3>4
    <3> QED
      BY <2>1, <3>1, <3>5, Numbers
  <2>7. WriterNext => UNCHANGED buf \/ WriteSample \/ ClearSample
    BY DEF WriterNext, InCommit, AttachWriter, CancelSamples, CommitSamples, StoreHead, SignalBatch, BumpSync,
           WakeAll, WriterGone, OpenSamples, shared
  <2>8. ~WriterNext => UNCHANGED buf
    BY DEF Next, RemoveFlow, ReaderNext, ReaderStep, LoadSync, LoadHead, Wait, Deadline, Interrupted,
           GetSamples, shared
  <2> QED
    BY <2>4, <2>5, <2>6, <2>7, <2>8
<1> QED
  BY <1>1, <1>2, <1>3, Inductive, SamplesInductive, PTL DEF Spec, GivenSamplesUntouched

=============================================================================
