--------------------------- MODULE SampleProtocol ---------------------------
(***************************************************************************)
(* How a range of samples travels through an entry of the bounce buffer    *)
(* (RMASampleEgressProtocol, AudioBounceBuffer): the fragments of every    *)
(* channel are gathered behind a header, written to the entry in as many   *)
(* writes as the fabric needs, and scattered into the ring of the target,  *)
(* which wraps somewhere else.                                             *)
(*                                                                         *)
(* Rings are [channel -> [offset -> index of the sample]].                 *)
(***************************************************************************)
EXTENDS Integers, Sequences

CONSTANTS Channels,       \* number of channels
          SourceLength,   \* samples per channel in the ring of the initiator
          TargetLength,   \* and in that of the target
          MaxBatch,       \* maxSyncBatchSize: samples an entry has room for
          IovLimit        \* pieces the fabric gathers in one write

ASSUME SampleAssumption ==
    /\ {Channels, SourceLength, TargetLength, MaxBatch, IovLimit} \subseteq Nat \ {0}
    /\ MaxBatch < SourceLength /\ MaxBatch < TargetLength

\* ceil(historySize / entrySize)
EntryCount == (TargetLength + MaxBatch - 1) \div MaxBatch

\* The offsets of samples index - count .. index - 1 in a ring, as one piece or,
\* where the ring wraps, two.
Fragments(index, count, length) ==
    LET start  == (index + length - count) % length
        end    == index % length
        first  == IF start < end THEN count ELSE length - start
    IN  IF first < count THEN <<[start |-> start, len |-> first], [start |-> 0, len |-> count - first]>>
        ELSE <<[start |-> start, len |-> first]>>

PieceOf(channel, f) == [channel |-> channel, start |-> f.start, len |-> f.len]

Pieces_FragmentsFirst(index, count, length) ==
    LET f == Fragments(index, count, length)
    IN  [k \in 1 .. Channels * Len(f) |->
            PieceOf((k - 1) % Channels, f[((k - 1) \div Channels) + 1])]

\* Channel after channel, so that both sides may cut the channels differently.
Pieces(index, count, length) ==
    LET f == Fragments(index, count, length)
    IN  [k \in 1 .. Channels * Len(f) |->
            PieceOf((k - 1) \div Len(f), f[((k - 1) % Len(f)) + 1])]

\* The offset of a piece in the list of samples of an entry; that of the one
\* after the last piece is the length of the list.
OffsetIn(pieces, k) ==
    LET before[n \in 1 .. Len(pieces) + 1] ==
            IF n = 1 THEN 0 ELSE before[n - 1] + pieces[n - 1].len
    IN  before[k]

\* The writes: the header is the first piece, every write but the last takes
\* IovLimit pieces.
SampleWrites(index, count) ==
    LET pieces == Pieces(index, count, SourceLength)
        total  == Len(pieces) + 1
        writes == (total + IovLimit - 1) \div IovLimit
    IN  [w \in 1 .. writes |->
            LET from == (w - 1) * IovLimit
                to   == IF w * IovLimit < total THEN w * IovLimit ELSE total
            IN  [header |-> w = 1,
                 offset |-> OffsetIn(pieces, IF w = 1 THEN 1 ELSE from),
                 pieces |-> SubSeq(pieces, IF w = 1 THEN 1 ELSE from, to - 1),
                 imm    |-> w = writes]]

\* The samples the pieces refer to, one piece after the other.
Gather(ring, pieces) ==
    [j \in 1 .. OffsetIn(pieces, Len(pieces) + 1) |->
        LET k == CHOOSE k \in DOMAIN pieces :
                    OffsetIn(pieces, k) < j /\ j <= OffsetIn(pieces, k) + pieces[k].len
        IN  ring[pieces[k].channel][pieces[k].start + j - OffsetIn(pieces, k) - 1]]

\* unpack(): the samples of an entry go to their places in the ring.  An empty
\* range, which only a header that never arrived announces, makes it copy a
\* whole ring from beyond the entry and more; Beyond stands for that.
Beyond == <<0, 0>>

Unpack(ring, header, samples) ==
    LET pieces == Pieces(header.index, header.count, TargetLength)
    IN  [ch \in DOMAIN ring |->
            [o \in DOMAIN ring[ch] |->
                LET hits == {k \in DOMAIN pieces :
                                /\ pieces[k].channel = ch
                                /\ o \in pieces[k].start .. pieces[k].start + pieces[k].len - 1}
                IN  IF hits = {} THEN ring[ch][o]
                    ELSE LET k == CHOOSE k \in hits : TRUE
                             j == OffsetIn(pieces, k) + o - pieces[k].start + 1
                         IN  IF j \in DOMAIN samples THEN samples[j] ELSE Beyond]]
=============================================================================
