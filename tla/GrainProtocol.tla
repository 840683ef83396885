--------------------------- MODULE GrainProtocol ---------------------------
(***************************************************************************)
(* How the slices of a grain become remote writes (RMAGrainEgressProtocol, *)
(* SliceRange, DataLayout::Discrete) and what a target makes of the        *)
(* immediate data of the last one (RMAGrainIngressProtocol, ImmData).      *)
(*                                                                         *)
(* The memory of a grain is a row of cells: the header, then the planes    *)
(* one after the other, each with its slices.                              *)
(***************************************************************************)
EXTENDS Integers, Sequences

CONSTANTS SliceSizes,   \* cells of a slice in every active plane
          TotalSlices   \* slices of a grain

ASSUME GrainAssumption ==
    /\ SliceSizes \in Seq(Nat \ {0}) /\ SliceSizes # <<>>
    /\ TotalSlices \in Nat \ {0}

\* MXL_GRAIN_PAYLOAD_OFFSET: what lies in front of the payload.
PayloadOffset == 1

Header == 0

Planes == Len(SliceSizes)

PlanePayloadOffset[plane \in 1 .. Planes + 1] ==
    IF plane = 1 THEN PayloadOffset
    ELSE PlanePayloadOffset[plane - 1] + SliceSizes[plane - 1] * TotalSlices

GrainLength == PlanePayloadOffset[Planes + 1]

\* The cells of slice s, counted from 0, of a plane.
CellsOf(plane, s) ==
    LET first == PlanePayloadOffset[plane] + s * SliceSizes[plane]
    IN  first .. first + SliceSizes[plane] - 1

SliceOfCell(c) ==
    CHOOSE s \in 0 .. TotalSlices - 1 : \E plane \in 1 .. Planes : c \in CellsOf(plane, s)

\* What a plane contributes: with the first slice goes the header.
PlaneWrite_HeaderAlways(plane, start, end) ==
    LET size == SliceSizes[plane]
        base == IF plane = 1 /\ start = 0 THEN 0 ELSE PlanePayloadOffset[plane]
    IN  [offset |-> base + start * size,
         size   |-> (end - start) * size + PayloadOffset,
         imm    |-> plane = Planes]

PlaneWrite(plane, start, end) ==
    LET size == SliceSizes[plane]
        base == IF plane = 1 /\ start = 0 THEN 0 ELSE PlanePayloadOffset[plane]
    IN  [offset |-> base + start * size,
         size   |-> (end - start) * size + (IF plane = 1 /\ start = 0 THEN PayloadOffset ELSE 0),
         imm    |-> plane = Planes]

\* The writes of slices start .. end - 1: a whole grain is one write, otherwise
\* there is one for each plane, and the last one carries immediate data.
GrainWrites_ImmFirst(start, end) ==
    IF start = 0 /\ end = TotalSlices
    THEN <<[offset |-> 0, size |-> GrainLength, imm |-> TRUE]>>
    ELSE [plane \in 1 .. Planes |-> [PlaneWrite(plane, start, end) EXCEPT !.imm = plane = 1]]

GrainWrites(start, end) ==
    IF start = 0 /\ end = TotalSlices
    THEN <<[offset |-> 0, size |-> GrainLength, imm |-> TRUE]>>
    ELSE [plane \in 1 .. Planes |-> PlaneWrite(plane, start, end)]

\* ImmDataGrain: slot and slice in sixteen bits each.
GrainImm(slot, slice) == [slot |-> slot % 65536, slice |-> slice % 65536]

\* read(): the header in shared memory takes the slices that are announced; the
\* index reported is the one it holds.
AcceptGrain_HeaderCount(grain, imm) == grain

AcceptGrain(grain, imm) == [grain EXCEPT ![Header].valid = imm.slice]
=============================================================================
