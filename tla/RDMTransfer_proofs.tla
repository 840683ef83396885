-------------------------- MODULE RDMTransfer_proofs --------------------------
(***************************************************************************)
(* Proofs about the connectionless transfer: where the planes of a grain   *)
(* lie and into which pieces a range of samples is cut, how the writes     *)
(* under way and the completions of a target are counted, and what has     *)
(* arrived when a notice is read.                                          *)
(***************************************************************************)
EXTENDS RDMTransfer, FiniteSetTheorems, WellFoundedInduction, TLAPS

-----------------------------------------------------------------------------
(* Numbers.                                                                *)

(* A set of natural numbers that is not empty has a least element.         *)
LEMMA LeastElement ==
    ASSUME NEW S, S \subseteq Nat, S # {}
    PROVE  \E m \in S : \A n \in S : m <= n
<1>1. PICK m \in S : \A n \in S : ~ (<<n, m>> \in OpToRel(<, Nat))
  BY NatLessThanWellFounded, WFMin
<1>2. m \in Nat /\ \A n \in S : n \in Nat /\ ~(n < m)
  BY <1>1 DEF OpToRel
<1>3. \A n \in S : m <= n
  BY <1>2
<1> QED
  BY <1>1, <1>3

(* What holds of 0 and is handed on by every number holds of all.          *)
LEMMA EveryNumber ==
    ASSUME NEW S, 0 \in S, \A n \in Nat : n \in S => n + 1 \in S
    PROVE  Nat \subseteq S
<1> SUFFICES ASSUME Nat \ S # {} PROVE FALSE
  OBVIOUS
<1>1. PICK m \in Nat \ S : \A n \in Nat \ S : m <= n
  BY LeastElement
<1>2. m - 1 \in Nat /\ (m - 1) + 1 = m
  BY <1>1
<1>3. m - 1 \in S
  BY <1>1, <1>2
<1> QED
  BY <1>1, <1>2, <1>3

(* A slot of a ring.                                                       *)
LEMMA Remainder ==
    ASSUME NEW a \in Int, NEW n \in Nat \ {0}
    PROVE  a % n \in 0 .. n - 1
  OBVIOUS

LEMMA SmallRemainder ==
    ASSUME NEW n \in Nat \ {0}, NEW a \in 0 .. n - 1
    PROVE  a % n = a
  OBVIOUS

LEMMA Euclid ==
    ASSUME NEW a \in Nat, NEW n \in Nat, n > 0
    PROVE  a \div n \in Int /\ a % n \in Int /\ a = n * (a \div n) + (a % n)
  OBVIOUS

(* Two indexes less than a ring apart have slots of their own.             *)
LEMMA SameSlot ==
    ASSUME NEW n \in Nat \ {0}, NEW a \in Nat, NEW b \in Nat,
           a % n = b % n, a - b < n, b - a < n
    PROVE  a = b
<1>1. /\ a = n * (a \div n) + (a % n) /\ b = n * (b \div n) + (b % n)
      /\ a \div n \in Int /\ b \div n \in Int /\ a % n \in Int
  BY Euclid
<1> DEFINE x == a \div n
           y == b \div n
<1>2. a - b = n * (x - y) /\ x - y \in Int
  BY <1>1
<1>3. x - y = 0
  <2> HIDE DEF x, y
  <2>1. n * (x - y) < n /\ -n < n * (x - y)
    BY <1>2
  <2> QED
    BY <1>2, <2>1
<1> QED
  BY <1>2, <1>3

LEMMA RemainderIsLess ==
    ASSUME NEW a \in Nat, NEW n \in Nat \ {0}
    PROVE  a % n \in 0 .. a
<1>1. CASE a < n
  BY <1>1, SmallRemainder
<1>2. CASE a >= n
  BY <1>2, Remainder
<1> QED
  BY <1>1, <1>2

-----------------------------------------------------------------------------
(* Sequences.                                                              *)

LEMMA Extended ==
    ASSUME NEW S, NEW s \in Seq(S), NEW ws \in Seq(S), NEW n \in 0 .. Len(ws),
           NEW r, r = s \o SubSeq(ws, 1, n)
    PROVE  /\ r \in Seq(S) /\ Len(r) = Len(s) + n /\ DOMAIN r = 1 .. Len(s) + n
           /\ \A k \in 1 .. Len(s) : r[k] = s[k]
           /\ \A k \in 1 .. n : r[Len(s) + k] = ws[k]
<1> DEFINE u == SubSeq(ws, 1, n)
<1>1. /\ u \in Seq(S) /\ Len(u) = n
      /\ \A k \in 1 .. n : u[k] = ws[k]
  OBVIOUS
<1> HIDE DEF u
<1>2. r = s \o u
  BY DEF u
<1>3. /\ r \in Seq(S) /\ Len(r) = Len(s) + Len(u) /\ DOMAIN r = 1 .. Len(s) + Len(u)
      /\ \A k \in 1 .. Len(s) : r[k] = s[k]
      /\ \A k \in 1 .. Len(u) : r[Len(s) + k] = u[k]
  BY <1>1, <1>2
<1> QED
  BY <1>1, <1>3

LEMMA Unextended ==
    ASSUME NEW S, NEW s \in Seq(S), NEW ws
    PROVE  s \o SubSeq(ws, 1, 0) = s
<1>1. SubSeq(ws, 1, 0) = <<>>
  OBVIOUS
<1> QED
  BY <1>1

LEMMA Shortened ==
    ASSUME NEW S, NEW s \in Seq(S), s # <<>>
    PROVE  /\ Head(s) \in S /\ Head(s) = s[1] /\ 1 \in DOMAIN s
           /\ Tail(s) \in Seq(S) /\ Len(Tail(s)) = Len(s) - 1 /\ Len(s) \in Nat \ {0}
           /\ DOMAIN s = 1 .. Len(s) /\ DOMAIN Tail(s) = 1 .. Len(s) - 1
           /\ \A k \in 1 .. Len(s) - 1 : Tail(s)[k] = s[k + 1]
  OBVIOUS

LEMMA Appended ==
    ASSUME NEW S, NEW s \in Seq(S), NEW e \in S
    PROVE  /\ Append(s, e) \in Seq(S) /\ Len(Append(s, e)) = Len(s) + 1 /\ Len(s) \in Nat
           /\ DOMAIN s = 1 .. Len(s) /\ DOMAIN Append(s, e) = 1 .. Len(s) + 1
           /\ \A k \in 1 .. Len(s) : Append(s, e)[k] = s[k]
           /\ Append(s, e)[Len(s) + 1] = e
  OBVIOUS

-----------------------------------------------------------------------------
(* Where the planes lie.                                                   *)

LEMMA LayoutConstants ==
    /\ Planes \in Nat \ {0} /\ TotalSlices \in Nat \ {0}
    /\ \A p \in 1 .. Planes : SliceSizes[p] \in Nat \ {0}
  BY GrainAssumption DEF Planes

(* The offsets up to plane n exist: what the recursion of the definition   *)
(* rests on.                                                               *)
IsOffsets(f, n) ==
    /\ f = [p \in 1 .. n + 1 |-> f[p]]
    /\ f[1] = PayloadOffset
    /\ \A p \in 1 .. n : f[p] \in Nat /\ f[p + 1] = f[p] + SliceSizes[p] * TotalSlices

LEMMA OffsetsExist == \E f : IsOffsets(f, Planes)
<1> DEFINE S == {n \in Nat : n <= Planes => \E f : IsOffsets(f, n)}
<1>1. 0 \in S
  <2>1. IsOffsets([p \in 1 .. 1 |-> PayloadOffset], 0)
    BY DEF IsOffsets
  <2> QED
    BY <2>1
<1>2. ASSUME NEW n \in Nat, n \in S PROVE n + 1 \in S
  <2> SUFFICES ASSUME n + 1 <= Planes PROVE \E f : IsOffsets(f, n + 1)
    OBVIOUS
  <2>1. PICK f : IsOffsets(f, n)
    BY <1>2, LayoutConstants
  <2>2. f[n + 1] \in Nat
    <3>1. CASE n = 0
      BY <2>1, <3>1 DEF IsOffsets, PayloadOffset
    <3>2. CASE n # 0
      <4>1. n \in 1 .. n /\ n \in 1 .. Planes
        BY <3>2, LayoutConstants
      <4>2. f[n] \in Nat /\ f[n + 1] = f[n] + SliceSizes[n] * TotalSlices
        BY <2>1, <4>1 DEF IsOffsets
      <4>3. SliceSizes[n] * TotalSlices \in Nat
        BY <4>1, LayoutConstants
      <4> QED
        BY <4>2, <4>3
    <3> QED
      BY <3>1, <3>2
  <2> DEFINE g == [p \in 1 .. n + 2 |->
                     IF p = n + 2 THEN f[n + 1] + SliceSizes[n + 1] * TotalSlices ELSE f[p]]
  <2>3. g[1] = PayloadOffset
    BY <2>1 DEF IsOffsets
  <2>4. ASSUME NEW p \in 1 .. n + 1
        PROVE  g[p] \in Nat /\ g[p + 1] = g[p] + SliceSizes[p] * TotalSlices
    <3>1. CASE p = n + 1
      BY <2>2, <3>1
    <3>2. CASE p # n + 1
      <4>1. p \in 1 .. n /\ p + 1 \in 1 .. n + 2 /\ p \in 1 .. n + 2
        BY <3>2
      <4>2. g[p] = f[p] /\ g[p + 1] = f[p + 1]
        BY <4>1
      <4> QED
        BY <2>1, <4>1, <4>2 DEF IsOffsets
    <3> QED
      BY <3>1, <3>2
  <2>5. g = [p \in 1 .. (n + 1) + 1 |-> g[p]]
    OBVIOUS
  <2> HIDE DEF g
  <2>6. IsOffsets(g, n + 1)
    BY <2>3, <2>4, <2>5 DEF IsOffsets
  <2> QED
    BY <2>6
<1>3. Nat \subseteq S
  <2> HIDE DEF S
  <2> QED
    BY <1>1, <1>2, EveryNumber
<1> QED
  BY <1>3, LayoutConstants

(* The planes lie one after the other, each as long as its slices.         *)
LEMMA PlaneOffsets ==
    /\ PlanePayloadOffset[1] = PayloadOffset
    /\ \A p \in 1 .. Planes :
          /\ PlanePayloadOffset[p] \in Nat
          /\ PlanePayloadOffset[p + 1] = PlanePayloadOffset[p] + SliceSizes[p] * TotalSlices
<1> DEFINE Step(f) == [p \in 1 .. Planes + 1 |->
                         IF p = 1 THEN PayloadOffset
                         ELSE f[p - 1] + SliceSizes[p - 1] * TotalSlices]
<1>1. PICK f : IsOffsets(f, Planes)
  BY OffsetsExist
<1>2. f = Step(f)
  <2>1. ASSUME NEW p \in 1 .. Planes + 1 PROVE f[p] = Step(f)[p]
    <3>1. CASE p = 1
      BY <1>1, <3>1 DEF IsOffsets
    <3>2. CASE p # 1
      <4>1. p - 1 \in 1 .. Planes /\ (p - 1) + 1 = p
        BY <3>2, LayoutConstants
      <4> QED
        BY <1>1, <3>2, <4>1 DEF IsOffsets
    <3> QED
      BY <3>1, <3>2
  <2>2. f = [p \in 1 .. Planes + 1 |-> f[p]]
    BY <1>1 DEF IsOffsets
  <2> QED
    BY <2>1, <2>2
<1>3. PlanePayloadOffset = Step(PlanePayloadOffset)
  <2>1. PlanePayloadOffset = CHOOSE g : g = Step(g)
    BY DEF PlanePayloadOffset
  <2> HIDE DEF Step
  <2> QED
    BY <1>2, <2>1
<1> DEFINE g == PlanePayloadOffset
<1>4. /\ g[1] = PayloadOffset
      /\ \A p \in 1 .. Planes : g[p + 1] = g[p] + SliceSizes[p] * TotalSlices
  <2>1. g[1] = PayloadOffset
    BY <1>3, LayoutConstants
  <2>2. ASSUME NEW p \in 1 .. Planes PROVE g[p + 1] = g[p] + SliceSizes[p] * TotalSlices
    <3>1. p + 1 \in 1 .. Planes + 1 /\ p + 1 # 1 /\ (p + 1) - 1 = p
      BY LayoutConstants
    <3>2. Step(g)[p + 1] = g[(p + 1) - 1] + SliceSizes[(p + 1) - 1] * TotalSlices
      BY <3>1
    <3> QED
      BY <1>3, <3>1, <3>2
  <2> QED
    BY <2>1, <2>2
<1> DEFINE S == {n \in Nat : n < Planes => g[n + 1] \in Nat}
<1> HIDE DEF g
<1>5. 0 \in S
  BY <1>4 DEF PayloadOffset
<1>6. ASSUME NEW n \in Nat, n \in S PROVE n + 1 \in S
  <2> SUFFICES ASSUME n + 1 < Planes PROVE g[n + 2] \in Nat
    OBVIOUS
  <2>1. n + 1 \in 1 .. Planes /\ (n + 1) + 1 = n + 2
    BY LayoutConstants
  <2>2. g[n + 1] \in Nat /\ SliceSizes[n + 1] * TotalSlices \in Nat
    BY <1>6, <2>1, LayoutConstants
  <2> QED
    BY <1>4, <2>1, <2>2
<1>7. Nat \subseteq S
  <2> HIDE DEF S
  <2> QED
    BY <1>5, <1>6, EveryNumber
<1>8. ASSUME NEW p \in 1 .. Planes PROVE g[p] \in Nat
  <2>1. p - 1 \in Nat /\ p - 1 < Planes /\ (p - 1) + 1 = p
    BY LayoutConstants
  <2> QED
    BY <1>7, <2>1
<1> QED
  BY <1>4, <1>8 DEF g

(* A plane ends before every later one begins.                             *)
LEMMA PlanesInOrder ==
    ASSUME NEW p \in 1 .. Planes, NEW q \in p + 1 .. Planes + 1
    PROVE  /\ PlanePayloadOffset[q] \in Nat
           /\ PlanePayloadOffset[p] + SliceSizes[p] * TotalSlices <= PlanePayloadOffset[q]
<1> DEFINE end == PlanePayloadOffset[p] + SliceSizes[p] * TotalSlices
           Q(n) == PlanePayloadOffset[p + 1 + n]
           S == {n \in Nat : p + 1 + n <= Planes + 1 => Q(n) \in Nat /\ end <= Q(n)}
<1>1. end \in Nat /\ end = PlanePayloadOffset[p + 1]
  BY PlaneOffsets, LayoutConstants
<1>2. 0 \in S
  <2>1. p + 1 + 0 = p + 1
    OBVIOUS
  <2> QED
    BY <1>1, <2>1
<1>3. ASSUME NEW n \in Nat, n \in S PROVE n + 1 \in S
  <2> SUFFICES ASSUME p + 1 + (n + 1) <= Planes + 1
               PROVE  Q(n + 1) \in Nat /\ end <= Q(n + 1)
    OBVIOUS
  <2> DEFINE r == p + 1 + n
  <2>1. r \in 1 .. Planes /\ p + 1 + (n + 1) = r + 1 /\ r <= Planes + 1
    BY LayoutConstants
  <2>2. PlanePayloadOffset[r + 1] = PlanePayloadOffset[r] + SliceSizes[r] * TotalSlices
    BY <2>1, PlaneOffsets
  <2>3. SliceSizes[r] * TotalSlices \in Nat /\ Q(n) \in Nat /\ end <= Q(n)
    BY <1>3, <2>1, LayoutConstants
  <2> HIDE DEF end
  <2> QED
    BY <1>1, <2>1, <2>2, <2>3
<1>4. Nat \subseteq S
  <2> HIDE DEF S
  <2> QED
    BY <1>2, <1>3, EveryNumber
<1>5. q - (p + 1) \in Nat /\ p + 1 + (q - (p + 1)) = q /\ q <= Planes + 1
  BY LayoutConstants
<1> QED
  BY <1>4, <1>5

(* The header lies in front of the planes, the planes inside the grain.    *)
LEMMA PlaneInside ==
    ASSUME NEW p \in 1 .. Planes
    PROVE  /\ PlanePayloadOffset[p] \in Nat /\ PayloadOffset <= PlanePayloadOffset[p]
           /\ GrainLength \in Nat \ {0}
           /\ PlanePayloadOffset[p] + SliceSizes[p] * TotalSlices <= GrainLength
<1>1. /\ GrainLength \in Nat
      /\ PlanePayloadOffset[p] + SliceSizes[p] * TotalSlices <= GrainLength
  BY PlanesInOrder, LayoutConstants DEF GrainLength
<1>2. PlanePayloadOffset[p] \in Nat /\ SliceSizes[p] * TotalSlices \in Nat
  BY PlaneOffsets, LayoutConstants
<1>3. PayloadOffset <= PlanePayloadOffset[p]
  <2>1. CASE p = 1
    BY <2>1, PlaneOffsets DEF PayloadOffset
  <2>2. CASE p # 1
    <3>1. 1 \in 1 .. Planes /\ p \in 1 + 1 .. Planes + 1
      BY <2>2, LayoutConstants
    <3>2. PlanePayloadOffset[1] + SliceSizes[1] * TotalSlices <= PlanePayloadOffset[p]
      BY <3>1, PlanesInOrder
    <3>3. SliceSizes[1] * TotalSlices \in Nat
      BY <3>1, LayoutConstants
    <3> QED
      BY <1>2, <3>2, <3>3, PlaneOffsets DEF PayloadOffset
  <2> QED
    BY <2>1, <2>2
<1> QED
  BY <1>1, <1>2, <1>3 DEF PayloadOffset

(* Where the cells of a slice lie.                                         *)
LEMMA CellIs ==
    ASSUME NEW p \in 1 .. Planes, NEW s \in 0 .. TotalSlices - 1, NEW c
    PROVE  c \in CellsOf(p, s) <=>
              /\ c \in Int
              /\ PlanePayloadOffset[p] + s * SliceSizes[p] <= c
              /\ c < PlanePayloadOffset[p] + (s + 1) * SliceSizes[p]
<1> DEFINE b == PlanePayloadOffset[p]
           z == SliceSizes[p]
           a == s * z
<1>1. b \in Nat /\ z \in Nat \ {0} /\ a \in Int /\ s \in Int /\ (s + 1) * z = a + z
  BY PlaneOffsets, LayoutConstants
<1>2. CellsOf(p, s) = b + a .. b + a + z - 1
  BY DEF CellsOf
<1> HIDE DEF a, b, z
<1>3. c \in CellsOf(p, s) <=> c \in Int /\ b + a <= c /\ c < b + (a + z)
  BY <1>1, <1>2
<1> QED
  BY <1>1, <1>3 DEF a, b, z

LEMMA CellInPlane ==
    ASSUME NEW p \in 1 .. Planes, NEW s \in 0 .. TotalSlices - 1, NEW c \in CellsOf(p, s)
    PROVE  /\ c \in Nat \ {0} /\ c # Header
           /\ PlanePayloadOffset[p] <= c
           /\ c < PlanePayloadOffset[p] + SliceSizes[p] * TotalSlices
           /\ c \in 0 .. GrainLength - 1
<1> DEFINE b == PlanePayloadOffset[p]
           z == SliceSizes[p]
<1>1. b \in Nat \ {0} /\ z \in Nat \ {0} /\ s \in Nat /\ s + 1 <= TotalSlices /\ TotalSlices \in Nat
  BY PlaneInside, LayoutConstants DEF PayloadOffset
<1>2. c \in Int /\ b + s * z <= c /\ c < b + (s + 1) * z
  BY CellIs
<1>3. GrainLength \in Nat /\ b + z * TotalSlices <= GrainLength
  BY PlaneInside
<1> HIDE DEF b, z
<1>4. s * z \in Nat /\ (s + 1) * z \in Nat /\ (s + 1) * z <= z * TotalSlices /\ z * TotalSlices \in Nat
  BY <1>1
<1>5. b <= c /\ c < b + z * TotalSlices
  BY <1>1, <1>2, <1>4
<1> QED
  BY <1>1, <1>2, <1>3, <1>4, <1>5 DEF b, z, Header

(* No cell belongs to two slices.                                          *)
LEMMA OneSlice ==
    ASSUME NEW p \in 1 .. Planes, NEW s \in 0 .. TotalSlices - 1,
           NEW q \in 1 .. Planes, NEW r \in 0 .. TotalSlices - 1,
           NEW c, c \in CellsOf(p, s), c \in CellsOf(q, r)
    PROVE  p = q /\ s = r
<1>1. ASSUME NEW x \in 1 .. Planes, NEW y \in 1 .. Planes, x < y,
             PlanePayloadOffset[y] <= c,
             c < PlanePayloadOffset[x] + SliceSizes[x] * TotalSlices
      PROVE  FALSE
  <2>1. y \in x + 1 .. Planes + 1
    BY <1>1, LayoutConstants
  <2>2. PlanePayloadOffset[x] + SliceSizes[x] * TotalSlices <= PlanePayloadOffset[y]
    BY <2>1, PlanesInOrder
  <2>3. c \in Int
    BY CellInPlane
  <2>4. /\ PlanePayloadOffset[x] + SliceSizes[x] * TotalSlices \in Int
        /\ PlanePayloadOffset[y] \in Int
    BY PlaneOffsets, LayoutConstants
  <2> QED
    BY <1>1, <2>2, <2>3, <2>4
<1>2. p = q
  <2>1. /\ PlanePayloadOffset[p] <= c /\ c < PlanePayloadOffset[p] + SliceSizes[p] * TotalSlices
        /\ PlanePayloadOffset[q] <= c /\ c < PlanePayloadOffset[q] + SliceSizes[q] * TotalSlices
    BY CellInPlane
  <2>2. ~(p < q) /\ ~(q < p)
    BY <1>1, <2>1
  <2> QED
    BY <2>2
<1> DEFINE b == PlanePayloadOffset[p]
           z == SliceSizes[p]
<1>3. c \in Int /\ b + s * z <= c /\ c < b + (s + 1) * z /\ b + r * z <= c /\ c < b + (r + 1) * z
  BY <1>2, CellIs
<1>4. b \in Nat /\ z \in Nat \ {0} /\ s \in Nat /\ r \in Nat
  BY PlaneOffsets, LayoutConstants
<1> HIDE DEF b, z
<1>5. ASSUME NEW x \in Nat, NEW y \in Nat, b + x * z <= c, c < b + (y + 1) * z PROVE x <= y
  <2>1. x * z \in Nat /\ (y + 1) * z \in Nat
    BY <1>4
  <2>2. x * z < (y + 1) * z
    BY <1>3, <1>4, <1>5, <2>1
  <2>3. ~(y + 1 <= x)
    BY <1>4, <2>2
  <2> QED
    BY <2>3
<1>6. s <= r /\ r <= s
  BY <1>3, <1>4, <1>5
<1> QED
  BY <1>2, <1>4, <1>6

LEMMA SliceOfCellIs ==
    ASSUME NEW p \in 1 .. Planes, NEW s \in 0 .. TotalSlices - 1, NEW c \in CellsOf(p, s)
    PROVE  SliceOfCell(c) = s
<1>1. \A r \in 0 .. TotalSlices - 1 :
         (\E q \in 1 .. Planes : c \in CellsOf(q, r)) <=> r = s
  BY OneSlice
<1> QED
  BY <1>1 DEF SliceOfCell

-----------------------------------------------------------------------------
(* What the writes of a range of slices cover.                             *)

GrainWrite == [offset : Nat, size : Nat, imm : BOOLEAN]

\* The cells a write covers.
Reach(w) == w.offset .. w.offset + w.size - 1

(* The write of one plane stays in the plane, but for the header.          *)
LEMMA PlaneWriteIs ==
    ASSUME NEW p \in 1 .. Planes, NEW from \in 0 .. TotalSlices, NEW end \in from .. TotalSlices
    PROVE  LET w == PlaneWrite(p, from, end)
           IN  /\ w \in GrainWrite /\ w.offset + w.size <= GrainLength
               /\ w.imm = (p = Planes)
               /\ Header \in Reach(w) <=> p = 1 /\ from = 0
               /\ \A c \in Nat \ {0} :
                     c \in Reach(w) <=> /\ PlanePayloadOffset[p] + from * SliceSizes[p] <= c
                                        /\ c < PlanePayloadOffset[p] + end * SliceSizes[p]
<1> DEFINE b == PlanePayloadOffset[p]
           z == SliceSizes[p]
           A == from * z
           E == end * z
           w == PlaneWrite(p, from, end)
<1>1. /\ b \in Nat \ {0} /\ z \in Nat \ {0} /\ from \in Nat /\ end \in Nat /\ from <= end
      /\ end <= TotalSlices /\ GrainLength \in Nat /\ TotalSlices \in Nat
      /\ b + z * TotalSlices <= GrainLength
  BY PlaneInside, LayoutConstants DEF PayloadOffset
<1>2. p = 1 => b = 1
  BY PlaneOffsets DEF PayloadOffset
<1>3. /\ A \in Nat /\ E \in Nat /\ A <= E /\ (end - from) * z = E - A /\ E <= z * TotalSlices
      /\ z * TotalSlices \in Nat
  <2> HIDE DEF b, z
  <2> QED
    BY <1>1
<1>4. from = 0 => A = 0
  BY <1>1
<1>5. CASE p = 1 /\ from = 0
  <2>1. w = [offset |-> 0 + A, size |-> (E - A) + 1, imm |-> p = Planes]
    BY <1>3, <1>5 DEF PlaneWrite, PayloadOffset
  <2> HIDE DEF w, b, z, A, E
  <2>2. w = [offset |-> 0, size |-> E + 1, imm |-> p = Planes]
    BY <1>3, <1>4, <1>5, <2>1
  <2>3. /\ w.offset = 0 /\ w.size = E + 1 /\ w.imm = (p = Planes)
        /\ w \in GrainWrite /\ Reach(w) = 0 .. E
    BY <1>3, <2>2 DEF GrainWrite, Reach
  <2>4. 0 + (E + 1) <= GrainLength
    BY <1>1, <1>2, <1>3, <1>5
  <2>5. \A c \in Nat \ {0} : c \in Reach(w) <=> b + A <= c /\ c < b + E
    BY <1>2, <1>3, <1>4, <1>5, <2>3
  <2>6. Header \in Reach(w)
    BY <1>3, <2>3 DEF Header
  <2> QED
    BY <1>5, <2>3, <2>4, <2>5, <2>6 DEF w, b, z, A, E
<1>6. CASE ~(p = 1 /\ from = 0)
  <2>1. w = [offset |-> b + A, size |-> (E - A) + 0, imm |-> p = Planes]
    BY <1>3, <1>6 DEF PlaneWrite
  <2> HIDE DEF w, b, z, A, E
  <2>2. /\ w.offset = b + A /\ w.size = E - A /\ w.imm = (p = Planes)
    BY <1>3, <2>1
  <2>3. w \in GrainWrite /\ Reach(w) = b + A .. b + E - 1
    BY <1>1, <1>3, <2>1, <2>2 DEF GrainWrite, Reach
  <2>4. (b + A) + (E - A) <= GrainLength
    BY <1>1, <1>3
  <2>5. \A c \in Nat \ {0} : c \in Reach(w) <=> b + A <= c /\ c < b + E
    BY <1>1, <1>3, <2>3
  <2>6. Header \notin Reach(w)
    BY <1>1, <1>3, <2>3 DEF Header
  <2> QED
    BY <1>6, <2>2, <2>3, <2>4, <2>5, <2>6 DEF w, b, z, A, E
<1> QED
  BY <1>5, <1>6

(* In terms of slices.                                                     *)
LEMMA PlaneWriteCovers ==
    ASSUME NEW p \in 1 .. Planes, NEW from \in 0 .. TotalSlices, NEW end \in from .. TotalSlices,
           NEW q \in 1 .. Planes, NEW s \in 0 .. TotalSlices - 1, NEW c \in CellsOf(q, s)
    PROVE  c \in Reach(PlaneWrite(p, from, end)) <=> q = p /\ from <= s /\ s < end
<1> DEFINE b == PlanePayloadOffset[p]
           z == SliceSizes[p]
<1>1. /\ b \in Nat /\ z \in Nat \ {0} /\ from \in Nat /\ end \in Nat /\ s \in Nat /\ c \in Nat \ {0}
      /\ end <= TotalSlices /\ TotalSlices \in Nat
  BY CellInPlane, PlaneInside, LayoutConstants
<1>2. c \in Reach(PlaneWrite(p, from, end)) <=> b + from * z <= c /\ c < b + end * z
  BY <1>1, PlaneWriteIs
<1>3. CASE q = p
  <2>1. b + s * z <= c /\ c < b + (s + 1) * z
    BY <1>3, CellIs
  <2> HIDE DEF b, z
  <2>2. from * z \in Nat /\ end * z \in Nat /\ s * z \in Nat /\ (s + 1) * z \in Nat /\ (s + 1) * z = s * z + z
    BY <1>1
  <2>3. from <= s => b + from * z <= c
    <3>1. from <= s => from * z <= s * z
      BY <1>1
    <3> QED
      BY <1>1, <2>1, <2>2, <3>1
  <2>4. ~(from <= s) => ~(b + from * z <= c)
    <3>1. ~(from <= s) => (s + 1) * z <= from * z
      BY <1>1
    <3> QED
      BY <1>1, <2>1, <2>2, <3>1
  <2>5. s < end => c < b + end * z
    <3>1. s < end => (s + 1) * z <= end * z
      BY <1>1
    <3> QED
      BY <1>1, <2>1, <2>2, <3>1
  <2>6. ~(s < end) => ~(c < b + end * z)
    <3>1. ~(s < end) => end * z <= s * z
      BY <1>1
    <3> QED
      BY <1>1, <2>1, <2>2, <3>1
  <2> QED
    BY <1>2, <1>3, <2>3, <2>4, <2>5, <2>6
<1>4. CASE q # p
  <2>1. ASSUME b + from * z <= c, c < b + end * z PROVE FALSE
    <3>1. from * z \in Nat /\ end * z \in Nat /\ end * z <= z * TotalSlices /\ z * TotalSlices \in Nat
      BY <1>1
    <3>2. b <= c /\ c < b + z * TotalSlices
      BY <1>1, <2>1, <3>1
    <3>3. /\ PlanePayloadOffset[q] <= c /\ c < PlanePayloadOffset[q] + SliceSizes[q] * TotalSlices
          /\ PlanePayloadOffset[q] \in Nat /\ SliceSizes[q] * TotalSlices \in Nat
      BY CellInPlane, PlaneInside, LayoutConstants
    <3>4. CASE p < q
      <4>1. q \in p + 1 .. Planes + 1
        BY <3>4, LayoutConstants
      <4> QED
        BY <1>1, <3>2, <3>3, <4>1, PlanesInOrder
    <3>5. CASE q < p
      <4>1. p \in q + 1 .. Planes + 1
        BY <3>5, LayoutConstants
      <4> QED
        BY <1>1, <3>2, <3>3, <4>1, PlanesInOrder
    <3> QED
      BY <1>4, <3>4, <3>5
  <2> QED
    BY <1>2, <1>4, <2>1
<1> QED
  BY <1>3, <1>4

(* The writes of a transfer: they stay in the grain, cover the slices of   *)
(* the range and no others, the first one the header if it begins with     *)
(* slice 0, and the last one carries immediate data.                       *)
LEMMA GrainWritesAre ==
    ASSUME NEW from \in 0 .. TotalSlices, NEW end \in from .. TotalSlices
    PROVE  LET ws == GrainWrites(from, end)
           IN  /\ ws \in Seq(GrainWrite) /\ Len(ws) \in Nat \ {0} /\ DOMAIN ws = 1 .. Len(ws)
               /\ \A k \in 1 .. Len(ws) :
                     /\ ws[k] \in GrainWrite /\ ws[k].offset + ws[k].size <= GrainLength
                     /\ ws[k].imm = (k = Len(ws))
                     /\ Header \in Reach(ws[k]) => k = 1 /\ from = 0
                     /\ \A q \in 1 .. Planes : \A s \in 0 .. TotalSlices - 1 : \A c \in CellsOf(q, s) :
                           c \in Reach(ws[k]) => from <= s /\ s < end
               /\ from = 0 => Header \in Reach(ws[1])
               /\ \A q \in 1 .. Planes : \A s \in from .. end - 1 : \A c \in CellsOf(q, s) :
                     \E k \in 1 .. Len(ws) : c \in Reach(ws[k])
<1> DEFINE ws == GrainWrites(from, end)
           whole == [offset |-> 0, size |-> GrainLength, imm |-> TRUE]
<1>1. /\ TotalSlices \in Nat \ {0} /\ Planes \in Nat \ {0} /\ from \in Nat /\ end \in Nat
      /\ from <= end /\ end <= TotalSlices
  BY LayoutConstants
<1>2. GrainLength \in Nat \ {0}
  BY <1>1, PlaneInside
<1>3. CASE from = 0 /\ end = TotalSlices
  <2>1. ws = <<whole>>
    BY <1>3 DEF GrainWrites
  <2>2. whole \in GrainWrite /\ whole.offset = 0 /\ whole.size = GrainLength /\ whole.imm = TRUE
    BY <1>2 DEF GrainWrite
  <2>3. Reach(whole) = 0 .. GrainLength - 1
    BY <1>2, <2>2 DEF Reach
  <2> HIDE DEF whole, ws
  <2>4. ws \in Seq(GrainWrite) /\ Len(ws) = 1 /\ DOMAIN ws = 1 .. 1 /\ ws[1] = whole
    BY <2>1, <2>2
  <2>5. \A q \in 1 .. Planes : \A s \in 0 .. TotalSlices - 1 : \A c \in CellsOf(q, s) :
           c \in Reach(whole)
    BY <2>3, CellInPlane
  <2>6. Header \in Reach(whole)
    BY <1>2, <2>3 DEF Header
  <2>7. \A k \in 1 .. 1 : k = 1
    OBVIOUS
  <2>8. 0 + GrainLength <= GrainLength
    BY <1>2
  <2>9. \A q \in 1 .. Planes : \A s \in from .. end - 1 : \A c \in CellsOf(q, s) :
           \E k \in 1 .. 1 : c \in Reach(ws[k])
    BY <1>1, <1>3, <2>4, <2>5
  <2>10. \A s \in 0 .. TotalSlices - 1 : from <= s /\ s < end
    BY <1>1, <1>3
  <2>11. ASSUME NEW k \in 1 .. 1
         PROVE  /\ ws[k] \in GrainWrite /\ ws[k].offset + ws[k].size <= GrainLength
                /\ ws[k].imm = (k = 1)
                /\ Header \in Reach(ws[k]) => k = 1 /\ from = 0
                /\ \A q \in 1 .. Planes : \A s \in 0 .. TotalSlices - 1 : \A c \in CellsOf(q, s) :
                      c \in Reach(ws[k]) => from <= s /\ s < end
    BY <1>3, <2>2, <2>4, <2>7, <2>8, <2>10
  <2>12. Header \in Reach(ws[1])
    BY <2>4, <2>6
  <2> QED
    BY <2>4, <2>9, <2>11, <2>12 DEF ws
<1>4. CASE ~(from = 0 /\ end = TotalSlices)
  <2>1. ws = [p \in 1 .. Planes |-> PlaneWrite(p, from, end)]
    BY <1>4 DEF GrainWrites
  <2> HIDE DEF ws
  <2>2. \A k \in 1 .. Planes : ws[k] = PlaneWrite(k, from, end) /\ ws[k] \in GrainWrite
    BY <2>1, PlaneWriteIs
  <2>3. ws \in Seq(GrainWrite) /\ Len(ws) = Planes /\ DOMAIN ws = 1 .. Planes
    BY <1>1, <2>1, <2>2
  <2>4. ASSUME NEW k \in 1 .. Planes
        PROVE  /\ ws[k] \in GrainWrite /\ ws[k].offset + ws[k].size <= GrainLength
               /\ ws[k].imm = (k = Planes)
               /\ Header \in Reach(ws[k]) <=> k = 1 /\ from = 0
    BY <2>2, PlaneWriteIs
  <2>5. ASSUME NEW k \in 1 .. Planes, NEW q \in 1 .. Planes, NEW s \in 0 .. TotalSlices - 1,
               NEW c \in CellsOf(q, s)
        PROVE  c \in Reach(ws[k]) <=> q = k /\ from <= s /\ s < end
    BY <2>2, PlaneWriteCovers
  <2>6. ASSUME NEW q \in 1 .. Planes, NEW s \in from .. end - 1, NEW c \in CellsOf(q, s)
        PROVE  c \in Reach(ws[q])
    <3>1. s \in 0 .. TotalSlices - 1 /\ from <= s /\ s < end
      BY <1>1
    <3> QED
      BY <2>5, <3>1
  <2>7. 1 \in 1 .. Planes
    BY <1>1
  <2> QED
    BY <1>1, <2>3, <2>4, <2>5, <2>6, <2>7 DEF ws
<1> QED
  BY <1>3, <1>4

-----------------------------------------------------------------------------
(* The types of the variables, in detail.                                  *)

\* The writes that samples up to MaxSample can need.
SampleWrite ==
    UNION {{SampleWrites(r[1], r[2])[k] : k \in DOMAIN SampleWrites(r[1], r[2])} :
             r \in (0 .. MaxSample) \X (1 .. MaxBatch)}

SampleRange == [index : 0 .. MaxSample, count : Nat]
GrainNotice == [slot : 0 .. TargetCount - 1, slice : 0 .. TotalSlices]

GrainEntry ==
    [token : 1 .. MaxTokens, first : 1 .. MaxGrain, slot : 0 .. TargetCount - 1,
     write : {w \in GrainWrite : w.offset + w.size <= GrainLength}, imm : GrainNotice]

SampleEntry ==
    [token : 1 .. MaxTokens, first : 0 .. MaxSample, slot : 0 .. EntryCount - 1,
     write : SampleWrite, imm : SampleRange]

Entry == IF format = "grains" THEN GrainEntry ELSE SampleEntry

Notice ==
    IF format = "grains"
    THEN [slot : 0 .. TargetCount - 1, imm : GrainNotice, first : 1 .. MaxGrain]
    ELSE [slot : 0 .. EntryCount - 1, imm : SampleRange, first : 0 .. MaxSample]

GrainHeader == [index : 0 .. MaxGrain, valid : 0 .. TotalSlices, invalid : BOOLEAN]

SourceTyped ==
    /\ format \in Formats
    /\ produced \in [newest : Nat, valid : 1 .. TotalSlices, invalid : SUBSET Nat]
    /\ produced.newest <= MaxIndex /\ produced.invalid \subseteq 1 .. produced.newest
    /\ produced.newest \in produced.invalid => produced.valid = TotalSlices
    /\ at \in Nat /\ at <= produced.newest + 1 /\ (format = "grains" => at > 0)
    /\ start \in 0 .. TotalSlices - 1
    /\ start > 0 => at \in 1 .. produced.newest /\ at \notin produced.invalid
    /\ format = "samples" => start = 0

TargetsTyped ==
    /\ st \in [Targets -> {"Absent", "Idle", "Activated"}]
    /\ tokens \in 0 .. MaxTokens /\ token \in [Targets -> 0 .. tokens]
    /\ \A t \in Targets : st[t] # "Absent" => token[t] > 0
    /\ pending \in [Targets -> 0 .. 2 ^ PendingBits - 1]
    /\ bounce \in [Targets -> [entry   : 0 .. EntryCount - 1,
                               headers : [0 .. EntryCount - 1 -> SampleRange]]]

WireTyped ==
    /\ wire \in [Targets -> Seq(Entry)] /\ \A t \in Targets : Len(wire[t]) <= MaxWire
    /\ cq \in Seq([token : 1 .. MaxTokens, ok : BOOLEAN])
    /\ notices \in [Targets -> Seq(Notice)]

GrainsTyped ==
    format = "grains" =>
       /\ mem = [t \in Targets |-> [k \in 0 .. TargetCount - 1 |-> mem[t][k]]]
       /\ \A t \in Targets : \A k \in 0 .. TargetCount - 1 :
             /\ mem[t][k] = [c \in 0 .. GrainLength - 1 |-> mem[t][k][c]]
             /\ mem[t][k][Header] \in GrainHeader

EntriesTyped ==
    format = "samples" =>
       /\ mem = [t \in Targets |-> [e \in 0 .. EntryCount - 1 |-> mem[t][e]]]
       /\ \A t \in Targets : \A e \in 0 .. EntryCount - 1 : mem[t][e].header \in SampleRange

ReadersTyped ==
    /\ reported \in [Targets -> 0 .. MaxIndex] /\ head \in [Targets -> 0 .. MaxIndex]
    /\ lost \in BOOLEAN /\ jammed \in BOOLEAN

MemoryTyped == GrainsTyped /\ EntriesTyped /\ ReadersTyped

TypeInv == SourceTyped /\ TargetsTyped /\ WireTyped /\ MemoryTyped

(* The sizes.                                                              *)
LEMMA Sizes ==
    /\ TargetCount \in Nat /\ TargetCount > 1 /\ EntryCount \in Nat \ {0}
    /\ MaxGrain \in Nat /\ MaxSample \in Nat /\ MaxTokens \in Nat /\ MaxWire \in Nat
    /\ MaxBatch \in Nat \ {0} /\ Formats \subseteq {"grains", "samples"}
    /\ 2 ^ PendingBits \in Nat /\ MaxWire < 2 ^ PendingBits
    /\ IsFiniteSet(Targets)
<1>1. EntryCount \in Nat \ {0}
  <2>1. TargetLength \in Nat \ {0} /\ MaxBatch \in Nat \ {0} /\ MaxBatch < TargetLength
    BY SampleAssumption
  <2>2. TargetLength + MaxBatch - 1 >= MaxBatch /\ TargetLength + MaxBatch - 1 \in Nat
    BY <2>1
  <2> DEFINE a == TargetLength + MaxBatch - 1
             m == MaxBatch
  <2> HIDE DEF a, m
  <2>3. a \in Nat /\ m \in Nat /\ m > 0 /\ a >= m
    BY <2>1, <2>2 DEF a, m
  <2>4. a \div m \in Nat /\ a \div m >= 1
    BY <2>3
  <2> QED
    BY <2>4 DEF EntryCount, a, m
<1> QED
  BY <1>1, RDMAssumption, CounterAssumption, SampleAssumption

(* The writes of a range of samples.                                       *)
LEMMA SampleWritesAre ==
    ASSUME NEW i \in 0 .. MaxSample, NEW c \in 1 .. MaxBatch
    PROVE  LET ws == SampleWrites(i, c)
           IN  ws \in Seq(SampleWrite) /\ Len(ws) \in Nat /\ DOMAIN ws = 1 .. Len(ws)
<1> DEFINE f == Fragments(i, c, SourceLength)
           pieces == Pieces(i, c, SourceLength)
           total == Len(pieces) + 1
           writes == (total + IovLimit - 1) \div IovLimit
           ws == SampleWrites(i, c)
<1>1. Channels \in Nat \ {0} /\ IovLimit \in Nat \ {0}
  BY SampleAssumption
<1>2. Len(f) \in Nat
  BY DEF Fragments
<1>3. Channels * Len(f) \in Nat
  BY <1>1, <1>2
<1>4. Len(pieces) \in Nat
  BY <1>3 DEF Pieces
<1>5. total + IovLimit - 1 \in Nat
  BY <1>1, <1>4
<1>6. writes \in Nat
  <2> DEFINE a == total + IovLimit - 1
             m == IovLimit
  <2> HIDE DEF a, m
  <2>1. a \in Nat /\ m \in Nat /\ m > 0
    BY <1>1, <1>5 DEF a, m
  <2>2. a \div m \in Nat
    BY <2>1
  <2> QED
    BY <2>2 DEF a, m
<1>7. ws = [k \in 1 .. writes |-> ws[k]]
  BY DEF SampleWrites
<1> HIDE DEF writes, ws
<1>8. DOMAIN ws = 1 .. writes
  BY <1>7
<1>9. \A k \in 1 .. writes : ws[k] \in SampleWrite
  <2> DEFINE W(r) == {SampleWrites(r[1], r[2])[k] : k \in DOMAIN SampleWrites(r[1], r[2])}
  <2>1. <<i, c>> \in (0 .. MaxSample) \X (1 .. MaxBatch)
    OBVIOUS
  <2>2. \A k \in DOMAIN ws : ws[k] \in W(<<i, c>>)
    BY DEF ws
  <2>3. SampleWrite = UNION {W(r) : r \in (0 .. MaxSample) \X (1 .. MaxBatch)}
    BY DEF SampleWrite
  <2> HIDE DEF W
  <2> QED
    BY <1>8, <2>1, <2>2, <2>3
<1>10. ws \in Seq(SampleWrite)
  BY <1>6, <1>7, <1>9
<1> QED
  BY <1>6, <1>8, <1>10 DEF ws

(* What a target gets of the writes that are posted.                       *)
LEMMA Shares ==
    ASSUME TypeInv, NEW each \in Nat, NEW n \in Nat
    PROVE  /\ Cardinality(Active) \in Nat
           /\ \A t \in Targets : Share(t, each, n) \in 0 .. each
           /\ \A t \in Targets \ Active : Share(t, each, n) = 0
           /\ n = each * Cardinality(Active) => \A t \in Active : Share(t, each, n) = each
<1>1. Active \subseteq Targets /\ IsFiniteSet(Active) /\ Cardinality(Active) \in Nat
  <2>1. Active \in SUBSET Targets
    BY DEF Active
  <2>2. IsFiniteSet(Active)
    BY <2>1, Sizes, FS_Subset
  <2> QED
    BY <2>1, <2>2, FS_CardinalityType
<1>2. ASSUME NEW t \in Targets
      PROVE  /\ IsFiniteSet(Before(t)) /\ Cardinality(Before(t)) \in Nat
             /\ t \in Active => Cardinality(Before(t)) + 1 <= Cardinality(Active)
  <2>1. Before(t) \in SUBSET Active
    BY DEF Before
  <2>2. IsFiniteSet(Before(t))
    BY <1>1, <2>1, FS_Subset
  <2>3. Cardinality(Before(t)) \in Nat
    BY <2>2, FS_CardinalityType
  <2>4. ASSUME t \in Active PROVE Cardinality(Before(t)) + 1 <= Cardinality(Active)
    <3>1. t \notin Before(t)
      <4>1. token[t] \in Int
        BY DEF TypeInv, TargetsTyped
      <4> QED
        BY <4>1 DEF Before
    <3>2. Before(t) \cup {t} \subseteq Active
      BY <2>1, <2>4
    <3>3. Cardinality(Before(t) \cup {t}) = Cardinality(Before(t)) + 1
      BY <2>2, <3>1, FS_AddElement
    <3>4. Cardinality(Before(t) \cup {t}) <= Cardinality(Active)
      BY <1>1, <3>2, FS_Subset
    <3> QED
      BY <3>3, <3>4
  <2> QED
    BY <2>2, <2>3, <2>4
<1>3. ASSUME NEW t \in Targets
      PROVE  /\ Share(t, each, n) \in 0 .. each
             /\ t \notin Active => Share(t, each, n) = 0
             /\ n = each * Cardinality(Active) /\ t \in Active => Share(t, each, n) = each
  <2> DEFINE b == Cardinality(Before(t))
             a == Cardinality(Active)
             left == n - each * b
  <2>1. a \in Nat /\ b \in Nat /\ left \in Int /\ (t \in Active => b + 1 <= a)
    BY <1>1, <1>2
  <2>2. Share(t, each, n) =
          IF t \notin Active \/ left <= 0 THEN 0 ELSE IF left >= each THEN each ELSE left
    BY DEF Share
  <2>3. n = each * a /\ t \in Active => left >= each
    <3> HIDE DEF a, b
    <3>1. each * (b + 1) = each * b + each /\ each * b \in Nat
      BY <2>1
    <3>2. t \in Active => each * (b + 1) <= each * a
      BY <2>1
    <3> QED
      BY <2>1, <3>1, <3>2
  <2> HIDE DEF left, a, b
  <2> QED
    BY <2>1, <2>2, <2>3 DEF a
<1> QED
  BY <1>1, <1>3

-----------------------------------------------------------------------------
(* What a transfer posts.                                                  *)

\* The first n of the writes P are posted, each of them for every target that is
\* activated, with the token of the target.
Posted(P, each, n) ==
    /\ each \in Nat /\ n \in Nat
    /\ wire' = [t \in Targets |-> wire[t] \o SubSeq(P[t], 1, Share(t, each, n))]
    /\ \A t \in Active : /\ P[t] \in Seq(Entry) /\ Len(P[t]) = each
                         /\ Len(wire[t]) + Len(cq) + each <= MaxWire
                         /\ \A k \in 1 .. each : P[t][k].token = token[t]

(* Posting: every activated target gets its share behind what is under     *)
(* way, the others get nothing.                                            *)
LEMMA Posting ==
    ASSUME TypeInv, NEW each, NEW n, NEW P, Posted(P, each, n)
    PROVE  /\ wire' \in [Targets -> Seq(Entry)]
           /\ \A t \in Targets :
                 /\ Len(wire'[t]) <= MaxWire /\ Len(wire[t]) \in Nat
                 /\ Len(wire'[t]) = Len(wire[t]) + Share(t, each, n)
                 /\ DOMAIN wire[t] = 1 .. Len(wire[t])
                 /\ DOMAIN wire'[t] = 1 .. Len(wire[t]) + Share(t, each, n)
                 /\ \A k \in 1 .. Len(wire[t]) : wire'[t][k] = wire[t][k]
                 /\ \A k \in 1 .. Share(t, each, n) : wire'[t][Len(wire[t]) + k] = P[t][k]
<1> USE DEF Posted
<1> SUFFICES ASSUME NEW t \in Targets
             PROVE  /\ wire'[t] \in Seq(Entry)
                    /\ Len(wire'[t]) <= MaxWire /\ Len(wire[t]) \in Nat
                    /\ Len(wire'[t]) = Len(wire[t]) + Share(t, each, n)
                    /\ DOMAIN wire[t] = 1 .. Len(wire[t])
                    /\ DOMAIN wire'[t] = 1 .. Len(wire[t]) + Share(t, each, n)
                    /\ \A k \in 1 .. Len(wire[t]) : wire'[t][k] = wire[t][k]
                    /\ \A k \in 1 .. Share(t, each, n) : wire'[t][Len(wire[t]) + k] = P[t][k]
  OBVIOUS
<1>1. /\ wire[t] \in Seq(Entry) /\ Len(wire[t]) <= MaxWire /\ Len(wire[t]) \in Nat
      /\ DOMAIN wire[t] = 1 .. Len(wire[t]) /\ Len(cq) \in Nat
  BY DEF TypeInv, WireTyped
<1>2. wire'[t] = wire[t] \o SubSeq(P[t], 1, Share(t, each, n))
  OBVIOUS
<1>3. CASE t \in Active
  <2>1. Share(t, each, n) \in 0 .. Len(P[t]) /\ P[t] \in Seq(Entry) /\ Len(P[t]) = each
    BY <1>3, Shares
  <2>2. /\ wire'[t] \in Seq(Entry) /\ Len(wire'[t]) = Len(wire[t]) + Share(t, each, n)
        /\ DOMAIN wire'[t] = 1 .. Len(wire[t]) + Share(t, each, n)
        /\ \A k \in 1 .. Len(wire[t]) : wire'[t][k] = wire[t][k]
        /\ \A k \in 1 .. Share(t, each, n) : wire'[t][Len(wire[t]) + k] = P[t][k]
    BY <1>1, <1>2, <2>1, Extended
  <2>3. Len(wire[t]) + Share(t, each, n) <= MaxWire
    BY <1>1, <1>3, <2>1, Sizes
  <2> QED
    BY <1>1, <1>2, <2>2, <2>3
<1>4. CASE t \notin Active
  <2>1. Share(t, each, n) = 0
    BY <1>4, Shares
  <2>2. wire'[t] = wire[t]
    BY <1>1, <1>2, <2>1, Unextended
  <2> QED
    BY <1>1, <2>1, <2>2
<1> QED
  BY <1>3, <1>4

\* The slices a transfer of a grain is for, and what it posts to a target.
GrainEnd == IF at < produced.newest THEN TotalSlices ELSE produced.valid
From == IF at \in produced.invalid THEN 0 ELSE start
Upto == IF at \in produced.invalid THEN 0 ELSE GrainEnd

GrainPosts(t) ==
    LET ws   == GrainWrites(From, Upto)
        slot == SlotIn(at, TargetCount)
    IN  [k \in DOMAIN ws |->
            [token |-> token[t], first |-> at, write |-> ws[k], slot |-> slot,
             imm |-> GrainImm(slot, Upto)]]

LEMMA GrainRange ==
    ASSUME TypeInv, format = "grains", at <= produced.newest, start < GrainEnd \/ at \in produced.invalid
    PROVE  /\ From \in 0 .. TotalSlices /\ Upto \in From .. TotalSlices
           /\ GrainEnd \in 1 .. TotalSlices /\ at \in 1 .. MaxGrain
           /\ From = start
           /\ at \in produced.invalid => GrainEnd = TotalSlices
<1>1. /\ produced.valid \in 1 .. TotalSlices /\ start \in 0 .. TotalSlices - 1 /\ at \in Nat /\ at > 0
      /\ produced.newest \in Nat /\ produced.newest <= MaxGrain
      /\ start > 0 => at \notin produced.invalid
      /\ produced.newest \in produced.invalid => produced.valid = TotalSlices
  BY DEF TypeInv, SourceTyped, MaxIndex
<1>2. GrainEnd \in 1 .. TotalSlices /\ (at \in produced.invalid => GrainEnd = TotalSlices)
  BY <1>1, LayoutConstants DEF GrainEnd
<1>3. at \in 1 .. MaxGrain
  BY <1>1, Sizes
<1>4. From = start
  BY <1>1 DEF From
<1>5. From \in 0 .. TotalSlices /\ Upto \in From .. TotalSlices
  BY <1>1, <1>2, LayoutConstants DEF From, Upto
<1> QED
  BY <1>2, <1>3, <1>4, <1>5

LEMMA GrainPostsAre ==
    ASSUME TypeInv, format = "grains", at <= produced.newest, start < GrainEnd \/ at \in produced.invalid,
           NEW t \in Active
    PROVE  LET ws == GrainWrites(From, Upto)
               P  == GrainPosts(t)
           IN  /\ P \in Seq(Entry) /\ Len(P) = Len(ws) /\ Len(ws) \in Nat \ {0}
               /\ \A k \in 1 .. Len(ws) :
                     /\ P[k] = [token |-> token[t], first |-> at, write |-> ws[k],
                                slot |-> SlotIn(at, TargetCount),
                                imm |-> GrainImm(SlotIn(at, TargetCount), Upto)]
                     /\ P[k] \in Entry
<1> DEFINE ws == GrainWrites(From, Upto)
           slot == SlotIn(at, TargetCount)
           P == GrainPosts(t)
<1>1. /\ From \in 0 .. TotalSlices /\ Upto \in From .. TotalSlices /\ at \in 1 .. MaxGrain
      /\ at \in Nat
  BY GrainRange, Sizes
<1>2. /\ ws \in Seq(GrainWrite) /\ Len(ws) \in Nat \ {0} /\ DOMAIN ws = 1 .. Len(ws)
      /\ \A k \in 1 .. Len(ws) : ws[k] \in GrainWrite /\ ws[k].offset + ws[k].size <= GrainLength
  BY <1>1, GrainWritesAre
<1>3. slot \in 0 .. TargetCount - 1
  BY <1>1, Sizes, Remainder DEF SlotIn
<1>4. token[t] \in 1 .. MaxTokens
  <2>1. t \in Targets /\ st[t] = "Activated"
    BY DEF Active
  <2>2. token[t] \in 0 .. tokens /\ tokens \in 0 .. MaxTokens /\ token[t] > 0
    BY <2>1 DEF TypeInv, TargetsTyped
  <2> QED
    BY <2>2, Sizes
<1>5. GrainImm(slot, Upto) \in GrainNotice
  <2>1. slot \in Nat /\ Upto \in Nat
    BY <1>1, <1>3, LayoutConstants, Sizes
  <2>2. slot % 65536 \in 0 .. slot /\ Upto % 65536 \in 0 .. Upto
    BY <2>1, RemainderIsLess
  <2>3. slot % 65536 \in 0 .. TargetCount - 1 /\ Upto % 65536 \in 0 .. TotalSlices
    BY <1>1, <1>3, <2>1, <2>2, LayoutConstants, Sizes
  <2> QED
    BY <2>3 DEF GrainImm, GrainNotice
<1> HIDE DEF ws, slot
<1>6. P = [k \in 1 .. Len(ws) |->
             [token |-> token[t], first |-> at, write |-> ws[k], slot |-> slot,
              imm |-> GrainImm(slot, Upto)]]
  BY <1>2 DEF GrainPosts, ws, slot
<1>7. \A k \in 1 .. Len(ws) : P[k] \in Entry
  BY <1>1, <1>2, <1>3, <1>4, <1>5, <1>6 DEF Entry, GrainEntry
<1> HIDE DEF P
<1>8. P \in Seq(Entry) /\ Len(P) = Len(ws)
  BY <1>2, <1>6, <1>7
<1> QED
  BY <1>2, <1>6, <1>7, <1>8 DEF ws, slot, P

(* A transfer of a grain, in terms of its posts.                           *)
LEMMA TransferGrainIs ==
    ASSUME TypeInv, TransferGrain
    PROVE  LET each == Len(GrainWrites(From, Upto))
               all  == each * Cardinality(Active)
           IN  /\ format = "grains" /\ Active # {} /\ \A t \in Targets : st[t] # "Idle"
               /\ \A t \in Active : KeepsUp(t) /\ Len(wire[t]) + Len(cq) + each <= MaxWire
               /\ at <= produced.newest /\ (start < GrainEnd \/ at \in produced.invalid)
               /\ each \in Nat \ {0} /\ all \in Nat
               /\ \E n \in 0 .. all :
                     /\ wire' = [t \in Targets |->
                                   wire[t] \o SubSeq([u \in Targets |-> GrainPosts(u)][t], 1, Share(t, each, n))]
                     /\ jammed' = (jammed \/ n < all)
                     /\ pending' = [t \in Targets |->
                                      (pending[t] + Share(t, each, n)) % 2 ^ PendingBits]
                     /\ n < all => UNCHANGED <<at, start>>
                     /\ n = all => IF GrainEnd < TotalSlices THEN at' = at /\ start' = GrainEnd
                                   ELSE at' = at + 1 /\ start' = 0
               /\ UNCHANGED <<format, produced, st, token, tokens, bounce, cq, mem, ring, notices,
                              reported, head, lost>>
<1> DEFINE each == Len(GrainWrites(From, Upto))
           all  == each * Cardinality(Active)
           slot == SlotIn(at, TargetCount)
           ws   == IF at \in produced.invalid THEN GrainWrites(0, 0) ELSE GrainWrites(start, GrainEnd)
           Write(t) == [k \in DOMAIN ws |->
               [token |-> token[t], first |-> at, write |-> ws[k], slot |-> slot,
                imm |-> GrainImm(slot, IF at \in produced.invalid THEN 0 ELSE GrainEnd)]]
<1>1. ws = GrainWrites(From, Upto)
  BY DEF From, Upto
<1>2. \A t : Write(t) = GrainPosts(t)
  BY <1>1 DEF GrainPosts, Upto
<1>3. /\ format = "grains" /\ Active # {} /\ \A t \in Targets : st[t] # "Idle"
      /\ \A t \in Active : KeepsUp(t) /\ Len(wire[t]) + Len(cq) + Len(ws) <= MaxWire
      /\ at <= produced.newest /\ (start < GrainEnd \/ at \in produced.invalid)
      /\ UNCHANGED <<format, produced, st, token, tokens, bounce, cq, mem, ring, notices,
                     reported, head, lost>>
  BY DEF TransferGrain, GrainEnd
<1>4. PICK n \in (IF jammed THEN {} ELSE 0 .. Len(ws) * Cardinality(Active) - 1)
                 \cup {Len(ws) * Cardinality(Active)} :
         /\ Post(Write, Len(ws), n)
         /\ jammed' = (jammed \/ n < Len(ws) * Cardinality(Active))
         /\ pending' = [t \in Targets |-> (pending[t] + Share(t, Len(ws), n)) % 2 ^ PendingBits]
         /\ IF n < Len(ws) * Cardinality(Active) THEN UNCHANGED <<at, start>>
            ELSE IF GrainEnd < TotalSlices THEN at' = at /\ start' = GrainEnd
            ELSE at' = at + 1 /\ start' = 0
  BY DEF TransferGrain, GrainEnd
<1>5. each = Len(ws)
  BY <1>1
<1>6. PICK a \in Active : TRUE
  BY <1>3
<1>7. each \in Nat \ {0}
  BY <1>3, <1>6, GrainPostsAre
<1>8. Cardinality(Active) \in Nat
  BY <1>7, Shares
<1>9. all \in Nat
  <2> HIDE DEF each
  <2> QED
    BY <1>7, <1>8
<1>10. wire' = [t \in Targets |-> wire[t] \o SubSeq(Write(t), 1, Share(t, Len(ws), n))]
  BY <1>4 DEF Post
<1>11. wire' = [t \in Targets |->
                  wire[t] \o SubSeq([u \in Targets |-> GrainPosts(u)][t], 1, Share(t, each, n))]
  BY <1>2, <1>5, <1>10
<1>12. n \in 0 .. all
  <2> HIDE DEF each, all
  <2>1. Len(ws) * Cardinality(Active) = all
    BY <1>5 DEF all
  <2>2. n \in (IF jammed THEN {} ELSE 0 .. all - 1) \cup {all}
    BY <1>4, <2>1
  <2>3. n \in 0 .. all - 1 \/ n = all
    BY <2>2
  <2> QED
    BY <1>9, <2>3
<1>13. /\ jammed' = (jammed \/ n < all)
       /\ pending' = [t \in Targets |-> (pending[t] + Share(t, each, n)) % 2 ^ PendingBits]
       /\ IF n < all THEN UNCHANGED <<at, start>>
          ELSE IF GrainEnd < TotalSlices THEN at' = at /\ start' = GrainEnd
          ELSE at' = at + 1 /\ start' = 0
  BY <1>4, <1>5
<1>14. \A t \in Active : KeepsUp(t) /\ Len(wire[t]) + Len(cq) + each <= MaxWire
  BY <1>3, <1>5
<1> HIDE DEF each, ws, Write, all
<1>15. n = all => ~(n < all)
  BY <1>9
<1>16. /\ n < all => UNCHANGED <<at, start>>
       /\ n = all => IF GrainEnd < TotalSlices THEN at' = at /\ start' = GrainEnd
                     ELSE at' = at + 1 /\ start' = 0
  BY <1>13, <1>15
<1>17. \E m \in 0 .. all :
          /\ wire' = [t \in Targets |->
                        wire[t] \o SubSeq([u \in Targets |-> GrainPosts(u)][t], 1, Share(t, each, m))]
          /\ jammed' = (jammed \/ m < all)
          /\ pending' = [t \in Targets |-> (pending[t] + Share(t, each, m)) % 2 ^ PendingBits]
          /\ m < all => UNCHANGED <<at, start>>
          /\ m = all => IF GrainEnd < TotalSlices THEN at' = at /\ start' = GrainEnd
                        ELSE at' = at + 1 /\ start' = 0
  BY <1>11, <1>12, <1>13, <1>16
<1> QED
  BY <1>3, <1>7, <1>9, <1>14, <1>17 DEF each, all

-----------------------------------------------------------------------------
(* Every step keeps the types.                                             *)

LEMMA InitTyped == Init => TypeInv
<1> SUFFICES ASSUME Init PROVE TypeInv
  OBVIOUS
<1> USE Sizes, LayoutConstants
<1>1. format \in {"grains", "samples"}
  BY DEF Init
<1>2. SourceTyped
  <2>1. /\ produced \in [newest : Nat, valid : 1 .. TotalSlices, invalid : SUBSET Nat]
        /\ produced.newest = 0 /\ produced.invalid = {} /\ start = 0
        /\ at = (IF format = "grains" THEN 1 ELSE 0) /\ format \in Formats
    BY DEF Init
  <2> QED
    BY <1>1, <2>1 DEF SourceTyped, MaxIndex
<1>3. TargetsTyped
  <2>1. Fresh \in [entry : 0 .. EntryCount - 1, headers : [0 .. EntryCount - 1 -> SampleRange]]
    BY DEF Fresh, NoHeader, SampleRange
  <2> QED
    BY <2>1 DEF Init, TargetsTyped
<1>4. WireTyped
  BY DEF Init, WireTyped
<1>5. MemoryTyped
  <2>1. /\ reported = [t \in Targets |-> 0] /\ head = [t \in Targets |-> 0]
        /\ lost = FALSE /\ jammed = FALSE
    BY DEF Init
  <2>2. 0 \in 0 .. MaxIndex
    BY DEF MaxIndex
  <2>3. ASSUME format = "grains"
        PROVE  /\ mem = [t \in Targets |-> [k \in 0 .. TargetCount - 1 |-> mem[t][k]]]
               /\ \A t \in Targets : \A k \in 0 .. TargetCount - 1 :
                     /\ mem[t][k] = [c \in 0 .. GrainLength - 1 |-> mem[t][k][c]]
                     /\ mem[t][k][Header] \in GrainHeader
    <3>1. mem = [t \in Targets |-> [k \in 0 .. TargetCount - 1 |-> EmptyGrain]]
      BY <2>3 DEF Init
    <3>2. \A t \in Targets : \A k \in 0 .. TargetCount - 1 : mem[t][k] = EmptyGrain
      BY <3>1
    <3>3. EmptyGrain = [c \in 0 .. GrainLength - 1 |-> EmptyGrain[c]]
      BY DEF EmptyGrain
    <3>4. Header \in 0 .. GrainLength - 1
      BY PlaneInside DEF Header
    <3>5. EmptyGrain[Header] = [index |-> 0, valid |-> 0, invalid |-> FALSE]
      BY <3>4 DEF EmptyGrain
    <3>6. EmptyGrain[Header] \in GrainHeader
      BY <3>5 DEF GrainHeader
    <3> HIDE DEF EmptyGrain
    <3> QED
      BY <3>1, <3>2, <3>3, <3>6
  <2>4. ASSUME format = "samples"
        PROVE  /\ mem = [t \in Targets |-> [e \in 0 .. EntryCount - 1 |-> mem[t][e]]]
               /\ \A t \in Targets : \A e \in 0 .. EntryCount - 1 : mem[t][e].header \in SampleRange
    <3>1. mem = [t \in Targets |-> [e \in 0 .. EntryCount - 1 |-> EmptyEntry]]
      BY <2>4 DEF Init
    <3>2. EmptyEntry.header \in SampleRange
      BY DEF EmptyEntry, NoHeader, SampleRange
    <3> QED
      BY <3>1, <3>2
  <2> QED
    BY <2>1, <2>2, <2>3, <2>4 DEF MemoryTyped, GrainsTyped, EntriesTyped, ReadersTyped
<1> QED
  BY <1>2, <1>3, <1>4, <1>5 DEF TypeInv

(* What the source does.                                                   *)
LEMMA ProduceIs ==
    ASSUME TypeInv, Produce
    PROVE  /\ UNCHANGED <<format, at, start, st, token, tokens, pending, bounce, wire, cq,
                          mem, ring, notices, reported, head, lost, jammed>>
           /\ produced' \in [newest : Nat, valid : 1 .. TotalSlices, invalid : SUBSET Nat]
           /\ produced'.newest \in {produced.newest, produced.newest + 1}
           /\ produced'.newest <= MaxIndex
           /\ \A i \in Int : i <= produced.newest => (i \in produced'.invalid <=> i \in produced.invalid)
           /\ produced.invalid \subseteq produced'.invalid
           /\ produced'.invalid \subseteq produced.invalid \cup {produced.newest + 1}
           /\ produced'.newest = produced.newest =>
                 produced'.invalid = produced.invalid /\ produced.valid <= produced'.valid
           /\ produced'.newest # produced.newest /\ format = "grains" => produced.valid = TotalSlices
           /\ produced'.newest \in produced'.invalid => produced'.valid = TotalSlices
<1>1. /\ produced \in [newest : Nat, valid : 1 .. TotalSlices, invalid : SUBSET Nat]
      /\ produced.newest <= MaxIndex /\ produced.invalid \subseteq 1 .. produced.newest
      /\ produced.newest \in produced.invalid => produced.valid = TotalSlices
      /\ produced.newest \in Nat /\ produced.valid \in 1 .. TotalSlices /\ TotalSlices \in Nat \ {0}
      /\ produced.invalid \subseteq Nat
  BY LayoutConstants DEF TypeInv, SourceTyped
<1>2. CASE CommitSlices
  <2>1. PICK n \in produced.valid + 1 .. TotalSlices : produced' = [produced EXCEPT !.valid = n]
    BY <1>2 DEF CommitSlices
  <2>2. /\ produced'.newest = produced.newest /\ produced'.valid = n
        /\ produced'.invalid = produced.invalid
        /\ produced' \in [newest : Nat, valid : 1 .. TotalSlices, invalid : SUBSET Nat]
    BY <1>1, <2>1
  <2>3. produced.valid < TotalSlices
    BY <1>2 DEF CommitSlices
  <2> QED
    BY <1>1, <2>1, <2>2, <2>3 DEF Produce
<1>3. CASE NextGrain
  <2> DEFINE i == produced.newest + 1
  <2>1. /\ i \in Nat /\ i <= MaxIndex /\ produced.valid = TotalSlices /\ i \notin produced.invalid
        /\ i # produced.newest
    <3>1. /\ format = "grains" /\ produced.valid = TotalSlices
          /\ produced.newest + 1 <= MaxGrain
      BY <1>3 DEF NextGrain
    <3> QED
      BY <1>1, <3>1, Sizes DEF MaxIndex
  <2>2. CASE \E n \in 1 .. TotalSlices : produced' = [produced EXCEPT !.newest = i, !.valid = n]
    <3>1. PICK n \in 1 .. TotalSlices : produced' = [produced EXCEPT !.newest = i, !.valid = n]
      BY <2>2
    <3>2. /\ produced'.newest = i /\ produced'.valid = n /\ produced'.invalid = produced.invalid
          /\ produced' \in [newest : Nat, valid : 1 .. TotalSlices, invalid : SUBSET Nat]
      BY <1>1, <2>1, <3>1
    <3> QED
      BY <1>1, <2>1, <3>2 DEF Produce
  <2>3. CASE produced' = [produced EXCEPT !.newest = i, !.invalid = @ \cup {i}]
    <3>1. /\ produced'.newest = i /\ produced'.valid = produced.valid
          /\ produced'.invalid = produced.invalid \cup {i}
          /\ produced' \in [newest : Nat, valid : 1 .. TotalSlices, invalid : SUBSET Nat]
      BY <1>1, <2>1, <2>3
    <3> QED
      BY <1>1, <2>1, <3>1 DEF Produce
  <2> QED
    BY <1>3, <2>2, <2>3 DEF NextGrain
<1>4. CASE MoreSamples
  <2>1. /\ produced' = [produced EXCEPT !.newest = @ + 1] /\ format = "samples"
        /\ produced.newest + 1 <= MaxIndex /\ produced.newest + 1 \notin produced.invalid
    BY <1>1, <1>4, Sizes DEF MoreSamples, MaxIndex
  <2>2. /\ produced'.newest = produced.newest + 1 /\ produced'.valid = produced.valid
        /\ produced'.invalid = produced.invalid
        /\ produced' \in [newest : Nat, valid : 1 .. TotalSlices, invalid : SUBSET Nat]
    BY <1>1, <2>1
  <2> QED
    BY <1>1, <2>1, <2>2 DEF Produce
<1> QED
  BY <1>2, <1>3, <1>4 DEF Produce

LEMMA ProduceTyped == ASSUME TypeInv, Produce PROVE TypeInv'
<1>1. /\ UNCHANGED <<format, at, start, st, token, tokens, pending, bounce, wire, cq,
                     mem, ring, notices, reported, head, lost, jammed>>
      /\ produced' \in [newest : Nat, valid : 1 .. TotalSlices, invalid : SUBSET Nat]
      /\ produced'.newest \in {produced.newest, produced.newest + 1}
      /\ produced'.newest <= MaxIndex
      /\ \A i \in Int : i <= produced.newest => (i \in produced'.invalid <=> i \in produced.invalid)
      /\ produced'.invalid \subseteq produced.invalid \cup {produced.newest + 1}
      /\ produced'.newest = produced.newest => produced'.invalid = produced.invalid
      /\ produced'.newest \in produced'.invalid => produced'.valid = TotalSlices
  BY ProduceIs
<1>2. MaxIndex' = MaxIndex
  BY <1>1 DEF MaxIndex
<1>3. SourceTyped'
  <2>1. /\ produced.newest \in Nat /\ produced.invalid \subseteq 1 .. produced.newest
        /\ at \in Nat /\ at <= produced.newest + 1
        /\ start > 0 => at \in 1 .. produced.newest /\ at \notin produced.invalid
    BY DEF TypeInv, SourceTyped
  <2>2. produced'.newest \in Nat /\ produced'.newest >= produced.newest
    BY <1>1, <2>1
  <2>3. produced'.invalid \subseteq 1 .. produced'.newest
    BY <1>1, <2>1, <2>2
  <2>4. at' <= produced'.newest + 1
    BY <1>1, <2>1, <2>2
  <2>5. start' > 0 => at' \in 1 .. produced'.newest /\ at' \notin produced'.invalid
    BY <1>1, <2>1, <2>2
  <2> QED
    BY <1>1, <1>2, <2>3, <2>4, <2>5 DEF TypeInv, SourceTyped
<1>4. TargetsTyped'
  BY <1>1 DEF TypeInv, TargetsTyped
<1>5. WireTyped'
  BY <1>1 DEF TypeInv, WireTyped, Entry, Notice
<1>6. MemoryTyped'
  <2>1. GrainsTyped'
    BY <1>1 DEF TypeInv, MemoryTyped, GrainsTyped
  <2>2. EntriesTyped'
    BY <1>1 DEF TypeInv, MemoryTyped, EntriesTyped
  <2>3. ReadersTyped'
    BY <1>1, <1>2 DEF TypeInv, MemoryTyped, ReadersTyped
  <2> QED
    BY <2>1, <2>2, <2>3 DEF MemoryTyped
<1> QED
  BY <1>3, <1>4, <1>5, <1>6 DEF TypeInv

LEMMA SameMemory ==
    ASSUME TypeInv, UNCHANGED <<format, mem, reported, head, lost>>, jammed' \in BOOLEAN
    PROVE  MemoryTyped'
<1>1. GrainsTyped'
  BY DEF TypeInv, MemoryTyped, GrainsTyped
<1>2. EntriesTyped'
  BY DEF TypeInv, MemoryTyped, EntriesTyped
<1>3. ReadersTyped'
  BY DEF TypeInv, MemoryTyped, ReadersTyped, MaxIndex
<1> QED
  BY <1>1, <1>2, <1>3 DEF MemoryTyped

LEMMA SameSource ==
    ASSUME TypeInv, UNCHANGED <<format, produced, at, start>>
    PROVE  SourceTyped'
  BY DEF TypeInv, SourceTyped, MaxIndex

(* A counter of writes keeps its width.                                    *)
LEMMA CounterWidth ==
    ASSUME NEW a \in Int
    PROVE  a % 2 ^ PendingBits \in 0 .. 2 ^ PendingBits - 1
<1> DEFINE n == 2 ^ PendingBits
<1>1. n \in Nat \ {0}
  BY Sizes
<1> HIDE DEF n
<1>2. a % n \in 0 .. n - 1
  BY <1>1, Remainder
<1> QED
  BY <1>2 DEF n

(* What it posts is posted with the tokens of the targets.                 *)
LEMMA TransferGrainPosts ==
    ASSUME TypeInv, TransferGrain,
           NEW n \in Nat,
           wire' = [t \in Targets |-> wire[t] \o SubSeq([u \in Targets |-> GrainPosts(u)][t], 1,
                                                     Share(t, Len(GrainWrites(From, Upto)), n))]
    PROVE  Posted([u \in Targets |-> GrainPosts(u)], Len(GrainWrites(From, Upto)), n)
<1> DEFINE each == Len(GrainWrites(From, Upto))
           P == [u \in Targets |-> GrainPosts(u)]
<1>1. /\ format = "grains" /\ \A t \in Active : Len(wire[t]) + Len(cq) + each <= MaxWire
      /\ at <= produced.newest /\ (start < GrainEnd \/ at \in produced.invalid)
      /\ each \in Nat \ {0}
  BY TransferGrainIs
<1>2. \A t \in Active : /\ P[t] \in Seq(Entry) /\ Len(P[t]) = each
                        /\ Len(wire[t]) + Len(cq) + each <= MaxWire
                        /\ \A k \in 1 .. each : P[t][k].token = token[t]
  <2> TAKE t \in Active
  <2>1. P[t] = GrainPosts(t)
    BY DEF Active
  <2> DEFINE G == GrainPosts(t)
             ws == GrainWrites(From, Upto)
  <2>2. /\ G \in Seq(Entry) /\ Len(G) = Len(ws)
        /\ \A k \in 1 .. Len(ws) :
              G[k] = [token |-> token[t], first |-> at, write |-> ws[k],
                      slot |-> SlotIn(at, TargetCount),
                      imm |-> GrainImm(SlotIn(at, TargetCount), Upto)]
    BY <1>1, GrainPostsAre
  <2> HIDE DEF G, ws
  <2>3. ASSUME NEW k \in 1 .. Len(ws) PROVE G[k].token = token[t]
    <3>1. G[k] = [token |-> token[t], first |-> at, write |-> ws[k],
                  slot |-> SlotIn(at, TargetCount),
                  imm |-> GrainImm(SlotIn(at, TargetCount), Upto)]
      BY <2>2
    <3> QED
      BY <3>1
  <2> HIDE DEF P
  <2> QED
    BY <1>1, <2>1, <2>2, <2>3 DEF G, ws
<1> HIDE DEF P, each
<1>3. wire' = [t \in Targets |-> wire[t] \o SubSeq(P[t], 1, Share(t, each, n))]
  BY DEF P, each
<1>4. Posted(P, each, n)
  BY <1>1, <1>2, <1>3 DEF Posted
<1> QED
  BY <1>4 DEF P, each

LEMMA TransferGrainTyped == ASSUME TypeInv, TransferGrain PROVE TypeInv'
<1> DEFINE each == Len(GrainWrites(From, Upto))
           all  == each * Cardinality(Active)
           P == [u \in Targets |-> GrainPosts(u)]
<1>1. /\ format = "grains" /\ \A t \in Active : Len(wire[t]) + Len(cq) + each <= MaxWire
      /\ at <= produced.newest /\ (start < GrainEnd \/ at \in produced.invalid)
      /\ each \in Nat \ {0} /\ all \in Nat
      /\ UNCHANGED <<format, produced, st, token, tokens, bounce, cq, mem, ring, notices,
                     reported, head, lost>>
  BY TransferGrainIs
<1>2. PICK n \in 0 .. all :
         /\ wire' = [t \in Targets |-> wire[t] \o SubSeq(P[t], 1, Share(t, each, n))]
         /\ jammed' = (jammed \/ n < all)
         /\ pending' = [t \in Targets |-> (pending[t] + Share(t, each, n)) % 2 ^ PendingBits]
         /\ n < all => UNCHANGED <<at, start>>
         /\ n = all => IF GrainEnd < TotalSlices THEN at' = at /\ start' = GrainEnd
                       ELSE at' = at + 1 /\ start' = 0
  BY TransferGrainIs
<1>3. n \in Nat
  BY <1>1
<1>4. Posted(P, each, n)
  BY <1>2, <1>3, TransferGrainPosts
<1> HIDE DEF P, each, all
<1>5. SourceTyped'
  <2>1. /\ GrainEnd \in 1 .. TotalSlices /\ at \in 1 .. MaxGrain
        /\ at \in produced.invalid => GrainEnd = TotalSlices
    BY <1>1, GrainRange
  <2>2. SourceTyped /\ produced.newest \in Nat /\ at \in Nat /\ at > 0
    BY <1>1 DEF TypeInv, SourceTyped
  <2>3. \/ at' = at /\ start' = start
        \/ at' = at /\ start' = GrainEnd /\ GrainEnd < TotalSlices
        \/ at' = at + 1 /\ start' = 0
    BY <1>1, <1>2
  <2>4. at' \in Nat /\ at' <= produced.newest + 1 /\ at' > 0
    BY <1>1, <2>2, <2>3
  <2>5. start' \in 0 .. TotalSlices - 1
    BY <2>1, <2>2, <2>3, LayoutConstants DEF SourceTyped
  <2>6. start' > 0 => at' \in 1 .. produced.newest /\ at' \notin produced.invalid
    BY <1>1, <2>1, <2>2, <2>3, LayoutConstants DEF SourceTyped
  <2> QED
    BY <1>1, <2>2, <2>4, <2>5, <2>6 DEF SourceTyped, MaxIndex
<1>6. TargetsTyped'
  <2>1. pending' \in [Targets -> 0 .. 2 ^ PendingBits - 1]
    <3>1. ASSUME NEW t \in Targets
          PROVE  (pending[t] + Share(t, each, n)) % 2 ^ PendingBits \in 0 .. 2 ^ PendingBits - 1
      <4>1. Share(t, each, n) \in 0 .. each
        BY <1>1, <1>3, Shares
      <4>2. pending[t] \in Nat
        BY Sizes DEF TypeInv, TargetsTyped
      <4>3. pending[t] + Share(t, each, n) \in Int
        BY <1>1, <4>1, <4>2
      <4> QED
        BY <4>3, CounterWidth
    <3> QED
      BY <1>2, <3>1
  <2> QED
    BY <1>1, <2>1 DEF TypeInv, TargetsTyped
<1>7. WireTyped'
  <2>1. wire' \in [Targets -> Seq(Entry)] /\ \A t \in Targets : Len(wire'[t]) <= MaxWire
    BY <1>4, Posting
  <2> QED
    BY <1>1, <2>1 DEF TypeInv, WireTyped, Entry, Notice
<1>8. MemoryTyped'
  <2>1. jammed' \in BOOLEAN
    BY <1>2
  <2> QED
    BY <1>1, <2>1, SameMemory
<1> QED
  BY <1>5, <1>6, <1>7, <1>8 DEF TypeInv

LEMMA MakeProgressTyped == ASSUME TypeInv, MakeProgress PROVE TypeInv'
<1>1. /\ UNCHANGED <<format, produced, at, start, token, tokens, bounce, wire, mem, ring,
                     notices, reported, head, lost, jammed>>
      /\ st' = [t \in Targets |-> IF st[t] = "Idle" THEN "Activated" ELSE st[t]]
      /\ IF cq = <<>> THEN cq' = cq /\ pending' = pending
         ELSE cq' = Tail(cq) /\ pending' = Consume(Head(cq))
  BY DEF MakeProgress
<1>2. MemoryTyped' /\ SourceTyped'
  <2>1. jammed' \in BOOLEAN
    BY <1>1 DEF TypeInv, MemoryTyped, ReadersTyped
  <2> QED
    BY <1>1, <2>1, SameMemory, SameSource
<1>3. cq' \in Seq([token : 1 .. MaxTokens, ok : BOOLEAN])
  <2> DEFINE C == [token : 1 .. MaxTokens, ok : BOOLEAN]
  <2>1. cq \in Seq(C)
    BY DEF TypeInv, WireTyped
  <2> HIDE DEF C
  <2>2. cq # <<>> => Tail(cq) \in Seq(C)
    BY <2>1, Shortened
  <2>3. cq' \in Seq(C)
    BY <1>1, <2>1, <2>2
  <2> QED
    BY <2>3 DEF C
<1>4. pending' \in [Targets -> 0 .. 2 ^ PendingBits - 1]
  <2>1. CASE cq = <<>>
    BY <1>1, <2>1 DEF TypeInv, TargetsTyped
  <2>2. CASE cq # <<>>
    <3> DEFINE c == Head(cq)
    <3>1. pending' = [t \in Targets |->
             IF c.ok /\ token[t] = c.token /\ st[t] # "Absent"
             THEN (pending[t] - 1) % 2 ^ PendingBits ELSE pending[t]]
      BY <1>1, <2>2 DEF Consume
    <3>2. ASSUME NEW t \in Targets
          PROVE  /\ pending[t] \in 0 .. 2 ^ PendingBits - 1
                 /\ (pending[t] - 1) % 2 ^ PendingBits \in 0 .. 2 ^ PendingBits - 1
      <4>1. pending[t] \in 0 .. 2 ^ PendingBits - 1 /\ pending[t] - 1 \in Int
        BY Sizes DEF TypeInv, TargetsTyped
      <4> QED
        BY <4>1, CounterWidth
    <3> QED
      BY <3>1, <3>2
  <2> QED
    BY <2>1, <2>2
<1>5. TargetsTyped'
  BY <1>1, <1>4 DEF TypeInv, TargetsTyped
<1>6. WireTyped'
  BY <1>1, <1>3 DEF TypeInv, WireTyped, Entry, Notice
<1> QED
  BY <1>2, <1>5, <1>6 DEF TypeInv

LEMMA AddTargetTyped == ASSUME TypeInv, NEW t \in Targets, AddTarget(t) PROVE TypeInv'
<1>1. /\ st' = [st EXCEPT ![t] = "Idle"] /\ tokens < MaxTokens /\ tokens' = tokens + 1
      /\ token' = [token EXCEPT ![t] = tokens + 1] /\ pending' = [pending EXCEPT ![t] = 0]
      /\ bounce' = [bounce EXCEPT ![t] = Fresh]
      /\ UNCHANGED <<format, produced, at, start, wire, cq, mem, ring, notices, reported,
                     head, lost, jammed>>
  BY DEF AddTarget
<1>2. MemoryTyped' /\ SourceTyped'
  <2>1. jammed' \in BOOLEAN
    BY <1>1 DEF TypeInv, MemoryTyped, ReadersTyped
  <2> QED
    BY <1>1, <2>1, SameMemory, SameSource
<1>3. Fresh \in [entry : 0 .. EntryCount - 1, headers : [0 .. EntryCount - 1 -> SampleRange]]
  BY Sizes DEF Fresh, NoHeader, SampleRange
<1>4. TargetsTyped'
  <2>1. tokens' \in 0 .. MaxTokens /\ token' \in [Targets -> 0 .. tokens']
    BY <1>1, Sizes DEF TypeInv, TargetsTyped
  <2>2. \A u \in Targets : st'[u] # "Absent" => token'[u] > 0
    BY <1>1, Sizes DEF TypeInv, TargetsTyped
  <2>3. st' \in [Targets -> {"Absent", "Idle", "Activated"}]
    BY <1>1 DEF TypeInv, TargetsTyped
  <2>4. pending' \in [Targets -> 0 .. 2 ^ PendingBits - 1]
    <3>1. 0 \in 0 .. 2 ^ PendingBits - 1
      BY Sizes
    <3> HIDE DEF SampleRange
    <3> QED
      BY <1>1, <3>1 DEF TypeInv, TargetsTyped
  <2>5. bounce' \in [Targets -> [entry   : 0 .. EntryCount - 1,
                                 headers : [0 .. EntryCount - 1 -> SampleRange]]]
    BY <1>1, <1>3 DEF TypeInv, TargetsTyped
  <2> QED
    BY <2>1, <2>2, <2>3, <2>4, <2>5 DEF TargetsTyped
<1>5. WireTyped'
  BY <1>1 DEF TypeInv, WireTyped, Entry, Notice
<1> QED
  BY <1>2, <1>4, <1>5 DEF TypeInv

LEMMA RemoveTargetTyped == ASSUME TypeInv, NEW t \in Targets, RemoveTarget(t) PROVE TypeInv'
<1>1. /\ st' = [st EXCEPT ![t] = "Absent"]
      /\ UNCHANGED <<format, produced, at, start, token, tokens, pending, bounce, wire, cq,
                     mem, ring, notices, reported, head, lost, jammed>>
  BY DEF RemoveTarget
<1>2. MemoryTyped' /\ SourceTyped'
  <2>1. jammed' \in BOOLEAN
    BY <1>1 DEF TypeInv, MemoryTyped, ReadersTyped
  <2> QED
    BY <1>1, <2>1, SameMemory, SameSource
<1>3. TargetsTyped'
  BY <1>1 DEF TypeInv, TargetsTyped
<1>4. WireTyped'
  BY <1>1 DEF TypeInv, WireTyped, Entry, Notice
<1> QED
  BY <1>2, <1>3, <1>4 DEF TypeInv

(* What a transfer of samples posts to a target.                           *)
SamplePosts(t, count) ==
    LET ws == SampleWrites(at + count, count)
    IN  [k \in DOMAIN ws |->
            [token |-> token[t], first |-> at, write |-> ws[k], slot |-> bounce[t].entry,
             imm |-> [index |-> at + count, count |-> count]]]

LEMMA SamplePostsAre ==
    ASSUME TypeInv, format = "samples", NEW count \in 1 .. MaxBatch,
           at + count <= produced.newest, NEW t \in Active
    PROVE  LET ws == SampleWrites(at + count, count)
               P  == SamplePosts(t, count)
           IN  /\ P \in Seq(Entry) /\ Len(P) = Len(ws) /\ Len(ws) \in Nat
               /\ \A k \in 1 .. Len(ws) : P[k] \in Entry /\ P[k].token = token[t]
<1> DEFINE ws == SampleWrites(at + count, count)
           P == SamplePosts(t, count)
<1>1. at \in 0 .. MaxSample /\ at + count \in 0 .. MaxSample /\ count \in Nat
  BY Sizes DEF TypeInv, SourceTyped, MaxIndex
<1>2. ws \in Seq(SampleWrite) /\ Len(ws) \in Nat /\ DOMAIN ws = 1 .. Len(ws)
  BY <1>1, SampleWritesAre
<1>3. token[t] \in 1 .. MaxTokens /\ bounce[t].entry \in 0 .. EntryCount - 1
  <2>1. t \in Targets /\ st[t] = "Activated"
    BY DEF Active
  <2>2. token[t] \in 0 .. tokens /\ tokens \in 0 .. MaxTokens /\ token[t] > 0
    BY <2>1 DEF TypeInv, TargetsTyped
  <2>3. bounce[t].entry \in 0 .. EntryCount - 1
    BY <2>1 DEF TypeInv, TargetsTyped
  <2> QED
    BY <2>2, <2>3, Sizes
<1>4. [index |-> at + count, count |-> count] \in SampleRange
  BY <1>1 DEF SampleRange
<1>5. \A k \in 1 .. Len(ws) : ws[k] \in SampleWrite
  BY <1>2
<1> HIDE DEF ws
<1>6. P = [k \in 1 .. Len(ws) |->
             [token |-> token[t], first |-> at, write |-> ws[k], slot |-> bounce[t].entry,
              imm |-> [index |-> at + count, count |-> count]]]
  BY <1>2 DEF SamplePosts, ws
<1>7. \A k \in 1 .. Len(ws) : P[k] \in Entry /\ P[k].token = token[t]
  BY <1>1, <1>3, <1>4, <1>5, <1>6 DEF Entry, SampleEntry
<1> HIDE DEF P
<1>8. P \in Seq(Entry) /\ Len(P) = Len(ws)
  BY <1>2, <1>6, <1>7
<1> QED
  BY <1>2, <1>7, <1>8 DEF ws, P

LEMMA TransferSamplesIs ==
    ASSUME TypeInv, NEW count \in 1 .. MaxBatch, TransferSamples(count)
    PROVE  LET each == Len(SampleWrites(at + count, count))
               all  == each * Cardinality(Active)
           IN  /\ format = "samples" /\ Active # {} /\ \A t \in Targets : st[t] # "Idle"
               /\ \A t \in Active : EntryFree(t) /\ Len(wire[t]) + Len(cq) + each <= MaxWire
               /\ at + count <= produced.newest
               /\ each \in Nat /\ all \in Nat
               /\ \E n \in 0 .. all :
                     /\ jammed => n = all
                     /\ wire' = [t \in Targets |->
                                   wire[t] \o SubSeq([u \in Targets |-> SamplePosts(u, count)][t], 1,
                                                     Share(t, each, n))]
                     /\ pending' = [t \in Targets |->
                                      IF t \in Active /\ Share(t, each, n) = each
                                      THEN (pending[t] + each) % 2 ^ PendingBits ELSE pending[t]]
                     /\ bounce' = [t \in Targets |->
                          [entry   |-> IF t \in Active /\ Share(t, each, n) = each
                                       THEN (bounce[t].entry + 1) % EntryCount ELSE bounce[t].entry,
                           headers |-> IF t \in Active /\ n >= each * Cardinality(Before(t))
                                       THEN [bounce[t].headers EXCEPT
                                               ![bounce[t].entry] = [index |-> at + count, count |-> count]]
                                       ELSE bounce[t].headers]]
                     /\ at' = (IF n = all THEN at + count ELSE at)
                     /\ jammed' = (jammed \/ n < all)
               /\ UNCHANGED <<format, produced, start, st, token, tokens, cq, mem, ring, notices,
                              reported, head, lost>>
<1> DEFINE ws == SampleWrites(at + count, count)
           each == Len(ws)
           all  == each * Cardinality(Active)
           Write(t) == [k \in DOMAIN ws |->
               [token |-> token[t], first |-> at, write |-> ws[k], slot |-> bounce[t].entry,
                imm |-> [index |-> at + count, count |-> count]]]
           Q(n) ==
             /\ pending' = [t \in Targets |->
                              IF t \in Active /\ Share(t, each, n) = each
                              THEN (pending[t] + each) % 2 ^ PendingBits ELSE pending[t]]
             /\ bounce' = [t \in Targets |->
                  [entry   |-> IF t \in Active /\ Share(t, each, n) = each
                               THEN (bounce[t].entry + 1) % EntryCount ELSE bounce[t].entry,
                   headers |-> IF t \in Active /\ n >= each * Cardinality(Before(t))
                               THEN [bounce[t].headers EXCEPT
                                       ![bounce[t].entry] = [index |-> at + count, count |-> count]]
                               ELSE bounce[t].headers]]
             /\ at' = (IF n = all THEN at + count ELSE at)
             /\ jammed' = (jammed \/ n < all)
<1>1. \A t : Write(t) = SamplePosts(t, count)
  BY DEF SamplePosts
<1>2. /\ format = "samples" /\ Active # {} /\ \A t \in Targets : st[t] # "Idle"
      /\ \A t \in Active : EntryFree(t) /\ Len(wire[t]) + Len(cq) + each <= MaxWire
      /\ at + count <= produced.newest
      /\ UNCHANGED <<format, produced, start, st, token, tokens, cq, mem, ring, notices,
                     reported, head, lost>>
  BY DEF TransferSamples
<1>3. PICK n \in (IF jammed THEN {} ELSE 0 .. all - 1) \cup {all} : Post(Write, each, n) /\ Q(n)
  BY DEF TransferSamples
<1>4. PICK a \in Active : TRUE
  BY <1>2
<1>5. each \in Nat
  BY <1>2, <1>4, SamplePostsAre
<1>6. Cardinality(Active) \in Nat
  BY <1>5, Shares
<1>7. all \in Nat
  <2> HIDE DEF each
  <2> QED
    BY <1>5, <1>6
<1>8. wire' = [t \in Targets |-> wire[t] \o SubSeq(Write(t), 1, Share(t, each, n))]
  BY <1>3 DEF Post
<1>9. wire' = [t \in Targets |->
                 wire[t] \o SubSeq([u \in Targets |-> SamplePosts(u, count)][t], 1, Share(t, each, n))]
  BY <1>1, <1>8
<1>10. n \in 0 .. all /\ (jammed => n = all)
  <2> HIDE DEF all
  <2>1. (n \in 0 .. all - 1 \/ n = all) /\ (jammed => n = all)
    BY <1>3
  <2> QED
    BY <1>7, <2>1
<1>11. Q(n)
  BY <1>3
<1> HIDE DEF each, all, Write
<1> QED
  BY <1>2, <1>5, <1>7, <1>9, <1>10, <1>11 DEF each, all

LEMMA TransferSamplesPosts ==
    ASSUME TypeInv, NEW count \in 1 .. MaxBatch, TransferSamples(count),
           NEW n \in Nat,
           wire' = [t \in Targets |-> wire[t] \o SubSeq([u \in Targets |-> SamplePosts(u, count)][t], 1,
                                                     Share(t, Len(SampleWrites(at + count, count)), n))]
    PROVE  Posted([u \in Targets |-> SamplePosts(u, count)], Len(SampleWrites(at + count, count)), n)
<1> DEFINE each == Len(SampleWrites(at + count, count))
           P == [u \in Targets |-> SamplePosts(u, count)]
<1>1. /\ format = "samples" /\ \A t \in Active : Len(wire[t]) + Len(cq) + each <= MaxWire
      /\ at + count <= produced.newest /\ each \in Nat
  BY TransferSamplesIs
<1>2. \A t \in Active : /\ P[t] \in Seq(Entry) /\ Len(P[t]) = each
                        /\ Len(wire[t]) + Len(cq) + each <= MaxWire
                        /\ \A k \in 1 .. each : P[t][k].token = token[t]
  <2> TAKE t \in Active
  <2>1. P[t] = SamplePosts(t, count)
    BY DEF Active
  <2>2. LET G == SamplePosts(t, count)
        IN  /\ G \in Seq(Entry) /\ Len(G) = each
            /\ \A k \in 1 .. each : G[k].token = token[t]
    BY <1>1, SamplePostsAre
  <2> HIDE DEF P, each
  <2> QED
    BY <1>1, <2>1, <2>2
<1> HIDE DEF P, each
<1>3. wire' = [t \in Targets |-> wire[t] \o SubSeq(P[t], 1, Share(t, each, n))]
  BY DEF P, each
<1>4. Posted(P, each, n)
  BY <1>1, <1>2, <1>3 DEF Posted
<1> QED
  BY <1>4 DEF P, each

LEMMA TransferSamplesTyped ==
    ASSUME TypeInv, NEW count \in 1 .. MaxBatch, TransferSamples(count) PROVE TypeInv'
<1> DEFINE each == Len(SampleWrites(at + count, count))
           all  == each * Cardinality(Active)
           P == [u \in Targets |-> SamplePosts(u, count)]
           range == [index |-> at + count, count |-> count]
<1>1. /\ format = "samples" /\ \A t \in Active : Len(wire[t]) + Len(cq) + each <= MaxWire
      /\ at + count <= produced.newest /\ each \in Nat /\ all \in Nat
      /\ UNCHANGED <<format, produced, start, st, token, tokens, cq, mem, ring, notices,
                     reported, head, lost>>
  BY TransferSamplesIs
<1>2. PICK n \in 0 .. all :
         /\ wire' = [t \in Targets |-> wire[t] \o SubSeq(P[t], 1, Share(t, each, n))]
         /\ pending' = [t \in Targets |->
                          IF t \in Active /\ Share(t, each, n) = each
                          THEN (pending[t] + each) % 2 ^ PendingBits ELSE pending[t]]
         /\ bounce' = [t \in Targets |->
              [entry   |-> IF t \in Active /\ Share(t, each, n) = each
                           THEN (bounce[t].entry + 1) % EntryCount ELSE bounce[t].entry,
               headers |-> IF t \in Active /\ n >= each * Cardinality(Before(t))
                           THEN [bounce[t].headers EXCEPT ![bounce[t].entry] = range]
                           ELSE bounce[t].headers]]
         /\ at' = (IF n = all THEN at + count ELSE at)
         /\ jammed' = (jammed \/ n < all)
  BY TransferSamplesIs
<1>3. n \in Nat
  BY <1>1
<1>4. Posted(P, each, n)
  BY <1>2, <1>3, TransferSamplesPosts
<1> HIDE DEF P, each, all
<1>5. SourceTyped'
  <2>1. at' \in Nat /\ at' <= produced.newest + 1
    BY <1>1, <1>2, Sizes DEF TypeInv, SourceTyped
  <2>2. start = 0
    BY <1>1 DEF TypeInv, SourceTyped
  <2> QED
    BY <1>1, <2>1, <2>2 DEF TypeInv, SourceTyped, MaxIndex
<1>6. TargetsTyped'
  <2>1. pending' \in [Targets -> 0 .. 2 ^ PendingBits - 1]
    <3>1. ASSUME NEW t \in Targets
          PROVE  /\ (pending[t] + each) % 2 ^ PendingBits \in 0 .. 2 ^ PendingBits - 1
                 /\ pending[t] \in 0 .. 2 ^ PendingBits - 1
      <4>1. pending[t] \in 0 .. 2 ^ PendingBits - 1 /\ pending[t] + each \in Int
        BY <1>1, Sizes DEF TypeInv, TargetsTyped
      <4> QED
        BY <4>1, CounterWidth
    <3> QED
      BY <1>2, <3>1
  <2>2. range \in SampleRange
    BY <1>1, Sizes DEF TypeInv, SourceTyped, SampleRange, MaxIndex
  <2>3. ASSUME NEW t \in Targets
        PROVE  bounce'[t] \in [entry : 0 .. EntryCount - 1, headers : [0 .. EntryCount - 1 -> SampleRange]]
    <3> HIDE DEF range
    <3>1. bounce[t] \in [entry : 0 .. EntryCount - 1, headers : [0 .. EntryCount - 1 -> SampleRange]]
      BY DEF TypeInv, TargetsTyped
    <3>2. (bounce[t].entry + 1) % EntryCount \in 0 .. EntryCount - 1
      <4>1. bounce[t].entry + 1 \in Int
        BY <3>1, Sizes
      <4> QED
        BY <4>1, Sizes, Remainder
    <3>3. [bounce[t].headers EXCEPT ![bounce[t].entry] = range] \in [0 .. EntryCount - 1 -> SampleRange]
      BY <2>2, <3>1
    <3> QED
      BY <1>2, <3>1, <3>2, <3>3
  <2>4. bounce' = [t \in Targets |-> bounce'[t]]
    BY <1>2
  <2> QED
    BY <1>1, <2>1, <2>3, <2>4 DEF TypeInv, TargetsTyped
<1>7. WireTyped'
  <2>1. wire' \in [Targets -> Seq(Entry)] /\ \A t \in Targets : Len(wire'[t]) <= MaxWire
    BY <1>4, Posting
  <2> QED
    BY <1>1, <2>1 DEF TypeInv, WireTyped, Entry, Notice
<1>8. MemoryTyped'
  <2>1. jammed' \in BOOLEAN
    BY <1>2
  <2> QED
    BY <1>1, <2>1, SameMemory
<1> QED
  BY <1>5, <1>6, <1>7, <1>8 DEF TypeInv

(* What the fabric does.                                                   *)
LEMMA CompleteIs ==
    ASSUME TypeInv, NEW t \in Targets, NEW ok \in BOOLEAN, Complete(t, ok)
    PROVE  LET w == wire[t][1]
           IN  /\ wire[t] # <<>> /\ w \in Entry /\ Head(wire[t]) = w
               /\ wire' = [wire EXCEPT ![t] = Tail(@)]
               /\ Tail(wire[t]) \in Seq(Entry) /\ Len(Tail(wire[t])) = Len(wire[t]) - 1
               /\ Len(wire[t]) \in Nat \ {0} /\ DOMAIN wire[t] = 1 .. Len(wire[t])
               /\ DOMAIN Tail(wire[t]) = 1 .. Len(wire[t]) - 1
               /\ \A k \in 1 .. Len(wire[t]) - 1 : Tail(wire[t])[k] = wire[t][k + 1]
               /\ cq' = Append(cq, [token |-> w.token, ok |-> ok])
               /\ lost' = (lost \/ ~ok)
               /\ ~ok => mem' = mem /\ notices' = notices
               /\ ok /\ format = "grains" =>
                     mem' = [mem EXCEPT ![t][w.slot] = WrittenGrain(w, @)]
               /\ ok /\ format = "samples" =>
                     \E header \in HeaderRead(t, w) :
                        mem' = [mem EXCEPT ![t][w.slot] = WrittenEntry(w, @, header)]
               /\ ok /\ w.write.imm =>
                     notices' = [notices EXCEPT
                        ![t] = Append(@, [slot |-> w.slot, imm |-> w.imm, first |-> w.first])]
               /\ ~w.write.imm => notices' = notices
               /\ UNCHANGED <<format, produced, at, start, st, token, tokens, pending, bounce, ring,
                              reported, head, jammed>>
<1>1. wire[t] \in Seq(Entry) /\ wire[t] # <<>>
  BY DEF TypeInv, WireTyped, Complete
<1>2. /\ Head(wire[t]) \in Entry /\ Head(wire[t]) = wire[t][1]
      /\ Tail(wire[t]) \in Seq(Entry) /\ Len(Tail(wire[t])) = Len(wire[t]) - 1
      /\ Len(wire[t]) \in Nat \ {0} /\ DOMAIN wire[t] = 1 .. Len(wire[t])
      /\ DOMAIN Tail(wire[t]) = 1 .. Len(wire[t]) - 1
      /\ \A k \in 1 .. Len(wire[t]) - 1 : Tail(wire[t])[k] = wire[t][k + 1]
  BY <1>1, Shortened
<1>3. format = "samples" => format # "grains"
  OBVIOUS
<1>4. /\ cq' = Append(cq, [token |-> wire[t][1].token, ok |-> ok])
      /\ wire' = [wire EXCEPT ![t] = Tail(@)] /\ lost' = (lost \/ ~ok)
      /\ UNCHANGED <<format, produced, at, start, st, token, tokens, pending, bounce, ring,
                     reported, head, jammed>>
  BY <1>2 DEF Complete
<1>5. /\ ~ok => mem' = mem
      /\ ok /\ format = "grains" =>
            mem' = [mem EXCEPT ![t][wire[t][1].slot] = WrittenGrain(wire[t][1], @)]
      /\ ok /\ format = "samples" =>
            \E header \in HeaderRead(t, wire[t][1]) :
               mem' = [mem EXCEPT ![t][wire[t][1].slot] = WrittenEntry(wire[t][1], @, header)]
  BY <1>2, <1>3 DEF Complete
<1>6. /\ ~ok => notices' = notices
      /\ ok /\ wire[t][1].write.imm =>
            notices' = [notices EXCEPT
               ![t] = Append(@, [slot |-> wire[t][1].slot, imm |-> wire[t][1].imm,
                                 first |-> wire[t][1].first])]
      /\ ~wire[t][1].write.imm => notices' = notices
  BY <1>2 DEF Complete
<1> QED
  BY <1>1, <1>2, <1>4, <1>5, <1>6

(* A write to a grain: what it covers is taken from the source.            *)
LEMMA WrittenGrainIs ==
    ASSUME TypeInv, format = "grains", NEW w \in GrainEntry, NEW grain,
           grain = [c \in 0 .. GrainLength - 1 |-> grain[c]], grain[Header] \in GrainHeader
    PROVE  /\ WrittenGrain(w, grain) = [c \in 0 .. GrainLength - 1 |-> WrittenGrain(w, grain)[c]]
           /\ \A c \in 0 .. GrainLength - 1 :
                 WrittenGrain(w, grain)[c] =
                    IF c \in Reach(w.write) THEN SourceGrain(w.first)[c] ELSE grain[c]
           /\ SourceGrain(w.first)[Header] =
                 [index |-> w.first,
                  valid |-> IF w.first < produced.newest THEN TotalSlices ELSE produced.valid,
                  invalid |-> w.first \in produced.invalid]
           /\ SourceGrain(w.first)[Header] \in GrainHeader
           /\ WrittenGrain(w, grain)[Header] \in GrainHeader
<1>1. Header \in 0 .. GrainLength - 1
  <2>1. 1 \in 1 .. Planes
    BY LayoutConstants
  <2>2. GrainLength \in Nat \ {0}
    BY <2>1, PlaneInside
  <2> QED
    BY <2>2 DEF Header
<1>2. DOMAIN grain = 0 .. GrainLength - 1
  OBVIOUS
<1>3. WrittenGrain(w, grain) =
        [c \in 0 .. GrainLength - 1 |->
            IF c \in Reach(w.write) THEN SourceGrain(w.first)[c] ELSE grain[c]]
  BY <1>2 DEF WrittenGrain, Reach
<1>4. SourceGrain(w.first)[Header] =
         [index |-> w.first,
          valid |-> IF w.first < produced.newest THEN TotalSlices ELSE produced.valid,
          invalid |-> w.first \in produced.invalid]
  BY <1>1 DEF SourceGrain
<1>5. w.first \in 0 .. MaxGrain
  BY DEF GrainEntry
<1>6. produced.valid \in 0 .. TotalSlices /\ TotalSlices \in 0 .. TotalSlices
  BY LayoutConstants DEF TypeInv, SourceTyped
<1>7. SourceGrain(w.first)[Header] \in GrainHeader
  BY <1>4, <1>5, <1>6 DEF GrainHeader
<1> QED
  BY <1>1, <1>3, <1>4, <1>7

LEMMA CompleteTyped ==
    ASSUME TypeInv, NEW t \in Targets, NEW ok \in BOOLEAN, Complete(t, ok) PROVE TypeInv'
<1> DEFINE w == wire[t][1]
<1>1. /\ w \in Entry /\ wire' = [wire EXCEPT ![t] = Tail(@)]
      /\ Tail(wire[t]) \in Seq(Entry) /\ Len(Tail(wire[t])) = Len(wire[t]) - 1
      /\ Len(wire[t]) \in Nat \ {0}
      /\ cq' = Append(cq, [token |-> w.token, ok |-> ok]) /\ lost' = (lost \/ ~ok)
      /\ ~ok => mem' = mem /\ notices' = notices
      /\ ok /\ format = "grains" => mem' = [mem EXCEPT ![t][w.slot] = WrittenGrain(w, @)]
      /\ ok /\ format = "samples" =>
            \E header \in HeaderRead(t, w) :
               mem' = [mem EXCEPT ![t][w.slot] = WrittenEntry(w, @, header)]
      /\ ok /\ w.write.imm =>
            notices' = [notices EXCEPT
               ![t] = Append(@, [slot |-> w.slot, imm |-> w.imm, first |-> w.first])]
      /\ ~w.write.imm => notices' = notices
      /\ UNCHANGED <<format, produced, at, start, st, token, tokens, pending, bounce, ring,
                     reported, head, jammed>>
  BY CompleteIs
<1> HIDE DEF w
<1>2. SourceTyped'
  BY <1>1, SameSource
<1>3. TargetsTyped'
  BY <1>1 DEF TypeInv, TargetsTyped
<1>4. format \in {"grains", "samples"}
  BY Sizes DEF TypeInv, SourceTyped
<1>5. w.token \in 1 .. MaxTokens
  BY <1>1 DEF Entry, GrainEntry, SampleEntry
<1>6. WireTyped'
  <2>1. wire' \in [Targets -> Seq(Entry)] /\ \A u \in Targets : Len(wire'[u]) <= MaxWire
    <3>1. wire \in [Targets -> Seq(Entry)] /\ \A u \in Targets : Len(wire[u]) <= MaxWire
      BY DEF TypeInv, WireTyped
    <3> HIDE DEF Entry
    <3>2. wire' \in [Targets -> Seq(Entry)]
      BY <1>1, <3>1
    <3>3. ASSUME NEW u \in Targets PROVE Len(wire'[u]) <= MaxWire
      <4>1. CASE u = t
        <5>1. wire'[u] = Tail(wire[t])
          BY <1>1, <3>1, <4>1
        <5>2. Len(wire[t]) - 1 <= MaxWire
          BY <1>1, <3>1, Sizes
        <5> QED
          BY <1>1, <5>1, <5>2
      <4>2. CASE u # t
        BY <1>1, <3>1, <4>2
      <4> QED
        BY <4>1, <4>2
    <3> QED
      BY <3>2, <3>3
  <2>2. cq' \in Seq([token : 1 .. MaxTokens, ok : BOOLEAN])
    <3>1. [token |-> w.token, ok |-> ok] \in [token : 1 .. MaxTokens, ok : BOOLEAN]
      BY <1>5
    <3> QED
      BY <1>1, <3>1, Appended DEF TypeInv, WireTyped
  <2>3. notices' \in [Targets -> Seq(Notice)]
    <3>1. CASE ok /\ w.write.imm
      <4>1. [slot |-> w.slot, imm |-> w.imm, first |-> w.first] \in Notice
        BY <1>1, <1>4 DEF Entry, GrainEntry, SampleEntry, Notice
      <4>2. notices \in [Targets -> Seq(Notice)]
        BY DEF TypeInv, WireTyped
      <4>3. Append(notices[t], [slot |-> w.slot, imm |-> w.imm, first |-> w.first]) \in Seq(Notice)
        BY <4>1, <4>2, Appended
      <4> QED
        BY <1>1, <3>1, <4>2, <4>3
    <3>2. CASE ~(ok /\ w.write.imm)
      <4>1. notices' = notices
        BY <1>1, <3>2
      <4> QED
        BY <4>1 DEF TypeInv, WireTyped
    <3> QED
      BY <3>1, <3>2
  <2>4. Entry' = Entry /\ Notice' = Notice
    BY <1>1 DEF Entry, Notice
  <2> QED
    BY <2>1, <2>2, <2>3, <2>4 DEF WireTyped
<1>7. MemoryTyped'
  <2>1. ReadersTyped'
    BY <1>1 DEF TypeInv, MemoryTyped, ReadersTyped, MaxIndex
  <2>2. GrainsTyped'
    <3> SUFFICES ASSUME format = "grains"
                 PROVE  /\ mem' = [u \in Targets |-> [k \in 0 .. TargetCount - 1 |-> mem'[u][k]]]
                        /\ \A u \in Targets : \A k \in 0 .. TargetCount - 1 :
                              /\ mem'[u][k] = [c \in 0 .. GrainLength - 1 |-> mem'[u][k][c]]
                              /\ mem'[u][k][Header] \in GrainHeader
      BY <1>1 DEF GrainsTyped
    <3>1. /\ mem = [u \in Targets |-> [k \in 0 .. TargetCount - 1 |-> mem[u][k]]]
          /\ \A u \in Targets : \A k \in 0 .. TargetCount - 1 :
                /\ mem[u][k] = [c \in 0 .. GrainLength - 1 |-> mem[u][k][c]]
                /\ mem[u][k][Header] \in GrainHeader
      BY DEF TypeInv, MemoryTyped, GrainsTyped
    <3>2. CASE ~ok
      <4>1. mem' = mem
        BY <1>1, <3>2
      <4> QED
        BY <3>1, <4>1, Zenon
    <3>3. CASE ok
      <4> DEFINE g == WrittenGrain(w, mem[t][w.slot])
      <4>1. w \in GrainEntry
        BY <1>1 DEF Entry
      <4>2. w.slot \in 0 .. TargetCount - 1
        BY <4>1 DEF GrainEntry
      <4>3. g = [c \in 0 .. GrainLength - 1 |-> g[c]] /\ g[Header] \in GrainHeader
        BY <3>1, <4>1, <4>2, WrittenGrainIs
      <4> HIDE DEF g
      <4>4. mem' = [mem EXCEPT ![t][w.slot] = g]
        BY <1>1, <3>3 DEF g
      <4>5. mem' = [u \in Targets |-> [k \in 0 .. TargetCount - 1 |->
                       IF u = t /\ k = w.slot THEN g ELSE mem[u][k]]]
        BY <3>1, <4>2, <4>4
      <4>6. \A u \in Targets : \A k \in 0 .. TargetCount - 1 :
               mem'[u][k] = IF u = t /\ k = w.slot THEN g ELSE mem[u][k]
        BY <4>5
      <4>7. mem' = [u \in Targets |-> [k \in 0 .. TargetCount - 1 |-> mem'[u][k]]]
        BY <4>5, <4>6
      <4>8. ASSUME NEW u \in Targets, NEW k \in 0 .. TargetCount - 1
            PROVE  /\ mem'[u][k] = [c \in 0 .. GrainLength - 1 |-> mem'[u][k][c]]
                   /\ mem'[u][k][Header] \in GrainHeader
        <5>1. CASE u = t /\ k = w.slot
          <6>1. mem'[u][k] = g
            BY <4>6, <5>1
          <6> QED
            BY <4>3, <6>1, Zenon
        <5>2. CASE ~(u = t /\ k = w.slot)
          <6>1. mem'[u][k] = mem[u][k]
            BY <4>6, <5>2
          <6> QED
            BY <3>1, <6>1, Zenon
        <5> QED
          BY <5>1, <5>2
      <4> QED
        BY <4>7, <4>8
    <3> QED
      BY <3>2, <3>3
  <2>3. EntriesTyped'
    <3> SUFFICES ASSUME format = "samples"
                 PROVE  /\ mem' = [u \in Targets |-> [e \in 0 .. EntryCount - 1 |-> mem'[u][e]]]
                        /\ \A u \in Targets : \A e \in 0 .. EntryCount - 1 :
                              mem'[u][e].header \in SampleRange
      BY <1>1 DEF EntriesTyped, SampleRange
    <3>1. /\ mem = [u \in Targets |-> [e \in 0 .. EntryCount - 1 |-> mem[u][e]]]
          /\ \A u \in Targets : \A e \in 0 .. EntryCount - 1 : mem[u][e].header \in SampleRange
      BY DEF TypeInv, MemoryTyped, EntriesTyped
    <3>2. CASE ~ok
      BY <1>1, <3>1, <3>2
    <3>3. CASE ok
      <4>1. w \in SampleEntry
        BY <1>1, <1>4 DEF Entry
      <4>2. w.slot \in 0 .. EntryCount - 1
        BY <4>1 DEF SampleEntry
      <4>3. PICK header \in HeaderRead(t, w) :
               mem' = [mem EXCEPT ![t][w.slot] = WrittenEntry(w, @, header)]
        BY <1>1, <3>3
      <4>4. header \in SampleRange
        <5>1. bounce[t].headers[w.slot] \in SampleRange
          BY <4>2 DEF TypeInv, TargetsTyped
        <5>2. NoHeader \in SampleRange /\ [index |-> 0, count |-> MaxBatch + 1] \in SampleRange
          BY Sizes DEF NoHeader, SampleRange
        <5> QED
          BY <5>1, <5>2 DEF HeaderRead
      <4> DEFINE g == WrittenEntry(w, mem[t][w.slot], header)
      <4>5. g.header \in SampleRange
        <5>1. g.header = IF w.write.header THEN header ELSE mem[t][w.slot].header
          BY DEF WrittenEntry
        <5> QED
          BY <3>1, <4>2, <4>4, <5>1
      <4> HIDE DEF g
      <4>6. mem' = [mem EXCEPT ![t][w.slot] = g]
        BY <4>3 DEF g
      <4>7. mem' = [u \in Targets |-> [e \in 0 .. EntryCount - 1 |->
                       IF u = t /\ e = w.slot THEN g ELSE mem[u][e]]]
        BY <3>1, <4>2, <4>6
      <4>8. \A u \in Targets : \A e \in 0 .. EntryCount - 1 :
               mem'[u][e] = IF u = t /\ e = w.slot THEN g ELSE mem[u][e]
        BY <4>7
      <4>9. mem' = [u \in Targets |-> [e \in 0 .. EntryCount - 1 |-> mem'[u][e]]]
        BY <4>7, <4>8
      <4> QED
        BY <3>1, <4>5, <4>8, <4>9
    <3> QED
      BY <3>2, <3>3
  <2> QED
    BY <2>1, <2>2, <2>3 DEF MemoryTyped
<1> QED
  BY <1>2, <1>3, <1>6, <1>7 DEF TypeInv

(* What a target does with a notice.                                       *)
LEMMA ReadTargetIs ==
    ASSUME TypeInv, NEW t \in Targets, ReadTarget(t)
    PROVE  LET n == notices[t][1]
           IN  /\ notices[t] # <<>> /\ n \in Notice /\ Head(notices[t]) = n /\ reported[t] = 0
               /\ notices' = [notices EXCEPT ![t] = Tail(@)]
               /\ Tail(notices[t]) \in Seq(Notice)
               /\ Len(notices[t]) \in Nat \ {0} /\ DOMAIN notices[t] = 1 .. Len(notices[t])
               /\ DOMAIN Tail(notices[t]) = 1 .. Len(notices[t]) - 1
               /\ \A k \in 1 .. Len(notices[t]) - 1 : Tail(notices[t])[k] = notices[t][k + 1]
               /\ format = "grains" =>
                     /\ mem' = [mem EXCEPT ![t][n.imm.slot] = AcceptGrain(@, n.imm)]
                     /\ reported' = [reported EXCEPT ![t] = mem[t][n.imm.slot][Header].index]
               /\ format = "samples" =>
                     /\ mem' = mem
                     /\ \/ reported' = reported
                        \/ reported' = [reported EXCEPT ![t] = mem[t][n.slot].header.index]
               /\ UNCHANGED <<format, produced, at, start, st, token, tokens, pending, bounce, wire, cq,
                              head, lost, jammed>>
<1>1. notices[t] \in Seq(Notice) /\ notices[t] # <<>>
  BY DEF TypeInv, WireTyped, ReadTarget
<1>2. /\ Head(notices[t]) \in Notice /\ Head(notices[t]) = notices[t][1]
      /\ Tail(notices[t]) \in Seq(Notice)
      /\ Len(notices[t]) \in Nat \ {0} /\ DOMAIN notices[t] = 1 .. Len(notices[t])
      /\ DOMAIN Tail(notices[t]) = 1 .. Len(notices[t]) - 1
      /\ \A k \in 1 .. Len(notices[t]) - 1 : Tail(notices[t])[k] = notices[t][k + 1]
  BY <1>1, Shortened
<1>3. /\ ReadGrain(t) \/ ReadSamples(t)
      /\ notices' = [notices EXCEPT ![t] = Tail(@)]
      /\ UNCHANGED <<format, produced, at, start, st, token, tokens, pending, bounce, wire, cq,
                     head, lost, jammed>>
  BY DEF ReadTarget
<1>4. reported[t] = 0
  BY DEF ReadTarget
<1>5. format = "grains" =>
         /\ mem' = [mem EXCEPT ![t][notices[t][1].imm.slot] = AcceptGrain(@, notices[t][1].imm)]
         /\ reported' = [reported EXCEPT ![t] = mem[t][notices[t][1].imm.slot][Header].index]
  <2>1. ReadSamples(t) => format = "samples"
    BY DEF ReadSamples
  <2>2. format = "grains" => ReadGrain(t)
    BY <1>3, <2>1
  <2> QED
    BY <1>2, <2>2 DEF ReadGrain
<1>6. format = "samples" =>
         /\ mem' = mem
         /\ \/ reported' = reported
            \/ reported' = [reported EXCEPT ![t] = mem[t][notices[t][1].slot].header.index]
  <2>1. ReadGrain(t) => format = "grains"
    BY DEF ReadGrain
  <2>2. format = "samples" => ReadSamples(t)
    BY <1>3, <2>1
  <2> QED
    BY <1>2, <2>2 DEF ReadSamples
<1> QED
  BY <1>1, <1>2, <1>3, <1>4, <1>5, <1>6

(* The slices a target counts as valid are those it was told of.           *)
LEMMA AcceptGrainIs ==
    ASSUME NEW grain, grain = [c \in 0 .. GrainLength - 1 |-> grain[c]],
           grain[Header] \in GrainHeader, NEW imm \in GrainNotice
    PROVE  LET g == AcceptGrain(grain, imm)
           IN  /\ g = [c \in 0 .. GrainLength - 1 |-> g[c]]
               /\ g[Header] \in GrainHeader /\ g[Header].valid = imm.slice
               /\ g[Header].index = grain[Header].index
               /\ \A c \in 0 .. GrainLength - 1 : c # Header => g[c] = grain[c]
<1>1. Header \in 0 .. GrainLength - 1
  <2>1. 1 \in 1 .. Planes
    BY LayoutConstants
  <2>2. GrainLength \in Nat \ {0}
    BY <2>1, PlaneInside
  <2> QED
    BY <2>2 DEF Header
<1> DEFINE h == [grain[Header] EXCEPT !.valid = imm.slice]
           g == AcceptGrain(grain, imm)
<1>2. h \in GrainHeader /\ h.valid = imm.slice /\ h.index = grain[Header].index
  BY DEF GrainHeader, GrainNotice
<1> HIDE DEF h
<1>3. g = [grain EXCEPT ![Header] = h]
  BY DEF AcceptGrain, h
<1> HIDE DEF g
<1>4. DOMAIN grain = 0 .. GrainLength - 1
  OBVIOUS
<1>5. DOMAIN g = 0 .. GrainLength - 1 /\ g[Header] = h /\ g = [c \in DOMAIN g |-> g[c]]
  BY <1>1, <1>3, <1>4
<1>6. \A c \in 0 .. GrainLength - 1 : c # Header => g[c] = grain[c]
  BY <1>3, <1>4
<1> QED
  BY <1>2, <1>5, <1>6 DEF g

LEMMA ReadTargetTyped == ASSUME TypeInv, NEW t \in Targets, ReadTarget(t) PROVE TypeInv'
<1> DEFINE n == notices[t][1]
<1>1. /\ n \in Notice /\ notices' = [notices EXCEPT ![t] = Tail(@)]
      /\ Tail(notices[t]) \in Seq(Notice)
      /\ format = "grains" =>
            /\ mem' = [mem EXCEPT ![t][n.imm.slot] = AcceptGrain(@, n.imm)]
            /\ reported' = [reported EXCEPT ![t] = mem[t][n.imm.slot][Header].index]
      /\ format = "samples" =>
            /\ mem' = mem
            /\ \/ reported' = reported
               \/ reported' = [reported EXCEPT ![t] = mem[t][n.slot].header.index]
      /\ UNCHANGED <<format, produced, at, start, st, token, tokens, pending, bounce, wire, cq,
                     head, lost, jammed>>
  BY ReadTargetIs
<1> HIDE DEF n
<1>2. format \in {"grains", "samples"}
  BY Sizes DEF TypeInv, SourceTyped
<1>3. SourceTyped'
  BY <1>1, SameSource
<1>4. TargetsTyped'
  BY <1>1 DEF TypeInv, TargetsTyped
<1>5. WireTyped'
  <2>1. notices' \in [Targets -> Seq(Notice)]
    BY <1>1 DEF TypeInv, WireTyped
  <2> QED
    BY <1>1, <2>1 DEF TypeInv, WireTyped, Entry, Notice
<1>6. MemoryTyped'
  <2>0. /\ reported \in [Targets -> 0 .. MaxIndex] /\ head \in [Targets -> 0 .. MaxIndex]
        /\ lost \in BOOLEAN /\ jammed \in BOOLEAN /\ MaxIndex' = MaxIndex
    BY <1>1 DEF TypeInv, MemoryTyped, ReadersTyped, MaxIndex
  <2>1. CASE format = "grains"
    <3>1. /\ mem = [u \in Targets |-> [k \in 0 .. TargetCount - 1 |-> mem[u][k]]]
          /\ \A u \in Targets : \A k \in 0 .. TargetCount - 1 :
                /\ mem[u][k] = [c \in 0 .. GrainLength - 1 |-> mem[u][k][c]]
                /\ mem[u][k][Header] \in GrainHeader
      BY <2>1 DEF TypeInv, MemoryTyped, GrainsTyped
    <3>2. n.imm \in GrainNotice /\ n.imm.slot \in 0 .. TargetCount - 1
      BY <1>1, <2>1 DEF Notice, GrainNotice
    <3> DEFINE slot == n.imm.slot
               g == AcceptGrain(mem[t][slot], n.imm)
    <3>3. g = [c \in 0 .. GrainLength - 1 |-> g[c]] /\ g[Header] \in GrainHeader
      BY <3>1, <3>2, AcceptGrainIs
    <3>4. mem' = [mem EXCEPT ![t][slot] = g]
      BY <1>1, <2>1
    <3> HIDE DEF g, slot
    <3>5. mem' = [u \in Targets |-> [k \in 0 .. TargetCount - 1 |->
                     IF u = t /\ k = slot THEN g ELSE mem[u][k]]]
      BY <3>1, <3>2, <3>4 DEF slot
    <3>6. \A u \in Targets : \A k \in 0 .. TargetCount - 1 :
             mem'[u][k] = IF u = t /\ k = slot THEN g ELSE mem[u][k]
      BY <3>5
    <3>7. mem' = [u \in Targets |-> [k \in 0 .. TargetCount - 1 |-> mem'[u][k]]]
      BY <3>5, <3>6
    <3>8. ASSUME NEW u \in Targets, NEW k \in 0 .. TargetCount - 1
          PROVE  /\ mem'[u][k] = [c \in 0 .. GrainLength - 1 |-> mem'[u][k][c]]
                 /\ mem'[u][k][Header] \in GrainHeader
      <4>1. CASE u = t /\ k = slot
        <5>1. mem'[u][k] = g
          BY <3>6, <4>1
        <5> QED
          BY <3>3, <5>1, Zenon
      <4>2. CASE ~(u = t /\ k = slot)
        <5>1. mem'[u][k] = mem[u][k]
          BY <3>6, <4>2
        <5> QED
          BY <3>1, <5>1, Zenon
      <4> QED
        BY <4>1, <4>2
    <3>9. GrainsTyped'
      BY <3>7, <3>8 DEF GrainsTyped
    <3>10. EntriesTyped'
      BY <1>1, <2>1 DEF EntriesTyped
    <3>11. mem[t][slot][Header].index \in 0 .. MaxIndex
      BY <2>1, <3>1, <3>2 DEF GrainHeader, MaxIndex, slot
    <3>12. ReadersTyped'
      BY <1>1, <2>0, <2>1, <3>11 DEF ReadersTyped, slot
    <3> QED
      BY <3>9, <3>10, <3>12 DEF MemoryTyped
  <2>2. CASE format = "samples"
    <3>1. n.slot \in 0 .. EntryCount - 1
      BY <1>1, <2>2 DEF Notice
    <3>2. mem[t][n.slot].header \in SampleRange
      BY <2>2, <3>1 DEF TypeInv, MemoryTyped, EntriesTyped
    <3>3. mem[t][n.slot].header.index \in 0 .. MaxIndex
      BY <2>2, <3>2 DEF SampleRange, MaxIndex
    <3>4. reported' \in [Targets -> 0 .. MaxIndex]
      BY <1>1, <2>0, <2>2, <3>3
    <3>5. ReadersTyped'
      BY <1>1, <2>0, <3>4 DEF ReadersTyped
    <3>6. GrainsTyped' /\ EntriesTyped'
      <4>1. mem' = mem /\ format' = format
        BY <1>1, <2>2
      <4>2. GrainsTyped'
        BY <2>2, <4>1 DEF GrainsTyped
      <4>3. EntriesTyped'
        BY <2>2, <4>1 DEF TypeInv, MemoryTyped, EntriesTyped
      <4> QED
        BY <4>2, <4>3
    <3> QED
      BY <3>5, <3>6 DEF MemoryTyped
  <2> QED
    BY <1>2, <2>1, <2>2
<1> QED
  BY <1>3, <1>4, <1>5, <1>6 DEF TypeInv

LEMMA CommitTargetTyped == ASSUME TypeInv, NEW t \in Targets, CommitTarget(t) PROVE TypeInv'
<1>1. /\ head' = [head EXCEPT ![t] = IF reported[t] > @ THEN reported[t] ELSE @]
      /\ reported' = [reported EXCEPT ![t] = 0]
      /\ UNCHANGED <<format, produced, at, start, st, token, tokens, pending, bounce, wire, cq,
                     mem, ring, notices, lost, jammed>>
  BY DEF CommitTarget
<1>2. SourceTyped'
  BY <1>1, SameSource
<1>3. TargetsTyped'
  BY <1>1 DEF TypeInv, TargetsTyped
<1>4. WireTyped'
  BY <1>1 DEF TypeInv, WireTyped, Entry, Notice
<1>5. GrainsTyped' /\ EntriesTyped'
  <2>1. GrainsTyped'
    BY <1>1 DEF TypeInv, MemoryTyped, GrainsTyped
  <2>2. EntriesTyped'
    BY <1>1 DEF TypeInv, MemoryTyped, EntriesTyped
  <2> QED
    BY <2>1, <2>2
<1>6. ReadersTyped'
  <2>1. /\ reported \in [Targets -> 0 .. MaxIndex] /\ head \in [Targets -> 0 .. MaxIndex]
        /\ lost \in BOOLEAN /\ jammed \in BOOLEAN /\ MaxIndex' = MaxIndex
    BY <1>1 DEF TypeInv, MemoryTyped, ReadersTyped, MaxIndex
  <2>2. 0 \in 0 .. MaxIndex
    BY Sizes DEF MaxIndex
  <2> QED
    BY <1>1, <2>1, <2>2 DEF ReadersTyped
<1> QED
  BY <1>2, <1>3, <1>4, <1>5, <1>6 DEF TypeInv, MemoryTyped

(* TypeInv implies what the runs check.                                    *)
LEMMA TypedIsTypeOK == TypeInv => TypeOK
<1> SUFFICES ASSUME TypeInv PROVE TypeOK
  OBVIOUS
<1>1. /\ format \in Formats
      /\ produced.newest \in 0 .. MaxIndex /\ produced.valid \in 1 .. TotalSlices
      /\ produced.invalid \subseteq 1 .. MaxIndex
      /\ at \in 0 .. MaxIndex + 1 /\ start \in 0 .. TotalSlices - 1
  <2>1. MaxIndex \in Nat
    BY Sizes DEF MaxIndex
  <2> QED
    BY <2>1 DEF TypeInv, SourceTyped
<1>2. /\ st \in [Targets -> {"Absent", "Idle", "Activated"}]
      /\ token \in [Targets -> 0 .. MaxTokens] /\ tokens \in 0 .. MaxTokens
      /\ pending \in [Targets -> 0 .. 2 ^ PendingBits - 1]
      /\ \A t \in Targets : bounce[t].entry \in 0 .. EntryCount - 1
  <2>1. token \in [Targets -> 0 .. tokens] /\ tokens \in 0 .. MaxTokens
    BY DEF TypeInv, TargetsTyped
  <2>2. token \in [Targets -> 0 .. MaxTokens]
    BY <2>1, Sizes
  <2> QED
    BY <2>1, <2>2 DEF TypeInv, TargetsTyped
<1>3. format \in {"grains", "samples"}
  BY <1>1, Sizes
<1>4. ASSUME NEW t \in Targets, NEW k \in DOMAIN wire[t]
      PROVE  LET w == wire[t][k].write
             IN  IF format = "samples" THEN wire[t][k].slot < EntryCount
                 ELSE /\ wire[t][k].slot < TargetCount
                      /\ w.offset >= 0 /\ w.offset + w.size <= GrainLength
  <2>1. wire[t][k] \in Entry
    BY DEF TypeInv, WireTyped
  <2>2. CASE format = "samples"
    BY <2>1, <2>2, Sizes DEF Entry, SampleEntry
  <2>3. CASE format = "grains"
    <3>1. wire[t][k] \in GrainEntry
      BY <2>1, <2>3 DEF Entry
    <3> QED
      BY <2>3, <3>1, Sizes DEF GrainEntry, GrainWrite
  <2> QED
    BY <1>3, <2>2, <2>3
<1>5. \A t \in Targets : Len(wire[t]) <= MaxWire
  BY DEF TypeInv, WireTyped
<1>6. /\ reported \in [Targets -> 0 .. MaxIndex] /\ head \in [Targets -> 0 .. MaxIndex]
      /\ lost \in BOOLEAN /\ jammed \in BOOLEAN
  BY DEF TypeInv, MemoryTyped, ReadersTyped
<1> QED
  BY <1>1, <1>2, <1>4, <1>5, <1>6 DEF TypeOK

LEMMA StepTyped == TypeInv /\ [Next]_vars => TypeInv'
<1> SUFFICES ASSUME TypeInv, [Next]_vars PROVE TypeInv'
  OBVIOUS
<1>1. CASE Produce
  BY <1>1, ProduceTyped
<1>2. CASE TransferGrain
  BY <1>2, TransferGrainTyped
<1>3. CASE MakeProgress
  BY <1>3, MakeProgressTyped
<1>4. ASSUME NEW count \in 1 .. MaxBatch, TransferSamples(count) PROVE TypeInv'
  BY <1>4, TransferSamplesTyped
<1>5. ASSUME NEW t \in Targets, AddTarget(t) PROVE TypeInv'
  BY <1>5, AddTargetTyped
<1>6. ASSUME NEW t \in Targets, RemoveTarget(t) PROVE TypeInv'
  BY <1>6, RemoveTargetTyped
<1>7. ASSUME NEW t \in Targets, ReadTarget(t) PROVE TypeInv'
  BY <1>7, ReadTargetTyped
<1>8. ASSUME NEW t \in Targets, CommitTarget(t) PROVE TypeInv'
  BY <1>8, CommitTargetTyped
<1>9. ASSUME NEW t \in Targets, NEW ok \in BOOLEAN, Complete(t, ok) PROVE TypeInv'
  BY <1>9, CompleteTyped
<1>10. CASE UNCHANGED vars
  <2>1. /\ UNCHANGED <<format, produced, at, start, st, token, tokens, pending, bounce, wire, cq,
                       mem, ring, notices, reported, head, lost, jammed>>
    BY <1>10 DEF vars
  <2>2. SourceTyped'
    BY <2>1, SameSource
  <2>3. TargetsTyped'
    BY <2>1 DEF TypeInv, TargetsTyped
  <2>4. WireTyped'
    BY <2>1 DEF TypeInv, WireTyped, Entry, Notice
  <2>5. MemoryTyped'
    <3>1. jammed' \in BOOLEAN
      BY <2>1 DEF TypeInv, MemoryTyped, ReadersTyped
    <3> QED
      BY <2>1, <3>1, SameMemory
  <2> QED
    BY <2>2, <2>3, <2>4, <2>5 DEF TypeInv
<1> QED
  BY <1>1, <1>2, <1>3, <1>4, <1>5, <1>6, <1>7, <1>8, <1>9, <1>10 DEF Next

LEMMA AlwaysTyped == Spec => []TypeInv
<1>1. Init => TypeInv
  BY InitTyped
<1>2. TypeInv /\ [Next]_vars => TypeInv'
  BY StepTyped
<1> QED
  BY <1>1, <1>2, PTL DEF Spec

(* Every variable has its type, and every write under way stays inside the *)
(* grain or the entry it is for (RMAGrainEgressProtocol::transferGrain,    *)
(* AudioBounceBuffer), for every layout of the planes and every number of  *)
(* targets.                                                                *)
THEOREM TypeCorrect == Spec => []TypeOK
<1>1. TypeInv => TypeOK
  BY TypedIsTypeOK
<1> QED
  BY <1>1, AlwaysTyped, PTL

-----------------------------------------------------------------------------
(* Counting the writes of a target.                                        *)

\* The entries of a list that bear a token, and how many they are.
Bearing(s, tok) == {k \in DOMAIN s : s[k].token = tok}
Count(s, tok) == Cardinality(Bearing(s, tok))

LEMMA CountIs ==
    ASSUME NEW S, NEW s \in Seq(S), NEW tok
    PROVE  IsFiniteSet(Bearing(s, tok)) /\ Count(s, tok) \in 0 .. Len(s)
<1>1. Len(s) \in Nat /\ DOMAIN s = 1 .. Len(s)
  OBVIOUS
<1>2. IsFiniteSet(1 .. Len(s)) /\ Cardinality(1 .. Len(s)) = Len(s)
  BY <1>1, FS_Interval
<1>3. Bearing(s, tok) \in SUBSET (1 .. Len(s))
  BY <1>1 DEF Bearing
<1>4. IsFiniteSet(Bearing(s, tok)) /\ Cardinality(Bearing(s, tok)) <= Len(s)
  BY <1>2, <1>3, FS_Subset
<1>5. Cardinality(Bearing(s, tok)) \in Nat
  BY <1>4, FS_CardinalityType
<1> QED
  BY <1>1, <1>4, <1>5 DEF Count

LEMMA CountNone ==
    ASSUME NEW s, NEW tok, \A k \in DOMAIN s : s[k].token # tok
    PROVE  Count(s, tok) = 0
<1>1. Bearing(s, tok) = {}
  BY DEF Bearing
<1> QED
  BY <1>1, FS_EmptySet DEF Count

LEMMA CountTail ==
    ASSUME NEW S, NEW s \in Seq(S), s # <<>>, NEW tok
    PROVE  Count(s, tok) = IF s[1].token = tok THEN Count(Tail(s), tok) + 1 ELSE Count(Tail(s), tok)
<1> DEFINE rest == Bearing(s, tok) \ {1}
           shift == [k \in Bearing(Tail(s), tok) |-> k + 1]
<1>1. /\ Tail(s) \in Seq(S) /\ Len(s) \in Nat \ {0} /\ DOMAIN s = 1 .. Len(s)
      /\ DOMAIN Tail(s) = 1 .. Len(s) - 1
      /\ \A k \in 1 .. Len(s) - 1 : Tail(s)[k] = s[k + 1]
  BY Shortened
<1>2. shift \in Bijection(Bearing(Tail(s), tok), rest)
  <2>1. \A k \in Bearing(Tail(s), tok) : k \in Nat \ {0} /\ k + 1 \in rest
    BY <1>1 DEF Bearing
  <2>2. \A k \in rest : k - 1 \in Bearing(Tail(s), tok) /\ (k - 1) + 1 = k
    BY <1>1 DEF Bearing
  <2>3. shift \in Injection(Bearing(Tail(s), tok), rest)
    BY <2>1 DEF Injection, IsInjective
  <2>4. \A i \in rest : \E k \in Bearing(Tail(s), tok) : shift[k] = i
    BY <2>2
  <2> QED
    BY <2>3, <2>4 DEF Bijection, Surjection, Injection
<1>3. /\ IsFiniteSet(Bearing(s, tok)) /\ IsFiniteSet(Bearing(Tail(s), tok))
      /\ Count(s, tok) \in Nat /\ Count(Tail(s), tok) \in Nat
  <2>1. IsFiniteSet(Bearing(s, tok)) /\ Count(s, tok) \in 0 .. Len(s)
    BY CountIs
  <2>2. /\ IsFiniteSet(Bearing(Tail(s), tok)) /\ Count(Tail(s), tok) \in 0 .. Len(Tail(s))
        /\ Len(Tail(s)) \in Nat
    <3> DEFINE q == Tail(s)
    <3>1. q \in Seq(S)
      BY <1>1
    <3> HIDE DEF q
    <3>2. IsFiniteSet(Bearing(q, tok)) /\ Count(q, tok) \in 0 .. Len(q) /\ Len(q) \in Nat
      BY <3>1, CountIs
    <3> QED
      BY <3>2 DEF q
  <2> QED
    BY <1>1, <2>1, <2>2
<1>4. Cardinality(rest) = Count(Tail(s), tok)
  BY <1>2, <1>3, FS_Bijection DEF Count, ExistsBijection
<1>5. 1 \in Bearing(s, tok) <=> s[1].token = tok
  BY <1>1 DEF Bearing
<1>6. Cardinality(rest) = IF 1 \in Bearing(s, tok) THEN Count(s, tok) - 1 ELSE Count(s, tok)
  BY <1>3, FS_RemoveElement DEF Count
<1> QED
  BY <1>3, <1>4, <1>5, <1>6

\* A list with m entries added at its end, all with one token.
Adds(s, r, m, tok) ==
    /\ m \in Nat /\ Len(s) \in Nat
    /\ DOMAIN s = 1 .. Len(s) /\ DOMAIN r = 1 .. Len(s) + m
    /\ \A k \in 1 .. Len(s) : r[k] = s[k]
    /\ \A k \in 1 .. m : r[Len(s) + k].token = tok

LEMMA CountAdded ==
    ASSUME NEW s, NEW r, NEW m, NEW tok, Adds(s, r, m, tok)
    PROVE  Count(r, tok) = Count(s, tok) + m
<1> DEFINE l == Len(s)
<1>0. /\ m \in Nat /\ l \in Nat /\ DOMAIN s = 1 .. l /\ DOMAIN r = 1 .. l + m
      /\ \A k \in 1 .. l : r[k] = s[k]
      /\ \A k \in 1 .. m : r[l + k].token = tok
  BY DEF Adds
<1> HIDE DEF l
<1> DEFINE more == l + 1 .. l + m
<1>1. /\ l \in Nat /\ DOMAIN s = 1 .. l /\ DOMAIN r = 1 .. l + m
  BY <1>0
<1>2. IsFiniteSet(more) /\ Cardinality(more) = m
  <2>1. l + 1 \in Int /\ l + m \in Int
    BY <1>0, <1>1
  <2>2. /\ IsFiniteSet(more)
        /\ Cardinality(more) = IF l + 1 > l + m THEN 0 ELSE (l + m) - (l + 1) + 1
    BY <1>0, <2>1, FS_Interval
  <2> QED
    BY <1>0, <1>1, <2>2
<1>3. Bearing(r, tok) = Bearing(s, tok) \cup more
  <2>1. ASSUME NEW k \in 1 .. l + m
        PROVE  r[k].token = tok <=> k \in Bearing(s, tok) \/ k \in more
    <3>1. CASE k \in 1 .. l
      BY <1>0, <3>1 DEF Bearing
    <3>2. CASE k \notin 1 .. l
      <4>1. k - l \in 1 .. m /\ l + (k - l) = k /\ k \in more
        BY <1>0, <1>1, <3>2
      <4> QED
        BY <1>0, <4>1
    <3> QED
      BY <3>1, <3>2
  <2>2. Bearing(s, tok) \cup more \subseteq 1 .. l + m
    BY <1>0, <1>1 DEF Bearing
  <2>3. Bearing(r, tok) = {k \in 1 .. l + m : r[k].token = tok}
    BY <1>0, <1>1 DEF Bearing
  <2> HIDE DEF more
  <2> QED
    BY <2>1, <2>2, <2>3
<1>4. Bearing(s, tok) \cap more = {}
  BY <1>0, <1>1 DEF Bearing
<1>5. IsFiniteSet(Bearing(s, tok)) /\ Count(s, tok) \in Nat
  <2>1. IsFiniteSet(1 .. l)
    BY <1>0, FS_Interval
  <2>2. Bearing(s, tok) \in SUBSET (1 .. l)
    BY <1>0, <1>1 DEF Bearing
  <2>3. IsFiniteSet(Bearing(s, tok))
    BY <2>1, <2>2, FS_Subset
  <2> QED
    BY <2>3, FS_CardinalityType DEF Count
<1> HIDE DEF more
<1>6. Cardinality(Bearing(s, tok) \cup more)
        = Cardinality(Bearing(s, tok)) + Cardinality(more) - Cardinality(Bearing(s, tok) \cap more)
  BY <1>2, <1>5, FS_Union
<1>7. Cardinality(Bearing(s, tok) \cap more) = 0
  BY <1>4, FS_EmptySet
<1>8. Cardinality(Bearing(s, tok)) \in Nat
  BY <1>5 DEF Count
<1> QED
  BY <1>0, <1>2, <1>3, <1>6, <1>7, <1>8 DEF Count

LEMMA CountAppend ==
    ASSUME NEW S, NEW s \in Seq(S), NEW e \in S, NEW tok
    PROVE  Count(Append(s, e), tok) = IF e.token = tok THEN Count(s, tok) + 1 ELSE Count(s, tok)
<1> DEFINE r == Append(s, e)
<1>1. /\ r \in Seq(S) /\ Len(r) = Len(s) + 1 /\ Len(s) \in Nat
      /\ DOMAIN s = 1 .. Len(s) /\ DOMAIN r = 1 .. Len(s) + 1
      /\ \A k \in 1 .. Len(s) : r[k] = s[k]
      /\ r[Len(s) + 1] = e
  BY Appended
<1> HIDE DEF r
<1>2. CASE e.token = tok
  <2>1. \A k \in 1 .. 1 : r[Len(s) + k].token = tok
    BY <1>1, <1>2
  <2>2. Adds(s, r, 1, tok)
    BY <1>1, <2>1 DEF Adds
  <2>3. Count(r, tok) = Count(s, tok) + 1
    BY <2>2, CountAdded
  <2> QED
    BY <1>2, <2>3 DEF r
<1>3. CASE e.token # tok
  <2>1. Bearing(r, tok) = Bearing(s, tok)
    <3>1. Bearing(r, tok) = {k \in 1 .. Len(s) + 1 : r[k].token = tok}
      BY <1>1 DEF Bearing
    <3>2. \A k \in 1 .. Len(s) + 1 : r[k].token = tok => k \in 1 .. Len(s)
      BY <1>1, <1>3
    <3>3. Bearing(s, tok) = {k \in 1 .. Len(s) : s[k].token = tok}
      BY <1>1 DEF Bearing
    <3>4. \A k \in 1 .. Len(s) : k \in 1 .. Len(s) + 1
      BY <1>1
    <3> QED
      BY <1>1, <3>1, <3>2, <3>3, <3>4
  <2> QED
    BY <1>3, <2>1 DEF Count, r
<1> QED
  BY <1>2, <1>3

-----------------------------------------------------------------------------
(* The writes of a target are counted.                                     *)

\* The writes of a target that are under way or completed and not seen.
Own(t) == Count(wire[t], token[t]) + Count(cq, token[t])

\* A token belongs to one target, and so does every write under way to it; no
\* completion bears a token that is still to be handed out.
TokensApart ==
    /\ \A t, u \in Targets : token[t] = token[u] /\ token[t] # 0 => t = u
    /\ \A t \in Targets : \A k \in DOMAIN wire[t] :
          /\ wire[t][k].token <= tokens
          /\ \A u \in Targets : token[u] = wire[t][k].token => u = t
    /\ \A k \in DOMAIN cq : cq[k].token <= tokens /\ (~lost => cq[k].ok)

\* The counter of a target has room for its writes and is their number.
OwnCounted ==
    /\ \A t \in Targets : Own(t) <= MaxWire
    /\ (~lost /\ (jammed => format = "grains")) =>
          \A t \in Targets : st[t] # "Absent" => pending[t] = Own(t)

CountInv == TypeInv /\ TokensApart /\ OwnCounted

LEMMA CountTypes ==
    ASSUME TypeInv
    PROVE  /\ cq \in Seq([token : 1 .. MaxTokens, ok : BOOLEAN]) /\ Len(cq) \in Nat
           /\ DOMAIN cq = 1 .. Len(cq)
           /\ \A t \in Targets :
                 /\ wire[t] \in Seq(Entry) /\ Len(wire[t]) \in Nat /\ DOMAIN wire[t] = 1 .. Len(wire[t])
                 /\ token[t] \in Nat /\ token[t] <= tokens /\ pending[t] \in Nat
                 /\ Count(wire[t], token[t]) \in 0 .. Len(wire[t])
                 /\ Count(cq, token[t]) \in 0 .. Len(cq)
                 /\ Own(t) \in Nat /\ Own(t) <= Len(wire[t]) + Len(cq)
           /\ tokens \in Nat
<1>1. /\ cq \in Seq([token : 1 .. MaxTokens, ok : BOOLEAN]) /\ Len(cq) \in Nat
      /\ DOMAIN cq = 1 .. Len(cq)
  BY DEF TypeInv, WireTyped
<1>2. tokens \in Nat
  BY Sizes DEF TypeInv, TargetsTyped
<1>3. ASSUME NEW t \in Targets
      PROVE  /\ wire[t] \in Seq(Entry) /\ Len(wire[t]) \in Nat /\ DOMAIN wire[t] = 1 .. Len(wire[t])
             /\ token[t] \in Nat /\ token[t] <= tokens /\ pending[t] \in Nat
             /\ Count(wire[t], token[t]) \in 0 .. Len(wire[t])
             /\ Count(cq, token[t]) \in 0 .. Len(cq)
             /\ Own(t) \in Nat /\ Own(t) <= Len(wire[t]) + Len(cq)
  <2>1. wire[t] \in Seq(Entry) /\ Len(wire[t]) \in Nat /\ DOMAIN wire[t] = 1 .. Len(wire[t])
    BY DEF TypeInv, WireTyped
  <2>2. token[t] \in Nat /\ token[t] <= tokens /\ pending[t] \in Nat
    BY <1>2, Sizes DEF TypeInv, TargetsTyped
  <2>3. Count(wire[t], token[t]) \in 0 .. Len(wire[t])
    BY <2>1, CountIs
  <2>4. Count(cq, token[t]) \in 0 .. Len(cq)
    BY <1>1, CountIs
  <2>5. Own(t) \in Nat /\ Own(t) <= Len(wire[t]) + Len(cq)
    BY <1>1, <2>1, <2>3, <2>4 DEF Own
  <2> QED
    BY <2>1, <2>2, <2>3, <2>4, <2>5
<1> QED
  BY <1>1, <1>2, <1>3

LEMMA InitCounted == Init => TokensApart /\ OwnCounted
<1> SUFFICES ASSUME Init PROVE TokensApart /\ OwnCounted
  OBVIOUS
<1>1. /\ cq = <<>> /\ \A t \in Targets : wire[t] = <<>> /\ token[t] = 0 /\ pending[t] = 0
      /\ DOMAIN cq = {} /\ \A t \in Targets : DOMAIN wire[t] = {}
  BY DEF Init
<1>2. TokensApart
  BY <1>1 DEF TokensApart
<1>3. \A t \in Targets : Own(t) = 0
  <2>1. ASSUME NEW t \in Targets PROVE Count(wire[t], token[t]) = 0 /\ Count(cq, token[t]) = 0
    BY <1>1, CountNone
  <2> QED
    BY <2>1 DEF Own
<1> QED
  BY <1>1, <1>2, <1>3, Sizes DEF OwnCounted

LEMMA SameCounts ==
    ASSUME CountInv, UNCHANGED <<format, st, token, tokens, pending, wire, cq, lost, jammed>>
    PROVE  TokensApart' /\ OwnCounted'
<1>1. TokensApart'
  BY DEF CountInv, TokensApart
<1>2. OwnCounted'
  BY DEF CountInv, OwnCounted, Own
<1> QED
  BY <1>1, <1>2

LEMMA PostedCounts ==
    ASSUME CountInv, NEW each, NEW n, NEW P, Posted(P, each, n),
           UNCHANGED <<format, st, token, tokens, cq, lost>>
    PROVE  /\ TokensApart'
           /\ \A t \in Targets : /\ Share(t, each, n) \in 0 .. each
                                 /\ Own(t)' = Own(t) + Share(t, each, n)
                                 /\ Own(t)' <= MaxWire
<1>0. TypeInv /\ TokensApart /\ OwnCounted
  BY DEF CountInv
<1>01. /\ each \in Nat /\ n \in Nat
       /\ \A t \in Active : /\ Len(wire[t]) + Len(cq) + each <= MaxWire
                            /\ \A k \in 1 .. each : P[t][k].token = token[t]
  BY DEF Posted
<1>1. /\ wire' \in [Targets -> Seq(Entry)]
      /\ \A t \in Targets :
            /\ Len(wire'[t]) <= MaxWire
            /\ Len(wire[t]) \in Nat /\ Len(wire'[t]) = Len(wire[t]) + Share(t, each, n)
            /\ DOMAIN wire[t] = 1 .. Len(wire[t])
            /\ DOMAIN wire'[t] = 1 .. Len(wire[t]) + Share(t, each, n)
            /\ \A k \in 1 .. Len(wire[t]) : wire'[t][k] = wire[t][k]
            /\ \A k \in 1 .. Share(t, each, n) : wire'[t][Len(wire[t]) + k] = P[t][k]
  BY <1>0, Posting
<1>2. ASSUME NEW t \in Targets
      PROVE  /\ Share(t, each, n) \in 0 .. each
             /\ t \notin Active => Share(t, each, n) = 0
             /\ \A k \in 1 .. Share(t, each, n) : wire'[t][Len(wire[t]) + k].token = token[t]
  <2>1. Share(t, each, n) \in 0 .. each /\ (t \notin Active => Share(t, each, n) = 0)
    BY <1>0, <1>01, Shares
  <2>2. CASE t \in Active
    <3>1. \A k \in 1 .. Share(t, each, n) : k \in 1 .. each
      BY <1>01, <2>1
    <3> QED
      BY <1>01, <1>1, <2>1, <2>2, <3>1
  <2>3. CASE t \notin Active
    <3>1. Share(t, each, n) = 0 /\ 1 .. 0 = {}
      BY <2>1, <2>3
    <3> QED
      BY <2>1, <2>3, <3>1
  <2> QED
    BY <2>1, <2>2, <2>3
<1>3. ASSUME NEW t \in Targets
      PROVE  /\ Own(t)' = Own(t) + Share(t, each, n) /\ Own(t)' <= MaxWire
  <2>1. wire[t] \in Seq(Entry) /\ wire'[t] \in Seq(Entry)
    BY <1>0, <1>1, CountTypes
  <2>2. Count(wire'[t], token[t]) = Count(wire[t], token[t]) + Share(t, each, n)
    <3>1. Adds(wire[t], wire'[t], Share(t, each, n), token[t])
      BY <1>01, <1>1, <1>2 DEF Adds
    <3> QED
      BY <3>1, CountAdded
  <2>3. /\ Count(wire[t], token[t]) \in Nat /\ Count(cq, token[t]) \in Nat
        /\ Own(t) \in Nat /\ Own(t) <= Len(wire[t]) + Len(cq) /\ Len(cq) \in Nat /\ Len(wire[t]) \in Nat
    BY <1>0, CountTypes
  <2>4. Own(t)' = Own(t) + Share(t, each, n)
    BY <1>01, <1>2, <2>2, <2>3 DEF Own
  <2>5. Own(t)' <= MaxWire
    <3>1. CASE t \in Active
      <4>1. Len(wire[t]) + Len(cq) + each <= MaxWire /\ Share(t, each, n) \in 0 .. each
        BY <1>01, <1>2, <3>1
      <4> QED
        BY <1>01, <2>3, <2>4, <4>1, Sizes
    <3>2. CASE t \notin Active
      BY <1>0, <1>2, <2>3, <2>4, <3>2 DEF OwnCounted
    <3> QED
      BY <3>1, <3>2
  <2> QED
    BY <2>4, <2>5
<1>4. TokensApart'
  <2>1. \A t, u \in Targets : token'[t] = token'[u] /\ token'[t] # 0 => t = u
    BY <1>0 DEF TokensApart
  <2>2. ASSUME NEW t \in Targets, NEW k \in DOMAIN wire'[t]
        PROVE  /\ wire'[t][k].token <= tokens'
               /\ \A u \in Targets : token'[u] = wire'[t][k].token => u = t
    <3>1. CASE k \in 1 .. Len(wire[t])
      <4>1. wire'[t][k] = wire[t][k] /\ k \in DOMAIN wire[t]
        BY <1>1, <3>1
      <4> QED
        BY <1>0, <4>1 DEF TokensApart
    <3>2. CASE k \notin 1 .. Len(wire[t])
      <4>1. k - Len(wire[t]) \in 1 .. Share(t, each, n) /\ Len(wire[t]) + (k - Len(wire[t])) = k
        <5>1. Share(t, each, n) \in Nat /\ Len(wire[t]) \in Nat
          BY <1>01, <1>1, <1>2
        <5>2. k \in 1 .. Len(wire[t]) + Share(t, each, n)
          BY <1>1
        <5> QED
          BY <3>2, <5>1, <5>2
      <4>2. wire'[t][k].token = token[t]
        BY <1>2, <4>1
      <4>3. t \in Active
        BY <1>2, <4>1
      <4>4. token[t] # 0 /\ token[t] <= tokens
        <5>1. st[t] # "Absent"
          BY <4>3 DEF Active
        <5>2. token[t] > 0
          BY <1>0, <5>1 DEF TypeInv, TargetsTyped
        <5> QED
          BY <1>0, <5>2, CountTypes
      <4> QED
        BY <1>0, <4>2, <4>4 DEF TokensApart
    <3> QED
      BY <3>1, <3>2
  <2>3. \A k \in DOMAIN cq' : cq'[k].token <= tokens' /\ (~lost' => cq'[k].ok)
    BY <1>0 DEF TokensApart
  <2> QED
    BY <2>1, <2>2, <2>3 DEF TokensApart
<1> QED
  BY <1>2, <1>3, <1>4

LEMMA NoWrap ==
    ASSUME NEW a \in Nat, a <= MaxWire
    PROVE  a % 2 ^ PendingBits = a
<1> DEFINE n == 2 ^ PendingBits
<1>1. n \in Nat \ {0} /\ MaxWire < n /\ MaxWire \in Nat
  BY Sizes
<1> HIDE DEF n
<1>2. a \in 0 .. n - 1
  BY <1>1
<1>3. a % n = a
  BY <1>1, <1>2, SmallRemainder
<1> QED
  BY <1>3 DEF n

LEMMA TransferGrainCounted == ASSUME CountInv, TransferGrain PROVE TokensApart' /\ OwnCounted'
<1> USE DEF CountInv
<1> DEFINE each == Len(GrainWrites(From, Upto))
           all  == each * Cardinality(Active)
           P == [u \in Targets |-> GrainPosts(u)]
<1>1. /\ format = "grains" /\ \A t \in Active : Len(wire[t]) + Len(cq) + each <= MaxWire
      /\ \A t \in Targets : st[t] # "Idle"
      /\ at <= produced.newest /\ (start < GrainEnd \/ at \in produced.invalid)
      /\ each \in Nat \ {0} /\ all \in Nat
      /\ UNCHANGED <<format, produced, st, token, tokens, bounce, cq, mem, ring, notices,
                     reported, head, lost>>
  BY TransferGrainIs
<1>2. PICK n \in 0 .. all :
         /\ wire' = [t \in Targets |-> wire[t] \o SubSeq(P[t], 1, Share(t, each, n))]
         /\ pending' = [t \in Targets |-> (pending[t] + Share(t, each, n)) % 2 ^ PendingBits]
  BY TransferGrainIs
<1>3. n \in Nat
  BY <1>1
<1>4. Posted(P, each, n)
  BY <1>2, <1>3, TransferGrainPosts
<1> HIDE DEF P, each, all
<1>5. /\ TokensApart'
      /\ \A t \in Targets : /\ Share(t, each, n) \in 0 .. each
                            /\ Own(t)' = Own(t) + Share(t, each, n)
                            /\ Own(t)' <= MaxWire
  BY <1>1, <1>4, PostedCounts
<1>6. ASSUME ~lost, NEW t \in Targets, st[t] # "Absent" PROVE pending'[t] = Own(t)'
  <2>1. pending[t] = Own(t) /\ Own(t) \in Nat
    BY <1>1, <1>6, CountTypes DEF OwnCounted
  <2>2. Own(t) + Share(t, each, n) \in Nat
    BY <1>1, <1>5, <2>1
  <2>3. (Own(t) + Share(t, each, n)) % 2 ^ PendingBits = Own(t) + Share(t, each, n)
    BY <1>5, <2>2, NoWrap
  <2> QED
    BY <1>2, <1>5, <2>1, <2>3
<1>7. OwnCounted'
  BY <1>1, <1>5, <1>6 DEF OwnCounted
<1> QED
  BY <1>5, <1>7

LEMMA TransferSamplesCounted ==
    ASSUME CountInv, NEW count \in 1 .. MaxBatch, TransferSamples(count)
    PROVE  TokensApart' /\ OwnCounted'
<1> DEFINE each == Len(SampleWrites(at + count, count))
           all  == each * Cardinality(Active)
           P == [u \in Targets |-> SamplePosts(u, count)]
<1>0. TypeInv /\ TokensApart /\ OwnCounted
  BY DEF CountInv
<1>1. /\ format = "samples" /\ \A t \in Targets : st[t] # "Idle"
      /\ each \in Nat /\ all \in Nat
      /\ UNCHANGED <<format, st, token, tokens, cq, lost>>
  BY <1>0, TransferSamplesIs
<1>2. PICK n \in 0 .. all :
         /\ wire' = [t \in Targets |-> wire[t] \o SubSeq(P[t], 1, Share(t, each, n))]
         /\ pending' = [t \in Targets |->
                          IF t \in Active /\ Share(t, each, n) = each
                          THEN (pending[t] + each) % 2 ^ PendingBits ELSE pending[t]]
         /\ jammed' = (jammed \/ n < all)
  BY <1>0, TransferSamplesIs
<1>3. n \in Nat
  BY <1>1
<1>4. Posted(P, each, n)
  BY <1>0, <1>2, <1>3, TransferSamplesPosts
<1> HIDE DEF P, each
<1>5. /\ TokensApart'
      /\ \A t \in Targets : /\ Share(t, each, n) \in 0 .. each
                            /\ Own(t)' = Own(t) + Share(t, each, n)
                            /\ Own(t)' <= MaxWire
  BY <1>1, <1>4, PostedCounts
<1>6. ASSUME ~lost, ~jammed', NEW t \in Targets, st[t] # "Absent" PROVE pending'[t] = Own(t)'
  <2>1. ~jammed /\ n = all
    <3> HIDE DEF all
    <3>1. ~jammed /\ ~(n < all)
      BY <1>2, <1>6
    <3> QED
      BY <1>1, <1>2, <3>1
  <2>2. pending[t] = Own(t) /\ Own(t) \in Nat
    BY <1>0, <1>6, <2>1, CountTypes DEF OwnCounted
  <2>3. t \in Active
    BY <1>0, <1>1, <1>6 DEF Active, TypeInv, TargetsTyped
  <2>4. Share(t, each, n) = each
    BY <1>0, <1>1, <1>3, <2>1, <2>3, Shares
  <2>5. Own(t) + each \in Nat /\ Own(t) + each <= MaxWire
    BY <1>1, <1>5, <2>2, <2>4
  <2>6. (Own(t) + each) % 2 ^ PendingBits = Own(t) + each
    BY <2>5, NoWrap
  <2>7. pending'[t] = (pending[t] + each) % 2 ^ PendingBits
    BY <1>2, <2>3, <2>4
  <2>8. Own(t)' = Own(t) + each
    BY <1>5, <2>4
  <2> QED
    BY <2>2, <2>6, <2>7, <2>8
<1>7. OwnCounted'
  <2>1. \A t \in Targets : Own(t)' <= MaxWire
    BY <1>5
  <2>2. ASSUME ~lost', jammed' => format' = "grains", NEW t \in Targets, st'[t] # "Absent"
        PROVE  pending'[t] = Own(t)'
    <3>1. ~lost /\ ~jammed' /\ st[t] # "Absent"
      BY <1>1, <2>2
    <3> QED
      BY <1>6, <3>1
  <2> QED
    BY <2>1, <2>2 DEF OwnCounted
<1> QED
  BY <1>5, <1>7

LEMMA MakeProgressCounted == ASSUME CountInv, MakeProgress PROVE TokensApart' /\ OwnCounted'
<1>0. TypeInv /\ TokensApart /\ OwnCounted
  BY DEF CountInv
<1>1. /\ UNCHANGED <<format, token, tokens, wire, lost, jammed>>
      /\ st' = [t \in Targets |-> IF st[t] = "Idle" THEN "Activated" ELSE st[t]]
      /\ IF cq = <<>> THEN cq' = cq /\ pending' = pending
         ELSE cq' = Tail(cq) /\ pending' = Consume(Head(cq))
  BY DEF MakeProgress
<1>2. \A t \in Targets : st'[t] = "Absent" <=> st[t] = "Absent"
  BY <1>0, <1>1 DEF TypeInv, TargetsTyped
<1>3. CASE cq = <<>>
  <2>1. UNCHANGED <<format, token, tokens, pending, wire, cq, lost, jammed>>
    BY <1>1, <1>3
  <2>2. TokensApart'
    BY <1>0, <2>1 DEF TokensApart
  <2>3. OwnCounted'
    BY <1>0, <1>2, <2>1 DEF OwnCounted, Own
  <2> QED
    BY <2>2, <2>3
<1>4. CASE cq # <<>>
  <2> DEFINE c == cq[1]
             T == [token : 1 .. MaxTokens, ok : BOOLEAN]
  <2>1. cq \in Seq(T)
    BY <1>0, CountTypes
  <2> HIDE DEF T
  <2>2. /\ c \in T /\ Head(cq) = c /\ 1 \in DOMAIN cq /\ Tail(cq) \in Seq(T)
        /\ DOMAIN cq = 1 .. Len(cq) /\ DOMAIN Tail(cq) = 1 .. Len(cq) - 1 /\ Len(cq) \in Nat \ {0}
        /\ \A k \in 1 .. Len(cq) - 1 : Tail(cq)[k] = cq[k + 1]
    BY <1>4, <2>1, Shortened
  <2>3. cq' = Tail(cq)
    BY <1>1, <1>4
  <2>4. pending' = [t \in Targets |->
             IF c.ok /\ token[t] = c.token /\ st[t] # "Absent"
             THEN (pending[t] - 1) % 2 ^ PendingBits ELSE pending[t]]
    BY <1>1, <1>4, <2>2 DEF Consume
  <2>5. ~lost => c.ok
    BY <1>0, <2>2 DEF TokensApart
  <2> HIDE DEF c
  <2>6. ASSUME NEW t \in Targets
        PROVE  /\ Own(t) = IF c.token = token[t] THEN Own(t)' + 1 ELSE Own(t)'
               /\ Own(t)' \in Nat /\ Own(t) \in Nat /\ Own(t) <= MaxWire
    <3>1. Count(cq, token[t]) =
            IF c.token = token[t] THEN Count(Tail(cq), token[t]) + 1 ELSE Count(Tail(cq), token[t])
      BY <1>4, <2>1, CountTail DEF c
    <3>2. Count(Tail(cq), token[t]) \in Nat
      <4> DEFINE q == Tail(cq)
      <4>1. q \in Seq(T)
        BY <2>2
      <4> HIDE DEF q
      <4>2. Count(q, token[t]) \in 0 .. Len(q) /\ Len(q) \in Nat
        BY <4>1, CountIs
      <4> QED
        BY <4>2 DEF q
    <3>3. Count(wire[t], token[t]) \in Nat
      BY <1>0, CountTypes
    <3>4. Own(t) = Count(wire[t], token[t]) + Count(cq, token[t])
      BY DEF Own
    <3>5. Own(t)' = Count(wire[t], token[t]) + Count(Tail(cq), token[t])
      BY <1>1, <2>3 DEF Own
    <3>6. Own(t) <= MaxWire
      BY <1>0 DEF OwnCounted
    <3> QED
      BY <3>1, <3>2, <3>3, <3>4, <3>5, <3>6
  <2>7. ASSUME ~lost, jammed => format = "grains", NEW t \in Targets, st[t] # "Absent"
        PROVE  pending'[t] = Own(t)'
    <3>1. pending[t] = Own(t) /\ c.ok
      BY <1>0, <2>5, <2>7 DEF OwnCounted
    <3>2. CASE c.token = token[t]
      <4>1. pending[t] - 1 = Own(t)' /\ Own(t)' <= MaxWire
        BY <2>6, <3>1, <3>2, Sizes
      <4>2. Own(t)' % 2 ^ PendingBits = Own(t)'
        BY <2>6, <4>1, NoWrap
      <4> QED
        BY <2>4, <2>7, <3>1, <3>2, <4>1, <4>2
    <3>3. CASE c.token # token[t]
      BY <2>4, <2>6, <3>1, <3>3
    <3> QED
      BY <3>2, <3>3
  <2>8. OwnCounted'
    <3>1. \A t \in Targets : Own(t)' <= MaxWire
      BY <2>6, Sizes
    <3>2. ASSUME ~lost', jammed' => format' = "grains", NEW t \in Targets, st'[t] # "Absent"
          PROVE  pending'[t] = Own(t)'
      <4>1. ~lost /\ (jammed => format = "grains") /\ st[t] # "Absent"
        BY <1>1, <1>2, <3>2
      <4> QED
        BY <2>7, <4>1
    <3> QED
      BY <3>1, <3>2 DEF OwnCounted
  <2>9. TokensApart'
    <3>1. ASSUME NEW k \in DOMAIN cq' PROVE cq'[k].token <= tokens /\ (~lost => cq'[k].ok)
      <4>1. cq'[k] = cq[k + 1] /\ k + 1 \in DOMAIN cq
        BY <2>2, <2>3
      <4> QED
        BY <1>0, <4>1 DEF TokensApart
    <3> QED
      BY <1>0, <1>1, <3>1 DEF TokensApart
  <2> QED
    BY <2>8, <2>9
<1> QED
  BY <1>3, <1>4

LEMMA AddTargetCounted ==
    ASSUME CountInv, NEW t \in Targets, AddTarget(t) PROVE TokensApart' /\ OwnCounted'
<1>0. TypeInv /\ TokensApart /\ OwnCounted
  BY DEF CountInv
<1>1. /\ st' = [st EXCEPT ![t] = "Idle"] /\ tokens' = tokens + 1
      /\ token' = [token EXCEPT ![t] = tokens + 1] /\ pending' = [pending EXCEPT ![t] = 0]
      /\ UNCHANGED <<format, wire, cq, lost, jammed>>
  BY DEF AddTarget
<1>2. /\ tokens \in Nat /\ DOMAIN cq = 1 .. Len(cq)
      /\ \A u \in Targets : token[u] \in Nat /\ token[u] <= tokens
  BY <1>0, CountTypes
<1>3. ASSUME NEW u \in Targets
      PROVE  /\ token'[u] = IF u = t THEN tokens + 1 ELSE token[u]
             /\ pending'[u] = IF u = t THEN 0 ELSE pending[u]
             /\ u # t => st'[u] = st[u]
  BY <1>0, <1>1 DEF TypeInv, TargetsTyped
<1>4. TokensApart'
  <2>1. \A v, u \in Targets : token'[v] = token'[u] /\ token'[v] # 0 => v = u
    BY <1>0, <1>2, <1>3 DEF TokensApart
  <2>2. ASSUME NEW v \in Targets, NEW k \in DOMAIN wire'[v]
        PROVE  /\ wire'[v][k].token <= tokens'
               /\ \A u \in Targets : token'[u] = wire'[v][k].token => u = v
    <3>1. /\ wire[v][k].token <= tokens
          /\ \A u \in Targets : token[u] = wire[v][k].token => u = v
      BY <1>0, <1>1, <2>2 DEF TokensApart
    <3>2. wire[v][k].token \in Nat
      <4>1. wire[v][k] \in Entry
        BY <1>0, <1>1, <2>2 DEF TypeInv, WireTyped
      <4>2. wire[v][k].token \in 1 .. MaxTokens
        BY <4>1 DEF Entry, GrainEntry, SampleEntry
      <4> QED
        BY <4>2, Sizes
    <3> QED
      BY <1>1, <1>2, <1>3, <3>1, <3>2
  <2>3. ASSUME NEW k \in DOMAIN cq' PROVE cq'[k].token <= tokens' /\ (~lost' => cq'[k].ok)
    <3>1. cq[k].token <= tokens /\ (~lost => cq[k].ok) /\ cq[k].token \in Nat
      <4>1. cq[k] \in [token : 1 .. MaxTokens, ok : BOOLEAN]
        <5> DEFINE T == [token : 1 .. MaxTokens, ok : BOOLEAN]
        <5>1. k \in DOMAIN cq
          BY <1>1, <2>3
        <5>2. cq \in Seq(T) /\ DOMAIN cq = 1 .. Len(cq)
          BY <1>0, CountTypes
        <5> HIDE DEF T
        <5>3. cq[k] \in T
          BY <5>1, <5>2
        <5> QED
          BY <5>3 DEF T
      <4>2. cq[k].token \in 1 .. MaxTokens
        BY <4>1
      <4>3. cq[k].token <= tokens /\ (~lost => cq[k].ok)
        BY <1>0, <1>1, <2>3 DEF TokensApart
      <4> QED
        BY <4>2, <4>3, Sizes
    <3> QED
      BY <1>1, <1>2, <3>1
  <2> QED
    BY <2>1, <2>2, <2>3 DEF TokensApart
<1>5. Own(t)' = 0
  <2>1. \A k \in DOMAIN wire[t] : wire[t][k].token # tokens + 1
    <3> TAKE k \in DOMAIN wire[t]
    <3>1. wire[t][k].token <= tokens
      BY <1>0 DEF TokensApart
    <3> QED
      BY <1>2, <3>1
  <2>2. \A k \in DOMAIN cq : cq[k].token # tokens + 1
    <3> TAKE k \in DOMAIN cq
    <3>1. cq[k].token <= tokens
      BY <1>0 DEF TokensApart
    <3> QED
      BY <1>2, <3>1
  <2>3. Count(wire[t], tokens + 1) = 0 /\ Count(cq, tokens + 1) = 0
    BY <2>1, <2>2, CountNone
  <2> QED
    BY <1>1, <1>3, <2>3 DEF Own
<1>6. \A u \in Targets : u # t => Own(u)' = Own(u)
  BY <1>1, <1>3 DEF Own
<1>7. OwnCounted'
  <2>1. \A u \in Targets : Own(u)' <= MaxWire
    BY <1>0, <1>5, <1>6, Sizes DEF OwnCounted
  <2>2. ASSUME ~lost', jammed' => format' = "grains", NEW u \in Targets, st'[u] # "Absent"
        PROVE  pending'[u] = Own(u)'
    BY <1>0, <1>1, <1>3, <1>5, <1>6, <2>2 DEF OwnCounted
  <2> QED
    BY <2>1, <2>2 DEF OwnCounted
<1> QED
  BY <1>4, <1>7

LEMMA RemoveTargetCounted ==
    ASSUME CountInv, NEW t \in Targets, RemoveTarget(t) PROVE TokensApart' /\ OwnCounted'
<1>0. TypeInv /\ TokensApart /\ OwnCounted
  BY DEF CountInv
<1>1. st' = [st EXCEPT ![t] = "Absent"] /\ UNCHANGED <<format, token, tokens, pending, wire, cq, lost, jammed>>
  BY DEF RemoveTarget
<1>2. \A u \in Targets : st'[u] # "Absent" => st[u] # "Absent"
  BY <1>0, <1>1 DEF TypeInv, TargetsTyped
<1>3. TokensApart'
  BY <1>0, <1>1 DEF TokensApart
<1>4. OwnCounted'
  BY <1>0, <1>1, <1>2 DEF OwnCounted, Own
<1> QED
  BY <1>3, <1>4

LEMMA CompleteCounted ==
    ASSUME CountInv, NEW t \in Targets, NEW ok \in BOOLEAN, Complete(t, ok)
    PROVE  TokensApart' /\ OwnCounted'
<1> DEFINE w == wire[t][1]
           T == [token : 1 .. MaxTokens, ok : BOOLEAN]
           c == [token |-> w.token, ok |-> ok]
<1>0. TypeInv /\ TokensApart /\ OwnCounted
  BY DEF CountInv
<1>1. /\ wire[t] # <<>> /\ w \in Entry /\ wire' = [wire EXCEPT ![t] = Tail(@)]
      /\ Len(wire[t]) \in Nat \ {0} /\ DOMAIN wire[t] = 1 .. Len(wire[t])
      /\ DOMAIN Tail(wire[t]) = 1 .. Len(wire[t]) - 1 /\ Tail(wire[t]) \in Seq(Entry)
      /\ \A k \in 1 .. Len(wire[t]) - 1 : Tail(wire[t])[k] = wire[t][k + 1]
      /\ cq' = Append(cq, c) /\ lost' = (lost \/ ~ok)
      /\ UNCHANGED <<format, st, token, tokens, pending, jammed>>
  BY <1>0, CompleteIs
<1>2. wire \in [Targets -> Seq(Entry)]
  BY <1>0 DEF TypeInv, WireTyped
<1>3. c \in T /\ c.token = w.token /\ c.ok = ok
  <2>1. w.token \in 1 .. MaxTokens
    BY <1>1 DEF Entry, GrainEntry, SampleEntry
  <2> HIDE DEF w
  <2> QED
    BY <2>1
<1>4. cq \in Seq(T)
  BY <1>0, CountTypes
<1>5. /\ Append(cq, c) \in Seq(T) /\ Len(cq) \in Nat
      /\ DOMAIN cq = 1 .. Len(cq) /\ DOMAIN Append(cq, c) = 1 .. Len(cq) + 1
      /\ \A k \in 1 .. Len(cq) : Append(cq, c)[k] = cq[k]
      /\ Append(cq, c)[Len(cq) + 1] = c
  <2> HIDE DEF c, T
  <2> QED
    BY <1>3, <1>4, Appended
<1>6. wire'[t] = Tail(wire[t]) /\ \A u \in Targets : u # t => wire'[u] = wire[u]
  BY <1>1, <1>2
<1> HIDE DEF T, c
<1>7. \A tok : Count(cq', tok) = IF w.token = tok THEN Count(cq, tok) + 1 ELSE Count(cq, tok)
  BY <1>1, <1>3, <1>4, CountAppend
<1>8. \A tok : Count(wire[t], tok) =
                 IF w.token = tok THEN Count(Tail(wire[t]), tok) + 1 ELSE Count(Tail(wire[t]), tok)
  BY <1>1, <1>2, CountTail
<1>9. /\ 1 \in DOMAIN wire[t] /\ w.token <= tokens
      /\ \A u \in Targets : token[u] = w.token => u = t
  <2>1. 1 \in DOMAIN wire[t]
    BY <1>1
  <2> QED
    BY <1>0, <2>1 DEF TokensApart
<1>10. ASSUME NEW u \in Targets PROVE Own(u)' = Own(u)
  <2>1. Own(u) = Count(wire[u], token[u]) + Count(cq, token[u])
    BY DEF Own
  <2>2. Own(u)' = Count(wire'[u], token[u]) + Count(cq', token[u])
    BY <1>1 DEF Own
  <2>3. Count(wire[u], token[u]) \in Nat /\ Count(cq, token[u]) \in Nat
    BY <1>0, CountTypes
  <2>4. CASE u = t
    <3> DEFINE q == Tail(wire[t])
    <3>1. q \in Seq(Entry)
      BY <1>1
    <3>2. Count(wire[t], token[t]) =
                 IF w.token = token[t] THEN Count(q, token[t]) + 1 ELSE Count(q, token[t])
      BY <1>8
    <3>3. wire'[t] = q
      BY <1>6
    <3> HIDE DEF q
    <3>4. Count(q, token[t]) \in 0 .. Len(q) /\ Len(q) \in Nat
      BY <3>1, CountIs
    <3>5. Count(cq', token[t]) = IF w.token = token[t] THEN Count(cq, token[t]) + 1 ELSE Count(cq, token[t])
      BY <1>7
    <3> QED
      BY <2>1, <2>2, <2>3, <2>4, <3>2, <3>3, <3>4, <3>5
  <2>5. CASE u # t
    <3>1. w.token # token[u] /\ wire'[u] = wire[u]
      BY <1>6, <1>9, <2>5
    <3>2. Count(cq', token[u]) = Count(cq, token[u])
      BY <1>7, <3>1
    <3> QED
      BY <2>1, <2>2, <3>1, <3>2
  <2> QED
    BY <2>4, <2>5
<1>11. OwnCounted'
  <2>1. \A u \in Targets : Own(u)' <= MaxWire
    BY <1>0, <1>10 DEF OwnCounted
  <2>2. ASSUME ~lost', jammed' => format' = "grains", NEW u \in Targets, st'[u] # "Absent"
        PROVE  pending'[u] = Own(u)'
    BY <1>0, <1>1, <1>10, <2>2 DEF OwnCounted
  <2> QED
    BY <2>1, <2>2 DEF OwnCounted
<1>12. TokensApart'
  <2>1. ASSUME NEW v \in Targets, NEW k \in DOMAIN wire'[v]
        PROVE  /\ wire'[v][k].token <= tokens
               /\ \A u \in Targets : token[u] = wire'[v][k].token => u = v
    <3>1. CASE v = t
      <4>1. wire'[v][k] = wire[v][k + 1] /\ k + 1 \in DOMAIN wire[v]
        <5>1. k \in DOMAIN Tail(wire[t])
          BY <1>6, <2>1, <3>1
        <5>2. k \in 1 .. Len(wire[t]) - 1
          BY <1>1, <5>1
        <5>3. Tail(wire[t])[k] = wire[t][k + 1] /\ k + 1 \in 1 .. Len(wire[t])
          BY <1>1, <5>2
        <5> QED
          BY <1>1, <1>6, <3>1, <5>3
      <4> QED
        BY <1>0, <3>1, <4>1 DEF TokensApart
    <3>2. CASE v # t
      BY <1>0, <1>6, <3>2 DEF TokensApart
    <3> QED
      BY <3>1, <3>2
  <2>2. ASSUME NEW k \in DOMAIN cq' PROVE cq'[k].token <= tokens /\ (~lost' => cq'[k].ok)
    <3>1. CASE k \in DOMAIN cq
      BY <1>0, <1>1, <1>5, <3>1 DEF TokensApart
    <3>2. CASE k \notin DOMAIN cq
      <4>1. cq'[k] = c
        <5>1. k = Len(cq) + 1
          BY <1>1, <1>5, <3>2
        <5> QED
          BY <1>1, <1>5, <5>1
      <4> QED
        BY <1>1, <1>3, <1>9, <4>1
    <3> QED
      BY <3>1, <3>2
  <2> QED
    BY <1>0, <1>1, <2>1, <2>2 DEF TokensApart
<1> QED
  BY <1>11, <1>12

LEMMA StepCounted == CountInv /\ [Next]_vars => CountInv'
<1> SUFFICES ASSUME CountInv, [Next]_vars PROVE TokensApart' /\ OwnCounted'
  BY StepTyped DEF CountInv
<1>1. CASE TransferGrain
  BY <1>1, TransferGrainCounted
<1>2. CASE MakeProgress
  BY <1>2, MakeProgressCounted
<1>3. ASSUME NEW count \in 1 .. MaxBatch, TransferSamples(count) PROVE TokensApart' /\ OwnCounted'
  BY <1>3, TransferSamplesCounted
<1>4. ASSUME NEW t \in Targets, AddTarget(t) PROVE TokensApart' /\ OwnCounted'
  BY <1>4, AddTargetCounted
<1>5. ASSUME NEW t \in Targets, RemoveTarget(t) PROVE TokensApart' /\ OwnCounted'
  BY <1>5, RemoveTargetCounted
<1>6. ASSUME NEW t \in Targets, NEW ok \in BOOLEAN, Complete(t, ok) PROVE TokensApart' /\ OwnCounted'
  BY <1>6, CompleteCounted
<1>7. CASE Produce
  BY <1>7, SameCounts DEF Produce
<1>8. ASSUME NEW t \in Targets, ReadTarget(t) PROVE TokensApart' /\ OwnCounted'
  BY <1>8, SameCounts DEF ReadTarget
<1>9. ASSUME NEW t \in Targets, CommitTarget(t) PROVE TokensApart' /\ OwnCounted'
  BY <1>9, SameCounts DEF CommitTarget
<1>10. CASE UNCHANGED vars
  BY <1>10, SameCounts DEF vars
<1> QED
  BY <1>1, <1>2, <1>3, <1>4, <1>5, <1>6, <1>7, <1>8, <1>9, <1>10 DEF Next

LEMMA AlwaysCounted == Spec => []CountInv
<1>1. Init => CountInv
  BY InitTyped, InitCounted DEF CountInv
<1>2. CountInv /\ [Next]_vars => CountInv'
  BY StepCounted
<1> QED
  BY <1>1, <1>2, PTL DEF Spec

(* The counter of a target is the number of its writes that are under way  *)
(* or completed and not seen (RMAGrainEgressProtocol::processCompletion),  *)
(* whatever completions of an earlier target at the same address arrive:   *)
(* every target has a token of its own, so that RDMInitiator drops those.  *)
THEOREM CounterIsExact == Spec => []WritesAccounted
<1>1. CountInv => WritesAccounted
  <2> SUFFICES ASSUME CountInv, ~lost, jammed => format = "grains", NEW t \in Active
               PROVE  pending[t] = Cardinality({k \in DOMAIN wire[t] : wire[t][k].token = token[t]})
                                   + Cardinality({k \in DOMAIN cq : cq[k].token = token[t]})
    BY DEF WritesAccounted
  <2>1. t \in Targets /\ st[t] # "Absent"
    BY DEF Active
  <2>2. pending[t] = Own(t)
    BY <2>1 DEF CountInv, OwnCounted
  <2> QED
    BY <2>2 DEF Own, Count, Bearing
<1> QED
  BY <1>1, AlwaysCounted, PTL

-----------------------------------------------------------------------------
(* What has arrived.                                                       *)

\* The slot of a grain in the memory of a target, and its valid slices at the
\* source.
SlotOf(t, i) == mem[t][SlotIn(i, TargetCount)]
ValidAt(i) == IF i < produced.newest THEN TotalSlices ELSE produced.valid

\* The header and the cells of the first n slices.
Part(n) == {Header} \cup UNION {CellsOf(p, s) : p \in 1 .. Planes, s \in 0 .. n - 1}

\* A cell has arrived, or a write that is under way brings it.
Holds(t, i, c) == IF c = Header THEN SlotOf(t, i)[Header].index = i ELSE SlotOf(t, i)[c] = i
Carries(t, k, i, c) == wire[t][k].first = i /\ c \in Reach(wire[t][k].write)
Comes(t, k, i, n) ==
    \A c \in Part(n) : Holds(t, i, c) \/ \E j \in 1 .. k : Carries(t, j, i, c)

\* The grains that are under way are the one the target committed last and the
\* next one, in the order they are transferred.
Ordered(t) ==
    /\ head[t] <= at /\ reported[t] <= at
    /\ reported[t] # 0 => reported[t] \in {head[t], head[t] + 1}
    /\ \A k \in DOMAIN wire[t] :
          /\ wire[t][k].first \in {head[t], head[t] + 1}
          /\ reported[t] <= wire[t][k].first /\ wire[t][k].first <= at
          /\ \A l \in DOMAIN wire[t] : k <= l => wire[t][k].first <= wire[t][l].first
    /\ \A k \in DOMAIN notices[t] :
          /\ notices[t][k].first \in {head[t], head[t] + 1}
          /\ reported[t] <= notices[t][k].first /\ notices[t][k].first <= at
          /\ \A l \in DOMAIN notices[t] : k <= l => notices[t][k].first <= notices[t][l].first
          /\ \A l \in DOMAIN wire[t] : notices[t][k].first <= wire[t][l].first

\* Every write and every notice is for the slot of its grain.
Located(t) ==
    /\ \A k \in DOMAIN wire[t] :
          LET w == wire[t][k]
          IN  w.slot = SlotIn(w.first, TargetCount) /\ w.imm.slot = w.slot
    /\ \A k \in DOMAIN notices[t] :
          LET n == notices[t][k]
          IN  n.slot = SlotIn(n.first, TargetCount) /\ n.imm.slot = n.slot
    /\ \A s \in 0 .. TargetCount - 1 :
          LET i == mem[t][s][Header].index
          IN  i = 0 \/ (SlotIn(i, TargetCount) = s /\ i <= head[t] + 1)

\* The slices a write takes from the source are valid there.
Backed(t) ==
    \A k \in DOMAIN wire[t] :
       LET w == wire[t][k]
       IN  /\ w.first <= produced.newest
           /\ \A p \in 1 .. Planes : \A s \in 0 .. TotalSlices - 1 : \A c \in CellsOf(p, s) :
                 c \in Reach(w.write) => w.first \notin produced.invalid /\ s < ValidAt(w.first)

\* What a notice announces has arrived; of what a write will announce, the rest
\* comes with it or before it.
Announced(t) ==
    /\ \A k \in DOMAIN wire[t] :
          wire[t][k].write.imm => Comes(t, k, wire[t][k].first, wire[t][k].imm.slice)
    /\ \A k \in DOMAIN notices[t] :
          \A c \in Part(notices[t][k].imm.slice) : Holds(t, notices[t][k].first, c)

\* A transfer that goes on with a slice goes on with what is there or comes.
Continued(t) ==
    (st[t] # "Absent" /\ start > 0) =>
       at <= head[t] + 1 /\ Comes(t, Len(wire[t]), at, start)

ArrivalInv ==
    (format = "grains" /\ ~lost) =>
       \A t \in Targets : Ordered(t) /\ Located(t) /\ Backed(t) /\ Announced(t) /\ Continued(t)

\* What is so for one target.
Arrives(t) == Ordered(t) /\ Located(t) /\ Backed(t) /\ Announced(t) /\ Continued(t)

LEMMA GrainTypes ==
    ASSUME TypeInv, format = "grains", NEW t \in Targets
    PROVE  /\ Len(wire[t]) \in Nat /\ DOMAIN wire[t] = 1 .. Len(wire[t])
           /\ \A k \in DOMAIN wire[t] :
                 /\ wire[t][k] \in GrainEntry
                 /\ wire[t][k].first \in Nat \ {0} /\ wire[t][k].slot \in 0 .. TargetCount - 1
                 /\ wire[t][k].imm.slot \in Nat /\ wire[t][k].imm.slice \in 0 .. TotalSlices
           /\ Len(notices[t]) \in Nat /\ DOMAIN notices[t] = 1 .. Len(notices[t])
           /\ \A k \in DOMAIN notices[t] :
                 /\ notices[t][k].first \in Nat \ {0} /\ notices[t][k].slot \in 0 .. TargetCount - 1
                 /\ notices[t][k].imm \in GrainNotice
                 /\ notices[t][k].imm.slot \in 0 .. TargetCount - 1
                 /\ notices[t][k].imm.slice \in 0 .. TotalSlices
           /\ head[t] \in Nat /\ reported[t] \in Nat
           /\ at \in Nat \ {0} /\ start \in 0 .. TotalSlices - 1
           /\ produced.newest \in Nat /\ produced.valid \in 1 .. TotalSlices
           /\ TotalSlices \in Nat \ {0}
<1> USE Sizes, LayoutConstants
<1>1. wire[t] \in Seq(GrainEntry)
  BY DEF TypeInv, WireTyped, Entry
<1>2. /\ Len(wire[t]) \in Nat /\ DOMAIN wire[t] = 1 .. Len(wire[t])
      /\ \A k \in DOMAIN wire[t] : wire[t][k] \in GrainEntry
  BY <1>1
<1>3. \A e \in GrainEntry : /\ e.first \in Nat \ {0} /\ e.slot \in 0 .. TargetCount - 1
                            /\ e.imm.slot \in Nat /\ e.imm.slice \in 0 .. TotalSlices
  BY DEF GrainEntry, GrainNotice
<1> DEFINE N == [slot : 0 .. TargetCount - 1, imm : GrainNotice, first : 1 .. MaxGrain]
<1>4. notices[t] \in Seq(N)
  BY DEF TypeInv, WireTyped, Notice
<1>5. \A e \in N : /\ e.first \in Nat \ {0} /\ e.slot \in 0 .. TargetCount - 1 /\ e.imm \in GrainNotice
                   /\ e.imm.slot \in 0 .. TargetCount - 1 /\ e.imm.slice \in 0 .. TotalSlices
  BY DEF GrainNotice
<1> HIDE DEF N
<1>6. /\ Len(notices[t]) \in Nat /\ DOMAIN notices[t] = 1 .. Len(notices[t])
      /\ \A k \in DOMAIN notices[t] : notices[t][k] \in N
  BY <1>4
<1>7. head[t] \in Nat /\ reported[t] \in Nat
  BY DEF TypeInv, MemoryTyped, ReadersTyped, MaxIndex
<1>8. /\ at \in Nat \ {0} /\ start \in 0 .. TotalSlices - 1
      /\ produced.newest \in Nat /\ produced.valid \in 1 .. TotalSlices
  BY DEF TypeInv, SourceTyped
<1> QED
  BY <1>2, <1>3, <1>5, <1>6, <1>7, <1>8

(* The slot of a grain is one of the target.                               *)
LEMMA SlotTyped ==
    ASSUME TypeInv, format = "grains", NEW t \in Targets, NEW i \in Nat
    PROVE  /\ SlotIn(i, TargetCount) \in 0 .. TargetCount - 1
           /\ SlotOf(t, i) = mem[t][SlotIn(i, TargetCount)]
           /\ SlotOf(t, i) = [c \in 0 .. GrainLength - 1 |-> SlotOf(t, i)[c]]
           /\ SlotOf(t, i)[Header] \in GrainHeader
<1>1. SlotIn(i, TargetCount) \in 0 .. TargetCount - 1
  BY Sizes, Remainder DEF SlotIn
<1> QED
  BY <1>1 DEF TypeInv, MemoryTyped, GrainsTyped, SlotOf

(* The header and the first slices.                                        *)
LEMMA PartIs ==
    ASSUME NEW n \in 0 .. TotalSlices
    PROVE  /\ Header \in Part(n)
           /\ \A c \in Part(n) :
                 /\ c \in 0 .. GrainLength - 1
                 /\ \/ c = Header
                    \/ c # Header /\ \E p \in 1 .. Planes : \E s \in 0 .. n - 1 :
                          c \in CellsOf(p, s) /\ s \in 0 .. TotalSlices - 1
           /\ \A m \in 0 .. n : Part(m) \subseteq Part(n)
           /\ \A p \in 1 .. Planes : \A s \in 0 .. n - 1 : CellsOf(p, s) \subseteq Part(n)
<1>1. TotalSlices \in Nat \ {0} /\ 1 \in 1 .. Planes /\ n \in Nat
  BY LayoutConstants
<1>2. Header \in 0 .. GrainLength - 1
  BY <1>1, PlaneInside DEF Header
<1>3. ASSUME NEW c \in Part(n), c # Header
      PROVE  /\ c \in 0 .. GrainLength - 1
             /\ \E p \in 1 .. Planes : \E s \in 0 .. n - 1 :
                   c \in CellsOf(p, s) /\ s \in 0 .. TotalSlices - 1
  <2>1. PICK p \in 1 .. Planes, s \in 0 .. n - 1 : c \in CellsOf(p, s)
    BY <1>3 DEF Part
  <2>2. s \in 0 .. TotalSlices - 1
    BY <1>1
  <2> QED
    BY <2>1, <2>2, CellInPlane
<1>4. \A m \in 0 .. n : Part(m) \subseteq Part(n)
  <2> TAKE m \in 0 .. n
  <2>1. \A s \in 0 .. m - 1 : s \in 0 .. n - 1
    BY <1>1
  <2> QED
    BY <2>1 DEF Part
<1>5. \A p \in 1 .. Planes : \A s \in 0 .. n - 1 : CellsOf(p, s) \subseteq Part(n)
  BY DEF Part
<1>6. Header \in Part(n)
  BY DEF Part
<1> QED
  BY <1>2, <1>3, <1>4, <1>5, <1>6

(* Where nothing of a target changes but the transfer goes on.             *)
LEMMA SameTarget ==
    ASSUME TypeInv, format = "grains", NEW t \in Targets, Arrives(t), mem'[t] = mem[t], wire'[t] = wire[t],
           notices'[t] = notices[t], head'[t] = head[t], reported'[t] = reported[t],
           produced' = produced, at' \in Nat, at <= at'
    PROVE  /\ Ordered(t)' /\ Located(t)' /\ Backed(t)' /\ Announced(t)'
           /\ at' = at /\ start' = start /\ (st'[t] # "Absent" => st[t] # "Absent" \/ start = 0) =>
                 Continued(t)'
<1> USE DEF Arrives
<1>1. Ordered(t)'
  BY GrainTypes DEF Ordered
<1>2. Located(t)'
  BY DEF Located
<1>3. Backed(t)'
  BY DEF Backed, ValidAt
<1>4. /\ \A k, i, n : Comes(t, k, i, n)' <=> Comes(t, k, i, n)
      /\ \A i, c : Holds(t, i, c)' <=> Holds(t, i, c)
  BY DEF Comes, Holds, Carries, SlotOf
<1>5. Announced(t)'
  BY <1>4 DEF Announced
<1>6. ASSUME at' = at, start' = start, st'[t] # "Absent" => st[t] # "Absent" \/ start = 0
      PROVE  Continued(t)'
  BY <1>4, <1>6 DEF Continued
<1> QED
  BY <1>1, <1>2, <1>3, <1>5, <1>6

(* The slices that are valid at the source stay valid.                     *)
LEMMA ProduceArrives ==
    ASSUME TypeInv, format = "grains", Produce, NEW t \in Targets, Arrives(t)
    PROVE  Arrives(t)'
<1>1. /\ UNCHANGED <<at, start, st, wire, mem, notices, reported, head>>
      /\ produced' \in [newest : Nat, valid : 1 .. TotalSlices, invalid : SUBSET Nat]
      /\ produced'.newest \in {produced.newest, produced.newest + 1}
      /\ \A i \in Int : i <= produced.newest => (i \in produced'.invalid <=> i \in produced.invalid)
      /\ produced'.newest = produced.newest => produced.valid <= produced'.valid
  BY ProduceIs
<1>2. \A i \in Nat : i <= produced.newest =>
         /\ i <= produced'.newest /\ ValidAt(i) \in Nat /\ ValidAt(i)' \in Nat /\ ValidAt(i) <= ValidAt(i)'
  BY <1>1, GrainTypes DEF ValidAt
<1>3. Backed(t)'
  <2>1. ASSUME NEW k \in DOMAIN wire[t], NEW i \in Nat, i = wire[t][k].first
        PROVE  /\ i <= produced'.newest
               /\ \A p \in 1 .. Planes : \A s \in 0 .. TotalSlices - 1 : \A c \in CellsOf(p, s) :
                     c \in Reach(wire[t][k].write) => i \notin produced'.invalid /\ s < ValidAt(i)'
    <3>1. i <= produced.newest
      BY <2>1 DEF Arrives, Backed
    <3>2. \A p \in 1 .. Planes : \A s \in 0 .. TotalSlices - 1 : \A c \in CellsOf(p, s) :
             c \in Reach(wire[t][k].write) => i \notin produced.invalid /\ s < ValidAt(i)
      BY <2>1 DEF Arrives, Backed
    <3>3. /\ ValidAt(i) \in Nat /\ ValidAt(i)' \in Nat /\ ValidAt(i) <= ValidAt(i)'
          /\ i <= produced'.newest
      BY <1>2, <3>1
    <3>4. \A s \in 0 .. TotalSlices - 1 : s < ValidAt(i) => s < ValidAt(i)'
      BY <3>3
    <3>5. i \notin produced.invalid => i \notin produced'.invalid
      BY <1>1, <3>1
    <3> QED
      BY <3>2, <3>3, <3>4, <3>5
  <2>2. \A k \in DOMAIN wire[t] : wire[t][k].first \in Nat
    BY GrainTypes
  <2> QED
    BY <1>1, <2>1, <2>2 DEF Backed, ValidAt
<1>4. Ordered(t)'
  BY <1>1 DEF Arrives, Ordered
<1>5. Located(t)'
  BY <1>1 DEF Arrives, Located
<1>6. Announced(t)'
  BY <1>1 DEF Arrives, Announced, Comes, Holds, Carries, SlotOf
<1>7. Continued(t)'
  BY <1>1 DEF Arrives, Continued, Comes, Holds, Carries, SlotOf
<1> QED
  BY <1>3, <1>4, <1>5, <1>6, <1>7 DEF Arrives

(* Targets come between two grains.                                        *)
LEMMA TargetsChangeArrives ==
    ASSUME TypeInv, format = "grains", NEW t \in Targets, Arrives(t),
           \/ MakeProgress
           \/ \E u \in Targets : AddTarget(u) \/ RemoveTarget(u)
    PROVE  Arrives(t)'
<1>1. /\ UNCHANGED <<produced, at, start, wire, mem, notices, reported, head>>
      /\ st'[t] # "Absent" => st[t] # "Absent" \/ start = 0
  <2>1. CASE MakeProgress
    BY <2>1 DEF MakeProgress
  <2>2. ASSUME NEW u \in Targets, AddTarget(u)
        PROVE  /\ UNCHANGED <<produced, at, start, wire, mem, notices, reported, head>>
               /\ start = 0
    BY <2>2 DEF AddTarget
  <2>3. ASSUME NEW u \in Targets, RemoveTarget(u)
        PROVE  /\ UNCHANGED <<produced, at, start, wire, mem, notices, reported, head>>
               /\ st'[t] # "Absent" => st[t] # "Absent"
    BY <2>3 DEF RemoveTarget, TypeInv, TargetsTyped
  <2> QED
    BY <2>1, <2>2, <2>3
<1>2. at' \in Nat /\ at <= at'
  BY <1>1, GrainTypes
<1> QED
  BY <1>1, <1>2, SameTarget DEF Arrives

(* The head of a target follows what it read.                              *)
LEMMA CommitArrives ==
    ASSUME TypeInv, format = "grains", NEW u \in Targets, CommitTarget(u), NEW t \in Targets, Arrives(t)
    PROVE  Arrives(t)'
<1>1. /\ head' = [head EXCEPT ![u] = IF reported[u] > @ THEN reported[u] ELSE @]
      /\ reported' = [reported EXCEPT ![u] = 0] /\ reported[u] # 0
      /\ UNCHANGED <<produced, at, start, st, wire, mem, notices>>
  BY DEF CommitTarget
<1>2. head \in [Targets -> 0 .. MaxIndex] /\ reported \in [Targets -> 0 .. MaxIndex]
  BY DEF TypeInv, MemoryTyped, ReadersTyped
<1>3. CASE u # t
  <2>1. head'[t] = head[t] /\ reported'[t] = reported[t]
    BY <1>1, <1>2, <1>3
  <2>2. at' \in Nat /\ at <= at'
    BY <1>1, GrainTypes
  <2> QED
    BY <1>1, <2>1, <2>2, SameTarget DEF Arrives
<1>4. CASE u = t
  <2> DEFINE H == head[t]
             R == reported[t]
             G == head'[t]
  <2>1. G = (IF R > H THEN R ELSE H) /\ reported'[t] = 0 /\ R # 0
    BY <1>1, <1>2, <1>4
  <2>2. H \in Nat /\ R \in Nat /\ at \in Nat /\ R \in {H, H + 1} /\ H <= at /\ R <= at
    BY <2>1, GrainTypes DEF Arrives, Ordered
  <2>3. G \in {H, H + 1} /\ H <= G /\ G = R /\ G <= at
    BY <2>1, <2>2
  <2> HIDE DEF H, R, G
  <2>4. \A f \in Nat : f \in {H, H + 1} /\ R <= f => f \in {G, G + 1} /\ 0 <= f
    BY <2>2, <2>3
  <2>5. Ordered(t)'
    <3>1. ASSUME NEW k \in DOMAIN wire[t]
          PROVE  wire[t][k].first \in {G, G + 1} /\ 0 <= wire[t][k].first /\ wire[t][k].first <= at
      BY <2>4, GrainTypes DEF Arrives, Ordered, H, R
    <3>2. ASSUME NEW k \in DOMAIN notices[t]
          PROVE  notices[t][k].first \in {G, G + 1} /\ 0 <= notices[t][k].first /\ notices[t][k].first <= at
      BY <2>4, GrainTypes DEF Arrives, Ordered, H, R
    <3>3. /\ \A k \in DOMAIN wire[t] : \A l \in DOMAIN wire[t] : k <= l => wire[t][k].first <= wire[t][l].first
          /\ \A k \in DOMAIN notices[t] :
                /\ \A l \in DOMAIN notices[t] : k <= l => notices[t][k].first <= notices[t][l].first
                /\ \A l \in DOMAIN wire[t] : notices[t][k].first <= wire[t][l].first
      BY DEF Arrives, Ordered
    <3>4. head'[t] = G /\ G <= at /\ 0 <= at
      BY <2>2, <2>3 DEF G
    <3> QED
      BY <1>1, <2>1, <3>1, <3>2, <3>3, <3>4 DEF Ordered
  <2>6. Located(t)'
    <3>1. \A s \in 0 .. TargetCount - 1 : mem[t][s][Header].index \in Nat
      <4>1. \A s \in 0 .. TargetCount - 1 : mem[t][s][Header] \in GrainHeader
        BY DEF TypeInv, MemoryTyped, GrainsTyped
      <4>2. \A h \in GrainHeader : h.index \in Nat
        BY DEF GrainHeader
      <4> QED
        BY <4>1, <4>2
    <3>2. \A s \in 0 .. TargetCount - 1 :
             LET i == mem[t][s][Header].index
             IN  i = 0 \/ (SlotIn(i, TargetCount) = s /\ i <= G + 1)
      <4> TAKE s \in 0 .. TargetCount - 1
      <4> DEFINE i == mem[t][s][Header].index
      <4>1. i \in Nat /\ (i = 0 \/ (SlotIn(i, TargetCount) = s /\ i <= H + 1))
        BY <3>1 DEF Arrives, Located, H
      <4> HIDE DEF i
      <4>2. i = 0 \/ (SlotIn(i, TargetCount) = s /\ i <= G + 1)
        BY <2>2, <2>3, <4>1
      <4> QED
        BY <4>2 DEF i
    <3> QED
      BY <1>1, <3>2 DEF Arrives, Located, G
  <2>7. Backed(t)'
    BY <1>1 DEF Arrives, Backed, ValidAt
  <2>8. Announced(t)'
    BY <1>1 DEF Arrives, Announced, Comes, Holds, Carries, SlotOf
  <2>9. Continued(t)'
    <3>1. at <= H + 1 => at <= G + 1
      BY <2>2, <2>3
    <3> QED
      BY <1>1, <3>1 DEF Arrives, Continued, Comes, Holds, Carries, SlotOf, H, G
  <2> QED
    BY <2>5, <2>6, <2>7, <2>8, <2>9 DEF Arrives
<1> QED
  BY <1>3, <1>4

(* What a notice reports: the grain it is for.                             *)
LEMMA ReadReports ==
    ASSUME TypeInv, format = "grains", NEW t \in Targets, Arrives(t), ReadTarget(t)
    PROVE  LET n == notices[t][1]
               i == n.first
           IN  /\ 1 \in DOMAIN notices[t] /\ i \in Nat \ {0} /\ Head(notices[t]) = n
               /\ n.imm \in GrainNotice /\ n.imm.slot = SlotIn(i, TargetCount)
               /\ mem' = [mem EXCEPT ![t][SlotIn(i, TargetCount)] = AcceptGrain(@, n.imm)]
               /\ reported' = [reported EXCEPT ![t] = i]
               /\ SlotOf(t, i)[Header].index = i
               /\ \A c \in Part(n.imm.slice) : Holds(t, i, c)
<1> DEFINE n == notices[t][1]
           i == n.first
<1>1. /\ notices[t] # <<>> /\ Len(notices[t]) \in Nat \ {0} /\ DOMAIN notices[t] = 1 .. Len(notices[t])
      /\ Head(notices[t]) = n
      /\ mem' = [mem EXCEPT ![t][n.imm.slot] = AcceptGrain(@, n.imm)]
      /\ reported' = [reported EXCEPT ![t] = mem[t][n.imm.slot][Header].index]
  BY ReadTargetIs
<1>2. 1 \in DOMAIN notices[t]
  BY <1>1
<1>3. i \in Nat \ {0} /\ n.imm \in GrainNotice /\ n.imm.slice \in 0 .. TotalSlices
  BY <1>2, GrainTypes
<1>4. n.imm.slot = SlotIn(i, TargetCount)
  BY <1>2 DEF Arrives, Located
<1>5. \A c \in Part(n.imm.slice) : Holds(t, i, c)
  BY <1>2 DEF Arrives, Announced
<1>6. Header \in Part(n.imm.slice)
  BY <1>3, PartIs
<1>7. SlotOf(t, i)[Header].index = i
  BY <1>5, <1>6 DEF Holds
<1> HIDE DEF n, i
<1>8. mem[t][SlotIn(i, TargetCount)][Header].index = i
  BY <1>7 DEF SlotOf
<1> QED
  BY <1>1, <1>2, <1>3, <1>4, <1>5, <1>7, <1>8 DEF n, i

(* A read changes nothing of what has arrived.                             *)
LEMMA ReadHolds ==
    ASSUME TypeInv, format = "grains", NEW u \in Targets, Arrives(u), ReadTarget(u), NEW t \in Targets
    PROVE  /\ \A s \in 0 .. TargetCount - 1 :
                 /\ mem'[t][s][Header].index = mem[t][s][Header].index
                 /\ \A c \in 0 .. GrainLength - 1 : c # Header => mem'[t][s][c] = mem[t][s][c]
           /\ \A i \in Nat : \A c \in 0 .. GrainLength - 1 : Holds(t, i, c)' <=> Holds(t, i, c)
<1> DEFINE imm == notices[u][1].imm
<1>1. PICK slot \in 0 .. TargetCount - 1 :
         mem' = [mem EXCEPT ![u][slot] = AcceptGrain(@, imm)]
  <2>1. notices[u][1].first \in Nat
    BY ReadReports
  <2> QED
    BY <2>1, ReadReports, SlotTyped
<1>2. imm \in GrainNotice
  BY ReadReports
<1> HIDE DEF imm
<1>3. /\ mem = [v \in Targets |-> [k \in 0 .. TargetCount - 1 |-> mem[v][k]]]
      /\ \A v \in Targets : \A k \in 0 .. TargetCount - 1 :
            /\ mem[v][k] = [c \in 0 .. GrainLength - 1 |-> mem[v][k][c]]
            /\ mem[v][k][Header] \in GrainHeader
  BY DEF TypeInv, MemoryTyped, GrainsTyped
<1> DEFINE g == AcceptGrain(mem[u][slot], imm)
<1>4. /\ g[Header].index = mem[u][slot][Header].index
      /\ \A c \in 0 .. GrainLength - 1 : c # Header => g[c] = mem[u][slot][c]
  BY <1>2, <1>3, AcceptGrainIs
<1>5. mem' = [mem EXCEPT ![u][slot] = g]
  BY <1>1
<1> HIDE DEF g
<1>6. \A s \in 0 .. TargetCount - 1 : mem'[t][s] = IF t = u /\ s = slot THEN g ELSE mem[t][s]
  BY <1>3, <1>5
<1>7. ASSUME NEW s \in 0 .. TargetCount - 1
      PROVE  /\ mem'[t][s][Header].index = mem[t][s][Header].index
             /\ \A c \in 0 .. GrainLength - 1 : c # Header => mem'[t][s][c] = mem[t][s][c]
  <2>1. CASE t = u /\ s = slot
    <3>1. mem'[t][s] = g /\ mem[t][s] = mem[u][slot]
      BY <1>6, <2>1
    <3> QED
      BY <1>4, <3>1
  <2>2. CASE ~(t = u /\ s = slot)
    <3>1. mem'[t][s] = mem[t][s]
      BY <1>6, <2>2
    <3> QED
      BY <3>1
  <2> QED
    BY <2>1, <2>2
<1>8. ASSUME NEW i \in Nat, NEW c \in 0 .. GrainLength - 1
      PROVE  Holds(t, i, c)' <=> Holds(t, i, c)
  <2>1. SlotIn(i, TargetCount) \in 0 .. TargetCount - 1
    BY SlotTyped
  <2> QED
    BY <1>7, <2>1 DEF Holds, SlotOf
<1> QED
  BY <1>7, <1>8

LEMMA ReadArrives ==
    ASSUME TypeInv, format = "grains", NEW u \in Targets, Arrives(u), ReadTarget(u),
           NEW t \in Targets, Arrives(t)
    PROVE  Arrives(t)'
<1>1. /\ UNCHANGED <<produced, at, start, st, wire, head>>
      /\ notices' = [notices EXCEPT ![u] = Tail(@)] /\ Tail(notices[u]) \in Seq(Notice)
      /\ DOMAIN Tail(notices[u]) = 1 .. Len(notices[u]) - 1 /\ Len(notices[u]) \in Nat \ {0}
      /\ DOMAIN notices[u] = 1 .. Len(notices[u])
      /\ \A k \in 1 .. Len(notices[u]) - 1 : Tail(notices[u])[k] = notices[u][k + 1]
  BY ReadTargetIs
<1>2. reported' = [reported EXCEPT ![u] = notices[u][1].first] /\ 1 \in DOMAIN notices[u]
  BY ReadReports
<1>3. notices \in [Targets -> Seq(Notice)] /\ reported \in [Targets -> 0 .. MaxIndex]
  BY DEF TypeInv, MemoryTyped, ReadersTyped, WireTyped
<1>4. \A i \in Nat : \A c \in 0 .. GrainLength - 1 : Holds(t, i, c)' <=> Holds(t, i, c)
  BY ReadHolds
(* The notices that are left, each with the one it was. *)
<1>5. \A k \in DOMAIN notices'[t] :
         \E j \in DOMAIN notices[t] : /\ notices'[t][k] = notices[t][j]
                                      /\ j = IF t = u THEN k + 1 ELSE k
  <2>1. CASE t = u
    <3>1. notices'[t] = Tail(notices[t])
      BY <1>1, <1>3, <2>1
    <3>2. ASSUME NEW k \in DOMAIN Tail(notices[t])
          PROVE  k + 1 \in DOMAIN notices[t] /\ Tail(notices[t])[k] = notices[t][k + 1]
      BY <1>1, <2>1
    <3> QED
      BY <2>1, <3>1, <3>2
  <2>2. CASE t # u
    BY <1>1, <1>3, <2>2
  <2> QED
    BY <2>1, <2>2
<1>6. reported'[t] = IF t = u THEN notices[t][1].first ELSE reported[t]
  BY <1>2, <1>3
<1>7. Ordered(t)'
  <2>1. \A k \in DOMAIN wire[t] : reported'[t] <= wire[t][k].first
    BY <1>2, <1>6 DEF Arrives, Ordered
  <2>2. reported'[t] <= at /\ (reported'[t] # 0 => reported'[t] \in {head[t], head[t] + 1})
    BY <1>2, <1>6 DEF Arrives, Ordered
  <2>3. ASSUME NEW k \in DOMAIN notices'[t]
        PROVE  /\ notices'[t][k].first \in {head[t], head[t] + 1}
               /\ reported'[t] <= notices'[t][k].first /\ notices'[t][k].first <= at
               /\ \A l \in DOMAIN notices'[t] : k <= l => notices'[t][k].first <= notices'[t][l].first
               /\ \A l \in DOMAIN wire[t] : notices'[t][k].first <= wire[t][l].first
    <3>1. PICK j \in DOMAIN notices[t] : notices'[t][k] = notices[t][j] /\ j = (IF t = u THEN k + 1 ELSE k)
      BY <1>5
    <3>2. reported'[t] <= notices[t][j].first
      <4>1. t = u => 1 <= j /\ 1 \in DOMAIN notices[t]
        BY <1>2, GrainTypes
      <4> QED
        BY <1>6, <4>1 DEF Arrives, Ordered
    <3>3. ASSUME NEW l \in DOMAIN notices'[t], k <= l
          PROVE  notices'[t][k].first <= notices'[t][l].first
      <4>1. PICK m \in DOMAIN notices[t] : notices'[t][l] = notices[t][m] /\ m = (IF t = u THEN l + 1 ELSE l)
        BY <1>5
      <4>2. j <= m
        <5>1. k \in Int /\ l \in Int
          BY <3>1, <4>1, <1>1, <1>3, GrainTypes
        <5> QED
          BY <3>1, <3>3, <4>1, <5>1
      <4> QED
        BY <3>1, <4>1, <4>2 DEF Arrives, Ordered
    <3> QED
      BY <3>1, <3>2, <3>3 DEF Arrives, Ordered
  <2> QED
    BY <1>1, <2>1, <2>2, <2>3 DEF Arrives, Ordered
<1>8. Located(t)'
  <2>1. \A s \in 0 .. TargetCount - 1 : mem'[t][s][Header].index = mem[t][s][Header].index
    BY ReadHolds
  <2>2. \A k \in DOMAIN notices'[t] :
           notices'[t][k].slot = SlotIn(notices'[t][k].first, TargetCount)
           /\ notices'[t][k].imm.slot = notices'[t][k].slot
    BY <1>5 DEF Arrives, Located
  <2> QED
    BY <1>1, <2>1, <2>2 DEF Arrives, Located
<1>9. Backed(t)'
  BY <1>1 DEF Arrives, Backed, ValidAt
<1>10. ASSUME NEW k, NEW i \in Nat, NEW n \in 0 .. TotalSlices, Comes(t, k, i, n)
       PROVE  Comes(t, k, i, n)'
  <2>1. \A c \in Part(n) : c \in 0 .. GrainLength - 1
    BY PartIs
  <2> QED
    BY <1>1, <1>4, <1>10, <2>1 DEF Comes, Carries
<1>11. Announced(t)'
  <2>1. ASSUME NEW k \in DOMAIN wire[t], wire[t][k].write.imm
        PROVE  Comes(t, k, wire[t][k].first, wire[t][k].imm.slice)'
    <3>1. wire[t][k].first \in Nat /\ wire[t][k].imm.slice \in 0 .. TotalSlices
      BY GrainTypes
    <3>2. Comes(t, k, wire[t][k].first, wire[t][k].imm.slice)
      BY <2>1 DEF Arrives, Announced
    <3>3. PICK i \in Nat, n \in 0 .. TotalSlices : i = wire[t][k].first /\ n = wire[t][k].imm.slice
      BY <3>1
    <3>4. Comes(t, k, i, n)'
      BY <1>10, <3>2, <3>3
    <3> QED
      BY <1>1, <3>3, <3>4
  <2>2. ASSUME NEW k \in DOMAIN notices'[t], NEW c \in Part(notices'[t][k].imm.slice)
        PROVE  Holds(t, notices[t][k].first, c)'
    <3>1. PICK j \in DOMAIN notices[t] : notices'[t][k] = notices[t][j]
      BY <1>5
    <3>2. PICK i \in Nat, n \in 0 .. TotalSlices : i = notices[t][j].first /\ n = notices[t][j].imm.slice
      BY GrainTypes
    <3>3. c \in Part(n) /\ c \in 0 .. GrainLength - 1
      BY <2>2, <3>1, <3>2, PartIs
    <3>4. Holds(t, i, c)
      BY <3>2, <3>3 DEF Arrives, Announced
    <3>5. Holds(t, i, c)'
      BY <1>4, <3>3, <3>4
    <3> QED
      BY <3>1, <3>2, <3>5
  <2> QED
    BY <1>1, <2>1, <2>2 DEF Announced
<1>12. Continued(t)'
  <2>1. at \in Nat /\ start \in 0 .. TotalSlices
    BY GrainTypes
  <2>2. ASSUME Comes(t, Len(wire[t]), at, start) PROVE Comes(t, Len(wire[t]), at, start)'
    <3>1. PICK i \in Nat, n \in 0 .. TotalSlices, m \in Nat :
             i = at /\ n = start /\ m = Len(wire[t])
      BY <2>1, GrainTypes
    <3>2. Comes(t, m, i, n)'
      BY <1>10, <2>2, <3>1
    <3> QED
      BY <1>1, <3>1, <3>2
  <2> QED
    BY <1>1, <2>2 DEF Arrives, Continued
<1> QED
  BY <1>7, <1>8, <1>9, <1>11, <1>12 DEF Arrives

(* The source holds what a write is to carry.                              *)
LEMMA SourceIs ==
    ASSUME TypeInv, format = "grains", NEW t \in Targets, Arrives(t), NEW k \in DOMAIN wire[t],
           NEW c \in Part(TotalSlices), c \in Reach(wire[t][k].write)
    PROVE  IF c = Header THEN SourceGrain(wire[t][k].first)[c].index = wire[t][k].first
           ELSE SourceGrain(wire[t][k].first)[c] = wire[t][k].first
<1> DEFINE w == wire[t][k]
           i == w.first
<1>1. TotalSlices \in 0 .. TotalSlices
  BY LayoutConstants
<1>2. c \in 0 .. GrainLength - 1
  BY <1>1, PartIs
<1>3. SourceGrain(i)[c] =
         IF c = Header
         THEN [index |-> i, valid |-> ValidAt(i), invalid |-> i \in produced.invalid]
         ELSE IF i \in produced.invalid \/ SliceOfCell(c) >= ValidAt(i) THEN 0 ELSE i
  BY <1>2 DEF SourceGrain, ValidAt
<1>4. CASE c = Header
  <2> HIDE DEF i
  <2>1. SourceGrain(i)[c].index = i
    BY <1>3, <1>4
  <2> QED
    BY <1>4, <2>1 DEF i
<1>5. CASE c # Header
  <2>1. PICK p \in 1 .. Planes, s \in 0 .. TotalSlices - 1 : c \in CellsOf(p, s)
    BY <1>1, <1>5, PartIs
  <2>2. i \notin produced.invalid /\ s < ValidAt(i)
    BY <2>1 DEF Arrives, Backed
  <2>3. SliceOfCell(c) = s
    BY <2>1, SliceOfCellIs
  <2>4. ValidAt(i) \in Nat
    BY GrainTypes DEF ValidAt
  <2> HIDE DEF i
  <2>5. ~(SliceOfCell(c) >= ValidAt(i))
    BY <2>2, <2>3, <2>4
  <2> QED
    BY <1>3, <1>5, <2>2, <2>5 DEF i
<1> QED
  BY <1>4, <1>5

(* A write lands: its cells are there, and nothing that was there of the   *)
(* grains under way has gone.                                              *)
LEMMA Lands ==
    ASSUME TypeInv, format = "grains", NEW t \in Targets, Arrives(t), Complete(t, TRUE)
    PROVE  LET w == wire[t][1]
           IN  /\ w \in GrainEntry /\ w.slot \in 0 .. TargetCount - 1
               /\ \A u \in Targets : u # t => mem'[u] = mem[u]
               /\ \A s \in 0 .. TargetCount - 1 :
                     /\ s # w.slot => mem'[t][s] = mem[t][s]
                     /\ s = w.slot =>
                           /\ \A c \in 0 .. GrainLength - 1 :
                                 mem'[t][s][c] = IF c \in Reach(w.write) THEN SourceGrain(w.first)[c]
                                                 ELSE mem[t][s][c]
                           /\ mem'[t][s][Header].index =
                                 IF Header \in Reach(w.write) THEN w.first
                                 ELSE mem[t][s][Header].index
               /\ \A i \in {head[t], head[t] + 1} : \A c \in Part(TotalSlices) :
                     Holds(t, i, c) \/ Carries(t, 1, i, c) => Holds(t, i, c)'
<1> DEFINE w == wire[t][1]
           slot == w.slot
           f == w.first
<1>1. /\ wire[t] # <<>> /\ Len(wire[t]) \in Nat \ {0} /\ DOMAIN wire[t] = 1 .. Len(wire[t])
      /\ mem' = [mem EXCEPT ![t][slot] = WrittenGrain(w, @)]
  BY CompleteIs
<1>2. 1 \in DOMAIN wire[t]
  BY <1>1
<1>3. w \in GrainEntry /\ f \in Nat \ {0} /\ slot \in 0 .. TargetCount - 1
  BY <1>2, GrainTypes
<1>4. slot = SlotIn(f, TargetCount) /\ f \in {head[t], head[t] + 1}
  BY <1>2 DEF Arrives, Located, Ordered
<1>5. /\ mem = [v \in Targets |-> [k \in 0 .. TargetCount - 1 |-> mem[v][k]]]
      /\ \A v \in Targets : \A k \in 0 .. TargetCount - 1 :
            /\ mem[v][k] = [c \in 0 .. GrainLength - 1 |-> mem[v][k][c]]
            /\ mem[v][k][Header] \in GrainHeader
  BY DEF TypeInv, MemoryTyped, GrainsTyped
<1> DEFINE g == WrittenGrain(w, mem[t][slot])
<1>6. \A c \in 0 .. GrainLength - 1 :
         g[c] = IF c \in Reach(w.write) THEN SourceGrain(f)[c] ELSE mem[t][slot][c]
  <2>1. PICK v \in GrainEntry, s \in 0 .. TargetCount - 1 : v = w /\ s = slot
    BY <1>3
  <2> DEFINE grain == mem[t][s]
  <2>2. grain = [c \in 0 .. GrainLength - 1 |-> grain[c]] /\ grain[Header] \in GrainHeader
    BY <1>5
  <2>3. \A c \in 0 .. GrainLength - 1 :
           WrittenGrain(v, grain)[c] =
              IF c \in Reach(v.write) THEN SourceGrain(v.first)[c] ELSE grain[c]
    <3> HIDE DEF grain
    <3> QED
      BY <2>2, WrittenGrainIs
  <2>4. g = WrittenGrain(v, grain) /\ f = v.first
    BY <2>1
  <2> HIDE DEF g, f, w, slot
  <2> QED
    BY <2>1, <2>3, <2>4
<1>7. mem' = [mem EXCEPT ![t][slot] = g]
  BY <1>1
<1>8. TotalSlices \in 0 .. TotalSlices
  BY LayoutConstants
<1>9. Header \in 0 .. GrainLength - 1 /\ Header \in Part(TotalSlices)
  BY <1>8, PartIs
<1>10. \A c \in Part(TotalSlices) : c \in Reach(w.write) =>
          IF c = Header THEN SourceGrain(f)[c].index = f ELSE SourceGrain(f)[c] = f
  BY <1>2, SourceIs
<1>11. \A i, c : Carries(t, 1, i, c) <=> i = f /\ c \in Reach(w.write)
  BY DEF Carries
<1> HIDE DEF g, w, slot, f
<1>12. \A u \in Targets : u # t => mem'[u] = mem[u]
  BY <1>5, <1>7
<1>13. \A s \in 0 .. TargetCount - 1 : mem'[t][s] = IF s = slot THEN g ELSE mem[t][s]
  BY <1>3, <1>5, <1>7
<1>14. g[Header].index = IF Header \in Reach(w.write) THEN f ELSE mem[t][slot][Header].index
  BY <1>6, <1>9, <1>10
<1>15. ASSUME NEW i \in {head[t], head[t] + 1}, NEW c \in Part(TotalSlices),
              Holds(t, i, c) \/ Carries(t, 1, i, c)
       PROVE  Holds(t, i, c)'
  <2>1. head[t] \in Nat /\ i \in Nat
    BY GrainTypes
  <2>2. SlotIn(i, TargetCount) \in 0 .. TargetCount - 1
    BY <2>1, SlotTyped
  <2>3. c \in 0 .. GrainLength - 1
    BY <1>8, PartIs
  <2>4. CASE SlotIn(i, TargetCount) # slot
    <3>1. Holds(t, i, c)
      BY <1>4, <1>11, <1>15, <2>4
    <3> QED
      BY <1>13, <2>2, <2>4, <3>1 DEF Holds, SlotOf
  <2>5. CASE SlotIn(i, TargetCount) = slot
    <3>1. i = f
      <4>1. i - f < TargetCount /\ f - i < TargetCount
        BY <1>3, <1>4, <2>1, Sizes
      <4>2. (i % TargetCount) = (f % TargetCount)
        BY <1>4, <2>5 DEF SlotIn
      <4>3. TargetCount \in Nat \ {0}
        BY Sizes
      <4> QED
        BY <1>3, <2>1, <4>1, <4>2, <4>3, SameSlot
    <3>2. SlotOf(t, i)' = g
      BY <1>13, <2>2, <2>5 DEF SlotOf
    <3>3. CASE c \in Reach(w.write)
      <4>1. IF c = Header THEN g[c].index = i ELSE g[c] = i
        BY <1>6, <1>10, <2>3, <3>1, <3>3
      <4> QED
        BY <3>2, <4>1 DEF Holds
    <3>4. CASE c \notin Reach(w.write)
      <4>1. Holds(t, i, c)
        BY <1>11, <1>15, <3>4
      <4>2. g[c] = mem[t][slot][c]
        BY <1>6, <2>3, <3>4
      <4>3. SlotOf(t, i) = mem[t][slot]
        BY <2>5 DEF SlotOf
      <4> QED
        BY <3>2, <4>1, <4>2, <4>3 DEF Holds
    <3> QED
      BY <3>3, <3>4
  <2> QED
    BY <2>4, <2>5
<1>16. \A s \in 0 .. TargetCount - 1 : s = slot =>
          /\ \A c \in 0 .. GrainLength - 1 :
                mem'[t][s][c] = IF c \in Reach(w.write) THEN SourceGrain(f)[c] ELSE mem[t][s][c]
          /\ mem'[t][s][Header].index =
                IF Header \in Reach(w.write) THEN f ELSE mem[t][s][Header].index
  BY <1>3, <1>6, <1>13, <1>14
<1>17. \A s \in 0 .. TargetCount - 1 : s # slot => mem'[t][s] = mem[t][s]
  BY <1>13
<1> QED
  BY <1>3, <1>12, <1>15, <1>16, <1>17 DEF w, slot, f

(* What comes still comes when the oldest write has landed.                *)
LEMMA LandsAndComes ==
    ASSUME TypeInv, format = "grains", NEW t \in Targets, Arrives(t), Complete(t, TRUE),
           NEW k \in 1 .. Len(wire[t]), NEW i \in {head[t], head[t] + 1}, NEW n \in 0 .. TotalSlices,
           Comes(t, k, i, n)
    PROVE  Comes(t, k - 1, i, n)'
<1>1. /\ wire' = [wire EXCEPT ![t] = Tail(@)] /\ Len(wire[t]) \in Nat \ {0}
      /\ \A j \in 1 .. Len(wire[t]) - 1 : Tail(wire[t])[j] = wire[t][j + 1]
  BY CompleteIs
<1>2. wire'[t] = Tail(wire[t])
  BY <1>1 DEF TypeInv, WireTyped
<1>3. TotalSlices \in Nat /\ TotalSlices \in 0 .. TotalSlices
  BY LayoutConstants
<1>4. Part(n) \subseteq Part(TotalSlices)
  BY <1>3, PartIs
<1> SUFFICES ASSUME NEW c \in Part(n)
             PROVE  Holds(t, i, c)' \/ \E j \in 1 .. k - 1 : Carries(t, j, i, c)'
  BY DEF Comes
<1>5. CASE Holds(t, i, c) \/ Carries(t, 1, i, c)
  BY <1>4, <1>5, Lands
<1>6. CASE ~(Holds(t, i, c) \/ Carries(t, 1, i, c))
  <2>1. PICK j \in 1 .. k : Carries(t, j, i, c)
    BY <1>6 DEF Comes
  <2>2. j # 1
    BY <1>6, <2>1
  <2>3. j - 1 \in 1 .. k - 1 /\ j - 1 \in 1 .. Len(wire[t]) - 1 /\ (j - 1) + 1 = j
    BY <1>1, <2>2
  <2>4. wire'[t][j - 1] = wire[t][j]
    BY <1>1, <1>2, <2>3
  <2>5. Carries(t, j - 1, i, c)'
    BY <2>1, <2>4 DEF Carries
  <2> QED
    BY <2>3, <2>5
<1> QED
  BY <1>5, <1>6

(* The writes and notices a target is left with when a write has landed.   *)
LEMMA LandsAndLeaves ==
    ASSUME TypeInv, format = "grains", NEW t \in Targets, Complete(t, TRUE)
    PROVE  LET w == wire[t][1]
           IN  /\ 1 \in DOMAIN wire[t] /\ Len(wire[t]) \in Nat \ {0}
               /\ Len(wire'[t]) = Len(wire[t]) - 1
               /\ DOMAIN wire'[t] = 1 .. Len(wire[t]) - 1
               /\ \A k \in DOMAIN wire'[t] : wire'[t][k] = wire[t][k + 1] /\ k + 1 \in DOMAIN wire[t]
               /\ \A k \in DOMAIN notices'[t] :
                     \/ k \in DOMAIN notices[t] /\ notices'[t][k] = notices[t][k]
                     \/ /\ w.write.imm /\ k = Len(notices[t]) + 1
                        /\ notices'[t][k] = [slot |-> w.slot, imm |-> w.imm, first |-> w.first]
<1> DEFINE w == wire[t][1]
           e == [slot |-> w.slot, imm |-> w.imm, first |-> w.first]
           N == [slot : 0 .. TargetCount - 1, imm : GrainNotice, first : 1 .. MaxGrain]
<1>1. /\ wire' = [wire EXCEPT ![t] = Tail(@)] /\ Len(wire[t]) \in Nat \ {0} /\ w \in GrainEntry
      /\ Len(Tail(wire[t])) = Len(wire[t]) - 1 /\ DOMAIN Tail(wire[t]) = 1 .. Len(wire[t]) - 1
      /\ DOMAIN wire[t] = 1 .. Len(wire[t])
      /\ \A j \in 1 .. Len(wire[t]) - 1 : Tail(wire[t])[j] = wire[t][j + 1]
      /\ w.write.imm => notices' = [notices EXCEPT ![t] = Append(@, e)]
      /\ ~w.write.imm => notices' = notices
  BY CompleteIs DEF Entry
<1>2. wire'[t] = Tail(wire[t])
  BY <1>1 DEF TypeInv, WireTyped
<1>3. e \in N
  BY <1>1 DEF GrainEntry
<1>4. notices \in [Targets -> Seq(N)]
  BY DEF TypeInv, WireTyped, Notice
<1>5. ASSUME NEW k \in DOMAIN wire'[t]
      PROVE  wire'[t][k] = wire[t][k + 1] /\ k + 1 \in DOMAIN wire[t]
  <2>1. k \in 1 .. Len(wire[t]) - 1
    BY <1>1, <1>2
  <2>2. Len(wire[t]) \in Nat
    BY <1>1
  <2>3. k + 1 \in 1 .. Len(wire[t])
    BY <2>1, <2>2
  <2> QED
    BY <1>1, <1>2, <2>1, <2>3
<1> HIDE DEF N, e, w
<1>6. ASSUME NEW k \in DOMAIN notices'[t]
      PROVE  \/ k \in DOMAIN notices[t] /\ notices'[t][k] = notices[t][k]
             \/ w.write.imm /\ k = Len(notices[t]) + 1 /\ notices'[t][k] = e
  <2>1. CASE w.write.imm
    <3>1. notices'[t] = Append(notices[t], e) /\ notices[t] \in Seq(N)
      BY <1>1, <1>4, <2>1
    <3>2. /\ Len(notices[t]) \in Nat
          /\ DOMAIN notices[t] = 1 .. Len(notices[t])
          /\ DOMAIN Append(notices[t], e) = 1 .. Len(notices[t]) + 1
          /\ \A j \in 1 .. Len(notices[t]) : Append(notices[t], e)[j] = notices[t][j]
          /\ Append(notices[t], e)[Len(notices[t]) + 1] = e
      BY <1>3, <3>1, Appended
    <3> QED
      BY <1>6, <2>1, <3>1, <3>2
  <2>2. CASE ~w.write.imm
    BY <1>1, <1>6, <2>2
  <2> QED
    BY <2>1, <2>2
<1>7. 1 \in DOMAIN wire[t]
  BY <1>1
<1> QED
  BY <1>1, <1>2, <1>5, <1>6, <1>7 DEF e, w

LEMMA CompleteArrives ==
    ASSUME TypeInv, format = "grains", NEW u \in Targets, Complete(u, TRUE),
           NEW t \in Targets, Arrives(t)
    PROVE  Arrives(t)'
<1> DEFINE w == wire[u][1]
<1>1. /\ UNCHANGED <<produced, at, start, st, reported, head>>
      /\ wire' = [wire EXCEPT ![u] = Tail(@)]
      /\ w.write.imm => notices' = [notices EXCEPT
                           ![u] = Append(@, [slot |-> w.slot, imm |-> w.imm, first |-> w.first])]
      /\ ~w.write.imm => notices' = notices
      /\ mem' = [mem EXCEPT ![u][w.slot] = WrittenGrain(w, @)]
  BY CompleteIs
<1>2. CASE t # u
  <2> HIDE DEF w
  <2>1. wire'[t] = wire[t] /\ notices'[t] = notices[t]
    BY <1>1, <1>2 DEF TypeInv, WireTyped
  <2>2. mem = [v \in Targets |-> [k \in 0 .. TargetCount - 1 |-> mem[v][k]]]
    BY DEF TypeInv, MemoryTyped, GrainsTyped
  <2>3. mem'[t] = mem[t]
    BY <1>1, <1>2, <2>2
  <2>4. at' \in Nat /\ at <= at'
    BY <1>1, GrainTypes
  <2> QED
    BY <1>1, <2>1, <2>3, <2>4, SameTarget DEF Arrives
<1>3. CASE t = u
  <2>1. /\ 1 \in DOMAIN wire[t] /\ Len(wire[t]) \in Nat \ {0}
        /\ Len(wire'[t]) = Len(wire[t]) - 1
        /\ DOMAIN wire'[t] = 1 .. Len(wire[t]) - 1
        /\ \A k \in DOMAIN wire'[t] : wire'[t][k] = wire[t][k + 1] /\ k + 1 \in DOMAIN wire[t]
        /\ \A k \in DOMAIN notices'[t] :
              \/ k \in DOMAIN notices[t] /\ notices'[t][k] = notices[t][k]
              \/ /\ w.write.imm /\ k = Len(notices[t]) + 1
                 /\ notices'[t][k] = [slot |-> w.slot, imm |-> w.imm, first |-> w.first]
    BY <1>3, LandsAndLeaves
  <2>2. w = wire[t][1]
    BY <1>3
  <2> HIDE DEF w
  <2>3. /\ \A k \in DOMAIN wire[t] : k \in Int /\ 1 <= k /\ k <= Len(wire[t])
        /\ \A k \in DOMAIN notices[t] : k \in Int /\ k <= Len(notices[t])
        /\ Len(notices[t]) \in Nat /\ head[t] \in Nat /\ at \in Nat
    BY GrainTypes
  <2>4. Ordered(t)'
    <3>1. /\ head[t] <= at /\ reported[t] <= at
          /\ reported[t] # 0 => reported[t] \in {head[t], head[t] + 1}
          /\ \A k \in DOMAIN wire[t] :
                /\ wire[t][k].first \in {head[t], head[t] + 1}
                /\ reported[t] <= wire[t][k].first /\ wire[t][k].first <= at
                /\ \A l \in DOMAIN wire[t] : k <= l => wire[t][k].first <= wire[t][l].first
          /\ \A k \in DOMAIN notices[t] :
                /\ notices[t][k].first \in {head[t], head[t] + 1}
                /\ reported[t] <= notices[t][k].first /\ notices[t][k].first <= at
                /\ \A l \in DOMAIN notices[t] : k <= l => notices[t][k].first <= notices[t][l].first
                /\ \A l \in DOMAIN wire[t] : notices[t][k].first <= wire[t][l].first
      BY DEF Arrives, Ordered
    <3>2. ASSUME NEW k \in DOMAIN wire'[t]
          PROVE  /\ wire'[t][k].first \in {head[t], head[t] + 1}
                 /\ reported[t] <= wire'[t][k].first /\ wire'[t][k].first <= at
                 /\ \A l \in DOMAIN wire'[t] : k <= l => wire'[t][k].first <= wire'[t][l].first
      <4>1. \A l \in DOMAIN wire'[t] : k <= l => k + 1 <= l + 1
        BY <2>1
      <4> QED
        BY <2>1, <3>1, <4>1
    <3>3. ASSUME NEW k \in DOMAIN notices'[t]
          PROVE  /\ notices'[t][k].first \in {head[t], head[t] + 1}
                 /\ reported[t] <= notices'[t][k].first /\ notices'[t][k].first <= at
                 /\ \A l \in DOMAIN wire'[t] : notices'[t][k].first <= wire'[t][l].first
      <4>1. CASE k \in DOMAIN notices[t] /\ notices'[t][k] = notices[t][k]
        BY <2>1, <3>1, <4>1
      <4>2. CASE notices'[t][k] = [slot |-> w.slot, imm |-> w.imm, first |-> w.first]
        <5>1. notices'[t][k].first = wire[t][1].first
          BY <2>2, <4>2
        <5>2. \A l \in DOMAIN wire'[t] : 1 <= l + 1
          BY <2>1
        <5> QED
          BY <2>1, <3>1, <5>1, <5>2
      <4> QED
        BY <2>1, <4>1, <4>2
    <3>4. ASSUME NEW k \in DOMAIN notices'[t], NEW l \in DOMAIN notices'[t], k <= l
          PROVE  notices'[t][k].first <= notices'[t][l].first
      <4>1. CASE l \in DOMAIN notices[t] /\ notices'[t][l] = notices[t][l]
        <5>1. k \in DOMAIN notices[t] /\ notices'[t][k] = notices[t][k]
          BY <2>1, <2>3, <3>4, <4>1
        <5> QED
          BY <3>1, <3>4, <4>1, <5>1
      <4>2. CASE notices'[t][l] = [slot |-> w.slot, imm |-> w.imm, first |-> w.first]
        <5>1. notices'[t][l].first = wire[t][1].first
          BY <2>2, <4>2
        <5>2. CASE k \in DOMAIN notices[t] /\ notices'[t][k] = notices[t][k]
          BY <2>1, <3>1, <5>1, <5>2
        <5>3. CASE notices'[t][k] = [slot |-> w.slot, imm |-> w.imm, first |-> w.first]
          <6>1. notices'[t][k].first = wire[t][1].first /\ wire[t][1].first \in Nat
            BY <2>1, <2>2, <5>3, GrainTypes
          <6> QED
            BY <5>1, <6>1
        <5> QED
          BY <2>1, <5>2, <5>3
      <4> QED
        BY <2>1, <4>1, <4>2
    <3> QED
      BY <1>1, <3>1, <3>2, <3>3, <3>4 DEF Ordered
  <2>5. Located(t)'
    <3>1. \A k \in DOMAIN wire'[t] :
             /\ wire'[t][k].slot = SlotIn(wire'[t][k].first, TargetCount)
             /\ wire'[t][k].imm.slot = wire'[t][k].slot
      BY <2>1 DEF Arrives, Located
    <3>2. /\ w.slot = SlotIn(w.first, TargetCount) /\ w.imm.slot = w.slot
          /\ w.first \in {head[t], head[t] + 1}
      BY <2>1, <2>2 DEF Arrives, Located, Ordered
    <3>3. ASSUME NEW k \in DOMAIN notices'[t]
          PROVE  /\ notices'[t][k].slot = SlotIn(notices'[t][k].first, TargetCount)
                 /\ notices'[t][k].imm.slot = notices'[t][k].slot
      <4>1. CASE k \in DOMAIN notices[t] /\ notices'[t][k] = notices[t][k]
        BY <4>1 DEF Arrives, Located
      <4>2. CASE notices'[t][k] = [slot |-> w.slot, imm |-> w.imm, first |-> w.first]
        BY <3>2, <4>2
      <4> QED
        BY <2>1, <4>1, <4>2
    <3>4. ASSUME NEW s \in 0 .. TargetCount - 1
          PROVE  \/ mem'[t][s][Header].index = 0
                 \/ /\ SlotIn(mem'[t][s][Header].index, TargetCount) = s
                    /\ mem'[t][s][Header].index <= head[t] + 1
      <4>1. mem'[t][s][Header].index = mem[t][s][Header].index
            \/ (s = w.slot /\ mem'[t][s][Header].index = w.first)
        BY <1>3, <2>2, Lands
      <4>2. w.first <= head[t] + 1
        BY <2>3, <3>2
      <4> QED
        BY <3>2, <4>1, <4>2 DEF Arrives, Located
    <3> QED
      BY <1>1, <3>1, <3>3, <3>4 DEF Located
  <2>6. Backed(t)'
    BY <1>1, <2>1 DEF Arrives, Backed, ValidAt
  <2>7. Announced(t)'
    <3>1. ASSUME NEW k \in DOMAIN wire'[t], wire'[t][k].write.imm
          PROVE  Comes(t, k, wire[t][k].first, wire[t][k].imm.slice)'
      <4>1. k + 1 \in DOMAIN wire[t] /\ wire'[t][k] = wire[t][k + 1]
        BY <2>1
      <4>2. PICK i \in {head[t], head[t] + 1}, n \in 0 .. TotalSlices, j \in 1 .. Len(wire[t]) :
               i = wire[t][k + 1].first /\ n = wire[t][k + 1].imm.slice /\ j = k + 1
        BY <4>1, GrainTypes DEF Arrives, Ordered
      <4>3. Comes(t, j, i, n)
        BY <3>1, <4>1, <4>2 DEF Arrives, Announced
      <4>4. Comes(t, j - 1, i, n)'
        BY <1>3, <4>2, <4>3, LandsAndComes
      <4>5. j - 1 = k
        BY <2>1, <4>2
      <4> QED
        BY <4>1, <4>2, <4>4, <4>5
    <3>2. ASSUME NEW k \in DOMAIN notices'[t], NEW c \in Part(notices'[t][k].imm.slice)
          PROVE  Holds(t, notices[t][k].first, c)'
      <4>1. CASE k \in DOMAIN notices[t] /\ notices'[t][k] = notices[t][k]
        <5>1. PICK i \in {head[t], head[t] + 1}, n \in 0 .. TotalSlices :
                 i = notices[t][k].first /\ n = notices[t][k].imm.slice
          BY <4>1, GrainTypes DEF Arrives, Ordered
        <5>2. c \in Part(n) /\ Holds(t, i, c)
          BY <3>2, <4>1, <5>1 DEF Arrives, Announced
        <5>3. TotalSlices \in 0 .. TotalSlices
          BY LayoutConstants
        <5>4. c \in Part(TotalSlices)
          BY <5>2, <5>3, PartIs
        <5>5. Holds(t, i, c)'
          BY <1>3, <5>2, <5>4, Lands
        <5> QED
          BY <4>1, <5>1, <5>5
      <4>2. CASE w.write.imm /\ notices'[t][k] = [slot |-> w.slot, imm |-> w.imm, first |-> w.first]
        <5>1. notices'[t][k].first = w.first /\ notices'[t][k].imm.slice = w.imm.slice
          BY <4>2
        <5>2. PICK i \in {head[t], head[t] + 1}, n \in 0 .. TotalSlices, j \in 1 .. Len(wire[t]) :
                 i = w.first /\ n = w.imm.slice /\ j = 1
          BY <2>1, <2>2, GrainTypes DEF Arrives, Ordered
        <5>3. Comes(t, j, i, n)
          BY <2>1, <2>2, <4>2, <5>2 DEF Arrives, Announced
        <5>4. Comes(t, j - 1, i, n)'
          BY <1>3, <5>2, <5>3, LandsAndComes
        <5>5. c \in Part(n) /\ ~ \E l \in 1 .. j - 1 : TRUE
          BY <3>2, <5>1, <5>2
        <5>6. Holds(t, i, c)'
          BY <5>4, <5>5 DEF Comes
        <5> QED
          BY <5>1, <5>2, <5>6
      <4> QED
        BY <2>1, <4>1, <4>2
    <3> QED
      BY <3>1, <3>2 DEF Announced
  <2>8. Continued(t)'
    <3>1. ASSUME st[t] # "Absent", start > 0
          PROVE  Comes(t, Len(wire[t]), at, start)'
      <4>1. PICK i \in {head[t], head[t] + 1}, n \in 0 .. TotalSlices, j \in 1 .. Len(wire[t]) :
               i = at /\ n = start /\ j = Len(wire[t])
        <5>1. head[t] <= at /\ at <= head[t] + 1
          BY <3>1 DEF Arrives, Ordered, Continued
        <5>2. at \in {head[t], head[t] + 1}
          BY <2>3, <5>1
        <5>3. start \in 0 .. TotalSlices /\ Len(wire[t]) \in 1 .. Len(wire[t])
          BY <2>1, GrainTypes
        <5> QED
          BY <5>2, <5>3
      <4>2. Comes(t, j, i, n)
        BY <3>1, <4>1 DEF Arrives, Continued
      <4>3. Comes(t, j - 1, i, n)'
        BY <1>3, <4>1, <4>2, LandsAndComes
      <4>4. j - 1 = Len(wire'[t])
        BY <2>1, <4>1
      <4> QED
        BY <1>1, <4>1, <4>3, <4>4
    <3> QED
      BY <1>1, <3>1 DEF Arrives, Continued
  <2> QED
    BY <2>4, <2>5, <2>6, <2>7, <2>8 DEF Arrives
<1> QED
  BY <1>2, <1>3

\* What a transfer has done to the writes for t, m of the posts of a grain being
\* posted, each of them if the transfer was not refused.
Sent(t, m) ==
    /\ m \in 0 .. Len(GrainWrites(From, Upto))
    /\ Len(wire'[t]) = Len(wire[t]) + m /\ DOMAIN wire'[t] = 1 .. Len(wire[t]) + m
    /\ \A k \in 1 .. Len(wire[t]) : wire'[t][k] = wire[t][k]
    /\ \A k \in 1 .. m :
          wire'[t][Len(wire[t]) + k] =
             [token |-> token[t], first |-> at, write |-> GrainWrites(From, Upto)[k],
              slot |-> SlotIn(at, TargetCount), imm |-> GrainImm(SlotIn(at, TargetCount), Upto)]
    /\ t \notin Active => m = 0 /\ st[t] = "Absent"
    /\ \/ /\ at' = at /\ start' = start /\ jammed'
          /\ Cardinality(Targets) = 1 => m < Len(GrainWrites(From, Upto))
       \/ /\ t \in Active => m = Len(GrainWrites(From, Upto))
          /\ \/ at' = at /\ start' = GrainEnd /\ GrainEnd < TotalSlices
             \/ at' = at + 1 /\ start' = 0

(* With one target a transfer that is refused has not posted its last      *)
(* write.                                                                  *)
LEMMA RefusedShare ==
    ASSUME TypeInv, Cardinality(Targets) = 1, NEW t \in Targets, NEW each \in Nat \ {0}, NEW n \in Nat,
           n < each * Cardinality(Active)
    PROVE  Share(t, each, n) < each
<1>1. \E x : Targets = {x}
  BY Sizes, FS_Singleton
<1>2. Targets = {t}
  BY <1>1
<1>3. CASE t \in Active
  <2>1. Active = {t} /\ Cardinality(Active) = 1
    BY <1>2, <1>3, FS_Singleton DEF Active
  <2>2. Before(t) = {}
    <3>1. token[t] \in Int
      BY DEF TypeInv, TargetsTyped
    <3> QED
      BY <2>1, <3>1 DEF Before
  <2>3. Cardinality(Before(t)) = 0
    BY <2>2, FS_EmptySet
  <2>4. n < each /\ n - each * Cardinality(Before(t)) = n
    BY <2>1, <2>3
  <2> QED
    BY <2>4 DEF Share
<1>4. CASE t \notin Active
  BY <1>4 DEF Share
<1> QED
  BY <1>3, <1>4

LEMMA TransferSends ==
    ASSUME TypeInv, TransferGrain, NEW t \in Targets
    PROVE  /\ \E m : Sent(t, m)
           /\ t \in Active => at <= head[t] + 1
           /\ at <= produced.newest /\ (start < GrainEnd \/ at \in produced.invalid)
           /\ UNCHANGED <<format, produced, st, mem, notices, reported, head, lost>>
<1> DEFINE ws == GrainWrites(From, Upto)
           each == Len(ws)
           all  == each * Cardinality(Active)
           P == [u \in Targets |-> GrainPosts(u)]
<1>1. /\ format = "grains" /\ \A u \in Targets : st[u] # "Idle"
      /\ \A u \in Active : KeepsUp(u)
      /\ at <= produced.newest /\ (start < GrainEnd \/ at \in produced.invalid)
      /\ each \in Nat \ {0} /\ all \in Nat
      /\ UNCHANGED <<format, produced, st, mem, notices, reported, head, lost>>
  BY TransferGrainIs
<1>2. PICK n \in 0 .. all :
         /\ wire' = [u \in Targets |-> wire[u] \o SubSeq(P[u], 1, Share(u, each, n))]
         /\ jammed' = (jammed \/ n < all)
         /\ n < all => UNCHANGED <<at, start>>
         /\ n = all => IF GrainEnd < TotalSlices THEN at' = at /\ start' = GrainEnd
                       ELSE at' = at + 1 /\ start' = 0
  BY TransferGrainIs
<1>3. n \in Nat /\ (n < all \/ n = all)
  BY <1>1
<1>4. Posted(P, each, n)
  BY <1>2, <1>3, TransferGrainPosts
<1>5. /\ Share(t, each, n) \in 0 .. each
      /\ t \notin Active => Share(t, each, n) = 0
      /\ n = all /\ t \in Active => Share(t, each, n) = each
      /\ n < all /\ Cardinality(Targets) = 1 => Share(t, each, n) < each
  <2>1. each \in Nat /\ each \in Nat \ {0}
    BY <1>1
  <2>2. all = each * Cardinality(Active)
    OBVIOUS
  <2> HIDE DEF each, all
  <2>3. /\ \A u \in Targets : Share(u, each, n) \in 0 .. each
        /\ \A u \in Targets \ Active : Share(u, each, n) = 0
        /\ n = each * Cardinality(Active) => \A u \in Active : Share(u, each, n) = each
    BY <1>3, <2>1, Shares
  <2>4. n < each * Cardinality(Active) /\ Cardinality(Targets) = 1 => Share(t, each, n) < each
    BY <1>3, <2>1, RefusedShare
  <2> QED
    BY <2>2, <2>3, <2>4
<1>6. P[t] = GrainPosts(t)
  OBVIOUS
<1>7. t \in Active => \A k \in 1 .. Len(ws) :
         GrainPosts(t)[k] =
            [token |-> token[t], first |-> at, write |-> ws[k],
             slot |-> SlotIn(at, TargetCount), imm |-> GrainImm(SlotIn(at, TargetCount), Upto)]
  BY <1>1, GrainPostsAre
<1> DEFINE m == Share(t, each, n)
<1> HIDE DEF P
<1>8. /\ Len(wire'[t]) = Len(wire[t]) + m
      /\ DOMAIN wire'[t] = 1 .. Len(wire[t]) + m
      /\ \A k \in 1 .. Len(wire[t]) : wire'[t][k] = wire[t][k]
      /\ \A k \in 1 .. m : wire'[t][Len(wire[t]) + k] = P[t][k]
  BY <1>4, Posting
<1>9. t \notin Active => st[t] = "Absent"
  BY <1>1 DEF Active, TypeInv, TargetsTyped
<1> HIDE DEF m, all, each, ws
<1>10. \A k \in 1 .. m :
          wire'[t][Len(wire[t]) + k] =
             [token |-> token[t], first |-> at, write |-> ws[k],
              slot |-> SlotIn(at, TargetCount), imm |-> GrainImm(SlotIn(at, TargetCount), Upto)]
  <2> TAKE k \in 1 .. m
  <2>1. m \in 0 .. each
    BY <1>5 DEF m
  <2>2. t \in Active
    BY <1>5, <2>1 DEF m
  <2>3. k \in 1 .. Len(ws)
    BY <1>1, <2>1 DEF each
  <2> QED
    BY <1>6, <1>7, <1>8, <2>2, <2>3
<1>11. Sent(t, m)
  <2>1. /\ m \in 0 .. Len(ws) /\ (n = all /\ t \in Active => m = Len(ws)) /\ (t \notin Active => m = 0)
        /\ n < all /\ Cardinality(Targets) = 1 => m < Len(ws)
    BY <1>5 DEF m, each
  <2>2. \/ at' = at /\ start' = start /\ jammed' /\ n < all
        \/ /\ n = all
           /\ \/ at' = at /\ start' = GrainEnd /\ GrainEnd < TotalSlices
              \/ at' = at + 1 /\ start' = 0
    BY <1>2, <1>3
  <2> QED
    BY <1>8, <1>9, <1>10, <2>1, <2>2 DEF Sent, ws
<1> QED
  BY <1>1, <1>11 DEF KeepsUp

\* The immediate data has room for the number of a slot.
SlotsFit == TargetCount <= 65536

LEMMA FieldFits ==
    ASSUME NEW n \in Nat \ {0}, TargetCount <= n, NEW slot \in 0 .. TargetCount - 1, NEW slice \in Nat
    PROVE  (slot % n) = slot /\ (slice % n) \in 0 .. slice
<1>1. slot \in 0 .. n - 1
  BY Sizes
<1> QED
  BY <1>1, SmallRemainder, RemainderIsLess

(* The writes for a target after a transfer: those that were there, and    *)
(* those of the grain that is transferred.                                 *)
LEMMA SentEntries ==
    ASSUME TypeInv, format = "grains", SlotsFit, at <= produced.newest,
           start < GrainEnd \/ at \in produced.invalid,
           NEW t \in Targets, NEW m, Sent(t, m), NEW k \in DOMAIN wire'[t]
    PROVE  \/ k \in DOMAIN wire[t] /\ wire'[t][k] = wire[t][k]
           \/ LET w == wire'[t][k]
                  j == k - Len(wire[t])
              IN  /\ t \in Active /\ k > Len(wire[t]) /\ j \in 1 .. m
                  /\ w.first = at /\ w.slot = SlotIn(at, TargetCount) /\ w.imm.slot = w.slot
                  /\ w.imm.slice \in 0 .. Upto
                  /\ w.write = GrainWrites(From, Upto)[j]
                  /\ w.write.imm = (j = Len(GrainWrites(From, Upto)))
                  /\ Header \in Reach(w.write) => j = 1 /\ start = 0
                  /\ \A q \in 1 .. Planes : \A s \in 0 .. TotalSlices - 1 : \A c \in CellsOf(q, s) :
                        c \in Reach(w.write) => start <= s /\ s < Upto
<1> DEFINE L == Len(wire[t])
           ws == GrainWrites(From, Upto)
           slot == SlotIn(at, TargetCount)
           j == k - L
<1>1. L \in Nat /\ DOMAIN wire[t] = 1 .. L
  BY GrainTypes
<1>2. From \in 0 .. TotalSlices /\ Upto \in From .. TotalSlices /\ From = start /\ at \in 1 .. MaxGrain
  BY GrainRange
<1>3. m \in 0 .. Len(ws) /\ DOMAIN wire'[t] = 1 .. L + m /\ Len(ws) \in Nat
  BY <1>2, GrainWritesAre DEF Sent
<1>4. CASE k <= L
  BY <1>1, <1>3, <1>4 DEF Sent
<1>5. CASE k > L
  <2>1. j \in 1 .. m /\ L + j = k /\ j \in 1 .. Len(ws)
    BY <1>1, <1>3, <1>5
  <2> DEFINE w == wire'[t][k]
  <2>2. w = [token |-> token[t], first |-> at, write |-> ws[j], slot |-> slot,
             imm |-> GrainImm(slot, Upto)]
    BY <2>1 DEF Sent
  <2>3. t \in Active
    BY <1>3, <2>1 DEF Sent
  <2>4. slot \in 0 .. TargetCount - 1 /\ Upto \in Nat
    BY <1>2, Sizes, SlotTyped, LayoutConstants
  <2>5. (slot % 65536) = slot /\ (Upto % 65536) \in 0 .. Upto
    <3> HIDE DEF slot
    <3>1. TargetCount <= 65536 /\ 65536 \in Nat \ {0}
      BY DEF SlotsFit
    <3> QED
      BY <2>4, <3>1, FieldFits
  <2>6. /\ ws[j].imm = (j = Len(ws))
        /\ Header \in Reach(ws[j]) => j = 1 /\ From = 0
        /\ \A q \in 1 .. Planes : \A s \in 0 .. TotalSlices - 1 : \A c \in CellsOf(q, s) :
              c \in Reach(ws[j]) => From <= s /\ s < Upto
    <3>1. PICK i \in 1 .. Len(ws) : i = j
      BY <2>1
    <3>2. /\ ws[i].imm = (i = Len(ws))
          /\ Header \in Reach(ws[i]) => i = 1 /\ From = 0
          /\ \A q \in 1 .. Planes : \A s \in 0 .. TotalSlices - 1 : \A c \in CellsOf(q, s) :
                c \in Reach(ws[i]) => From <= s /\ s < Upto
      BY <1>2, GrainWritesAre
    <3> HIDE DEF ws, j
    <3> QED
      BY <3>1, <3>2
  <2> HIDE DEF ws, slot, j, w, L
  <2>7. /\ w.first = at /\ w.slot = slot /\ w.write = ws[j]
        /\ w.imm.slot = (slot % 65536) /\ w.imm.slice = (Upto % 65536)
    BY <2>2 DEF GrainImm
  <2>8. /\ w.imm.slot = w.slot /\ w.imm.slice \in 0 .. Upto
    BY <2>5, <2>7
  <2>9. /\ w.write.imm = (j = Len(ws))
        /\ Header \in Reach(w.write) => j = 1 /\ start = 0
        /\ \A q \in 1 .. Planes : \A s \in 0 .. TotalSlices - 1 : \A c \in CellsOf(q, s) :
              c \in Reach(w.write) => start <= s /\ s < Upto
    BY <1>2, <2>6, <2>7
  <2> QED
    BY <1>5, <2>1, <2>3, <2>7, <2>8, <2>9 DEF w, ws, slot, j, L
<1> QED
  BY <1>1, <1>3, <1>4, <1>5

(* When all its writes are posted, the slices up to the end of the range   *)
(* have come.                                                              *)
LEMMA SentComes ==
    ASSUME TypeInv, format = "grains", at <= produced.newest,
           start < GrainEnd \/ at \in produced.invalid,
           NEW t \in Active, Arrives(t), Sent(t, Len(GrainWrites(From, Upto))), mem' = mem
    PROVE  \A c \in Part(Upto) :
              Holds(t, at, c) \/ \E j \in 1 .. Len(wire'[t]) : wire'[t][j].first = at /\ c \in Reach(wire'[t][j].write)
<1> DEFINE L == Len(wire[t])
           ws == GrainWrites(From, Upto)
           F(j) == wire'[t][j].first = at
           W(j) == wire'[t][j].write
<1>0. t \in Targets /\ st[t] # "Absent"
  BY DEF Active
<1>1. L \in Nat /\ DOMAIN wire[t] = 1 .. L
  BY <1>0, GrainTypes
<1>2. From \in 0 .. TotalSlices /\ Upto \in From .. TotalSlices /\ From = start
  BY GrainRange
<1>3. /\ Len(ws) \in Nat \ {0}
      /\ From = 0 => Header \in Reach(ws[1])
      /\ \A q \in 1 .. Planes : \A s \in From .. Upto - 1 : \A c \in CellsOf(q, s) :
            \E k \in 1 .. Len(ws) : c \in Reach(ws[k])
  <2>1. /\ Len(ws) \in Nat \ {0}
        /\ From = 0 => Header \in Reach(ws[1])
    BY <1>2, GrainWritesAre
  <2>2. \A q \in 1 .. Planes : \A s \in From .. Upto - 1 : \A c \in CellsOf(q, s) :
           \E k \in 1 .. Len(ws) : c \in Reach(ws[k])
    BY <1>2, GrainWritesAre
  <2> QED
    BY <2>1, <2>2
<1>4. /\ Len(wire'[t]) = L + Len(ws)
      /\ \A k \in 1 .. L : wire'[t][k] = wire[t][k]
      /\ \A k \in 1 .. Len(ws) : F(L + k) /\ W(L + k) = ws[k]
  <2>1. /\ Len(wire'[t]) = L + Len(ws)
        /\ \A k \in 1 .. L : wire'[t][k] = wire[t][k]
    BY DEF Sent
  <2>2. ASSUME NEW k \in 1 .. Len(ws) PROVE F(L + k) /\ W(L + k) = ws[k]
    <3>1. wire'[t][L + k] =
             [token |-> token[t], first |-> at, write |-> ws[k],
              slot |-> SlotIn(at, TargetCount), imm |-> GrainImm(SlotIn(at, TargetCount), Upto)]
      BY DEF Sent
    <3> HIDE DEF L, ws
    <3> QED
      BY <3>1
  <2> QED
    BY <2>1, <2>2
<1>5. \A k \in 1 .. Len(ws) : L + k \in 1 .. Len(wire'[t])
  BY <1>1, <1>3, <1>4
<1>6. \A k \in 1 .. L : k \in 1 .. Len(wire'[t])
  BY <1>1, <1>3, <1>4
<1> HIDE DEF ws, L
<1>7. ASSUME start > 0, NEW c \in Part(start)
      PROVE  Holds(t, at, c) \/ \E j \in 1 .. Len(wire'[t]) : F(j) /\ c \in Reach(W(j))
  <2>1. Comes(t, L, at, start)
    BY <1>0, <1>7 DEF Arrives, Continued, L
  <2>2. Holds(t, at, c) \/ \E j \in 1 .. L : wire[t][j].first = at /\ c \in Reach(wire[t][j].write)
    BY <1>7, <2>1 DEF Comes, Carries
  <2> QED
    BY <1>4, <1>6, <2>2
<1>8. ASSUME NEW c \in Part(Upto)
      PROVE  Holds(t, at, c) \/ \E j \in 1 .. Len(wire'[t]) : F(j) /\ c \in Reach(W(j))
  <2>0. Upto \in 0 .. TotalSlices /\ start \in 0 .. TotalSlices /\ start \in Nat /\ Upto \in Nat
    BY <1>2, LayoutConstants
  <2>1. CASE c = Header
    <3>1. CASE start = 0
      <4>1. 1 \in 1 .. Len(ws) /\ c \in Reach(ws[1])
        BY <1>2, <1>3, <2>1, <3>1
      <4> QED
        BY <1>4, <1>5, <4>1
    <3>2. CASE start # 0
      <4>1. start > 0 /\ c \in Part(start)
        BY <2>0, <2>1, <3>2, PartIs
      <4> QED
        BY <1>7, <4>1
    <3> QED
      BY <3>1, <3>2
  <2>2. CASE c # Header
    <3>1. PICK p \in 1 .. Planes, s \in 0 .. Upto - 1 : c \in CellsOf(p, s)
      BY <2>0, <2>2, PartIs
    <3>2. CASE s < start
      <4>1. start > 0 /\ s \in 0 .. start - 1
        BY <2>0, <3>2
      <4>2. c \in Part(start)
        BY <2>0, <3>1, <4>1, PartIs
      <4> QED
        BY <1>7, <4>1, <4>2
    <3>3. CASE ~(s < start)
      <4>1. s \in From .. Upto - 1
        BY <1>2, <2>0, <3>3
      <4>2. PICK k \in 1 .. Len(ws) : c \in Reach(ws[k])
        BY <1>3, <3>1, <4>1
      <4> QED
        BY <1>4, <1>5, <4>2
    <3> QED
      BY <3>2, <3>3
  <2> QED
    BY <2>1, <2>2
<1> QED
  BY <1>8

LEMMA TransferArrives ==
    ASSUME TypeInv, format = "grains", SlotsFit, TransferGrain, NEW t \in Targets, Arrives(t)
    PROVE  Arrives(t)'
<1>1. PICK m : Sent(t, m)
  BY TransferSends
<1>2. /\ t \in Active => at <= head[t] + 1
      /\ at <= produced.newest /\ (start < GrainEnd \/ at \in produced.invalid)
      /\ UNCHANGED <<format, produced, st, mem, notices, reported, head, lost>>
  BY TransferSends
<1> DEFINE L == Len(wire[t])
           each == Len(GrainWrites(From, Upto))
<1>3. /\ L \in Nat /\ DOMAIN wire[t] = 1 .. L /\ at \in Nat /\ head[t] \in Nat
      /\ \A k \in DOMAIN wire[t] : wire[t][k].first \in Nat
      /\ \A k \in DOMAIN notices[t] : notices[t][k].first \in Nat
      /\ start \in 0 .. TotalSlices - 1 /\ TotalSlices \in Nat
  BY GrainTypes
<1>4. From \in 0 .. TotalSlices /\ Upto \in From .. TotalSlices /\ From = start
  BY <1>2, GrainRange
<1>5. /\ m \in 0 .. each /\ Len(wire'[t]) = L + m /\ DOMAIN wire'[t] = 1 .. L + m
      /\ \A k \in 1 .. L : wire'[t][k] = wire[t][k]
      /\ t \notin Active => m = 0 /\ st[t] = "Absent"
      /\ \/ at' = at /\ start' = start
         \/ /\ t \in Active => m = each
            /\ \/ at' = at /\ start' = GrainEnd /\ GrainEnd < TotalSlices
               \/ at' = at + 1 /\ start' = 0
  BY <1>1 DEF Sent
<1>6. each \in Nat \ {0}
  BY <1>4, GrainWritesAre
<1>7. at' \in Nat /\ at <= at'
  BY <1>3, <1>5
<1>8. \A k \in DOMAIN wire'[t] :
         \/ k \in DOMAIN wire[t] /\ wire'[t][k] = wire[t][k]
         \/ LET w == wire'[t][k]
            IN  /\ t \in Active /\ k > L /\ k - L \in 1 .. m
                /\ w.first = at /\ w.slot = SlotIn(at, TargetCount) /\ w.imm.slot = w.slot
                /\ w.imm.slice \in 0 .. Upto
                /\ w.write.imm = (k - L = each)
                /\ \A q \in 1 .. Planes : \A s \in 0 .. TotalSlices - 1 : \A c \in CellsOf(q, s) :
                      c \in Reach(w.write) => start <= s /\ s < Upto
  BY <1>1, <1>2, SentEntries
<1>9. t \in Active => at \in {head[t], head[t] + 1}
  BY <1>2, <1>3 DEF Arrives, Ordered
<1> HIDE DEF L, each
<1>10. Ordered(t)'
  <2>1. /\ head[t] <= at /\ reported[t] <= at
        /\ reported[t] # 0 => reported[t] \in {head[t], head[t] + 1}
        /\ \A k \in DOMAIN wire[t] :
              /\ wire[t][k].first \in {head[t], head[t] + 1}
              /\ reported[t] <= wire[t][k].first /\ wire[t][k].first <= at
              /\ \A l \in DOMAIN wire[t] : k <= l => wire[t][k].first <= wire[t][l].first
        /\ \A k \in DOMAIN notices[t] :
              /\ notices[t][k].first \in {head[t], head[t] + 1}
              /\ reported[t] <= notices[t][k].first /\ notices[t][k].first <= at
              /\ \A l \in DOMAIN notices[t] : k <= l => notices[t][k].first <= notices[t][l].first
              /\ \A l \in DOMAIN wire[t] : notices[t][k].first <= wire[t][l].first
    BY DEF Arrives, Ordered
  <2>2. reported[t] \in Nat
    BY GrainTypes
  <2>3. \A x \in Int : x <= at => x <= at'
    BY <1>3, <1>7
  <2>4. ASSUME NEW k \in DOMAIN wire'[t]
        PROVE  /\ wire'[t][k].first \in {head[t], head[t] + 1} /\ wire'[t][k].first \in Nat
               /\ reported[t] <= wire'[t][k].first /\ wire'[t][k].first <= at
    BY <1>3, <1>8, <1>9, <2>1
  <2>5. ASSUME NEW k \in DOMAIN wire'[t], NEW l \in DOMAIN wire'[t], k <= l
        PROVE  wire'[t][k].first <= wire'[t][l].first
    <3>1. CASE l \in DOMAIN wire[t] /\ wire'[t][l] = wire[t][l]
      <4>1. k \in DOMAIN wire[t] /\ wire'[t][k] = wire[t][k]
        BY <1>3, <1>5, <2>5, <3>1
      <4> QED
        BY <2>1, <2>5, <3>1, <4>1
    <3>2. CASE wire'[t][l].first = at
      BY <2>4, <3>2
    <3> QED
      BY <1>8, <3>1, <3>2
  <2>6. ASSUME NEW k \in DOMAIN notices[t], NEW l \in DOMAIN wire'[t]
        PROVE  notices[t][k].first <= wire'[t][l].first
    BY <1>8, <2>1
  <2>7. head[t] <= at' /\ reported[t] <= at'
    BY <1>3, <2>1, <2>2, <2>3
  <2>8. \A k \in DOMAIN wire'[t] : wire'[t][k].first <= at'
    BY <2>3, <2>4
  <2>9. \A k \in DOMAIN notices[t] : notices[t][k].first <= at'
    BY <1>3, <2>1, <2>3
  <2> QED
    BY <1>2, <2>1, <2>4, <2>5, <2>6, <2>7, <2>8, <2>9 DEF Ordered
<1>11. Located(t)'
  <2>1. \A k \in DOMAIN wire'[t] :
           /\ wire'[t][k].slot = SlotIn(wire'[t][k].first, TargetCount)
           /\ wire'[t][k].imm.slot = wire'[t][k].slot
    BY <1>8 DEF Arrives, Located
  <2> QED
    BY <1>2, <2>1 DEF Arrives, Located
<1>12. Backed(t)'
  <2>1. at \notin produced.invalid => Upto = ValidAt(at)
    BY DEF Upto, GrainEnd, ValidAt
  <2>2. at \in produced.invalid => Upto = 0
    BY DEF Upto
  <2>3. ASSUME NEW k \in DOMAIN wire'[t], NEW i, i = wire'[t][k].first
        PROVE  /\ i <= produced.newest
               /\ \A p \in 1 .. Planes : \A s \in 0 .. TotalSlices - 1 : \A c \in CellsOf(p, s) :
                     c \in Reach(wire'[t][k].write) => i \notin produced.invalid /\ s < ValidAt(i)
    <3>1. CASE k \in DOMAIN wire[t] /\ wire'[t][k] = wire[t][k]
      BY <2>3, <3>1 DEF Arrives, Backed
    <3>2. CASE i = at /\ \A q \in 1 .. Planes : \A s \in 0 .. TotalSlices - 1 : \A c \in CellsOf(q, s) :
                            c \in Reach(wire'[t][k].write) => start <= s /\ s < Upto
      BY <1>2, <1>3, <2>1, <2>2, <3>2
    <3> QED
      BY <1>8, <2>3, <3>1, <3>2
  <2> QED
    BY <1>2, <2>3 DEF Backed, ValidAt
<1>13. ASSUME NEW k \in Nat, k <= L, NEW i, NEW n, Comes(t, k, i, n), NEW l \in Nat, k <= l
       PROVE  Comes(t, l, i, n)'
  <2>1. \A c \in Part(n) : Holds(t, i, c)' <=> Holds(t, i, c)
    BY <1>2 DEF Holds, SlotOf
  <2>2. \A j \in 1 .. k : j \in 1 .. l /\ \A c : Carries(t, j, i, c)' <=> Carries(t, j, i, c)
    BY <1>3, <1>5, <1>13 DEF Carries
  <2> QED
    BY <1>13, <2>1, <2>2 DEF Comes
<1>14. ASSUME t \in Active, m = each, NEW i, i = at, NEW n \in 0 .. Upto, NEW k, k = L + m
       PROVE  Comes(t, k, i, n)'
  <2>1. Part(n) \subseteq Part(Upto)
    BY <1>3, <1>4, <1>14, PartIs
  <2>2. \A c \in Part(Upto) :
           Holds(t, at, c) \/ \E j \in 1 .. L + m : wire'[t][j].first = at /\ c \in Reach(wire'[t][j].write)
    BY <1>1, <1>2, <1>5, <1>14, SentComes DEF each
  <2>3. \A c \in Part(n) : Holds(t, i, c) \/ \E j \in 1 .. k : Carries(t, j, i, c)'
    BY <1>14, <2>1, <2>2 DEF Carries
  <2>4. \A c \in Part(n) : Holds(t, i, c) => Holds(t, i, c)'
    BY <1>2 DEF Holds, SlotOf
  <2> QED
    BY <2>3, <2>4 DEF Comes
<1>15. Announced(t)'
  <2>1. ASSUME NEW k \in DOMAIN wire'[t], NEW i, i = wire'[t][k].first, NEW n, n = wire'[t][k].imm.slice,
               wire'[t][k].write.imm
        PROVE  Comes(t, k, i, n)'
    <3>1. CASE k \in DOMAIN wire[t] /\ wire'[t][k] = wire[t][k]
      <4>1. Comes(t, k, i, n)
        BY <2>1, <3>1 DEF Arrives, Announced
      <4>2. k \in Nat /\ k <= L /\ k <= k
        BY <1>3, <3>1
      <4> QED
        BY <1>13, <4>1, <4>2
    <3>2. CASE /\ t \in Active /\ k > L /\ k - L \in 1 .. m /\ i = at
               /\ n \in 0 .. Upto /\ k - L = each
      <4>1. m = each /\ k = L + m
        BY <1>3, <1>5, <1>6, <2>1, <3>2
      <4> QED
        BY <1>14, <3>2, <4>1
    <3> QED
      BY <1>8, <2>1, <3>1, <3>2
  <2>2. ASSUME NEW k \in DOMAIN notices[t], NEW c \in Part(notices[t][k].imm.slice)
        PROVE  Holds(t, notices[t][k].first, c)'
    BY <1>2 DEF Arrives, Announced, Holds, SlotOf
  <2> QED
    BY <1>2, <2>1, <2>2 DEF Announced
<1>16. Continued(t)'
  <2> SUFFICES ASSUME st[t] # "Absent", start' > 0,
                      NEW i, i = at', NEW n, n = start', NEW k, k = Len(wire'[t])
               PROVE  i <= head[t] + 1 /\ Comes(t, k, i, n)'
    BY <1>2 DEF Continued
  <2>1. t \in Active
    BY <1>5
  <2>2. CASE at' = at /\ start' = start
    <3>1. Comes(t, L, i, n) /\ i <= head[t] + 1
      BY <2>2 DEF Arrives, Continued, L
    <3>2. k \in Nat /\ L <= k /\ L <= L
      BY <1>3, <1>5, <1>6
    <3> QED
      BY <1>3, <1>13, <3>1, <3>2
  <2>3. CASE m = each /\ at' = at /\ start' = GrainEnd /\ GrainEnd < TotalSlices
    <3>1. at \notin produced.invalid
      BY <1>2, <2>3, GrainRange
    <3>2. n = Upto /\ Upto \in Nat
      BY <1>4, <2>3, <3>1 DEF Upto
    <3>3. n \in 0 .. Upto /\ k = L + m /\ i = at
      BY <1>5, <2>3, <3>2
    <3> QED
      BY <1>2, <1>14, <2>1, <2>3, <3>3
  <2> QED
    BY <1>5, <2>1, <2>2, <2>3
<1> QED
  BY <1>10, <1>11, <1>12, <1>15, <1>16 DEF Arrives

(* Where a target begins: nothing is under way.                            *)
LEMMA InitArrives == Init => ArrivalInv
<1> SUFFICES ASSUME Init, format = "grains", NEW t \in Targets PROVE Arrives(t)
  BY DEF ArrivalInv, Arrives
<1>1. /\ at = 1 /\ start = 0 /\ wire[t] = <<>> /\ notices[t] = <<>>
      /\ reported[t] = 0 /\ head[t] = 0
      /\ mem[t] = [k \in 0 .. TargetCount - 1 |-> EmptyGrain]
  BY DEF Init
<1>2. /\ DOMAIN wire[t] = {} /\ DOMAIN notices[t] = {}
  BY <1>1
<1>3. \A s \in 0 .. TargetCount - 1 : mem[t][s][Header].index = 0
  <2>1. Header \in 0 .. GrainLength - 1
    <3>1. 0 \in 0 .. TotalSlices
      BY LayoutConstants
    <3> QED
      BY <3>1, PartIs
  <2>2. EmptyGrain[Header].index = 0
    BY <2>1 DEF EmptyGrain
  <2> QED
    BY <1>1, <2>2
<1>4. Ordered(t)
  BY <1>1, <1>2 DEF Ordered
<1>5. Located(t)
  BY <1>2, <1>3 DEF Located
<1>6. Backed(t) /\ Announced(t)
  BY <1>2 DEF Backed, Announced
<1>7. Continued(t)
  BY <1>1 DEF Continued
<1> QED
  BY <1>4, <1>5, <1>6, <1>7 DEF Arrives

(* The format of a flow stays, and so does what went wrong.                *)
LEMMA FormatStays ==
    ASSUME [Next]_vars
    PROVE  format' = format /\ (lost => lost') /\ (jammed => jammed')
<1>1. CASE Produce
  BY <1>1 DEF Produce
<1>2. CASE TransferGrain
  BY <1>2 DEF TransferGrain
<1>3. CASE MakeProgress
  BY <1>3 DEF MakeProgress
<1>4. ASSUME NEW count \in 1 .. MaxBatch, TransferSamples(count)
      PROVE  format' = format /\ lost' = lost /\ (jammed => jammed')
  BY <1>4 DEF TransferSamples
<1>5. ASSUME NEW u \in Targets, AddTarget(u) \/ RemoveTarget(u)
      PROVE  format' = format /\ lost' = lost /\ jammed' = jammed
  BY <1>5 DEF AddTarget, RemoveTarget
<1>6. ASSUME NEW u \in Targets, ReadTarget(u) PROVE format' = format /\ lost' = lost /\ jammed' = jammed
  BY <1>6 DEF ReadTarget
<1>7. ASSUME NEW u \in Targets, CommitTarget(u) PROVE format' = format /\ lost' = lost /\ jammed' = jammed
  BY <1>7 DEF CommitTarget
<1>8. ASSUME NEW u \in Targets, NEW ok \in BOOLEAN, Complete(u, ok)
      PROVE  format' = format /\ (lost => lost') /\ jammed' = jammed
  BY <1>8 DEF Complete
<1>9. CASE UNCHANGED vars
  BY <1>9 DEF vars
<1> QED
  BY <1>1, <1>2, <1>3, <1>4, <1>5, <1>6, <1>7, <1>8, <1>9 DEF Next

LEMMA StepArrives ==
    ASSUME SlotsFit, TypeInv, ArrivalInv, [Next]_vars
    PROVE  ArrivalInv'
<1> SUFFICES ASSUME format' = "grains", ~lost', NEW t \in Targets PROVE Arrives(t)'
  BY DEF ArrivalInv, Arrives
<1>1. format' = format /\ (lost => lost')
  BY FormatStays
<1>2. format = "grains" /\ \A u \in Targets : Arrives(u)
  BY <1>1 DEF ArrivalInv, Arrives
<1>3. CASE Produce
  BY <1>2, <1>3, ProduceArrives
<1>4. CASE TransferGrain
  BY <1>2, <1>4, TransferArrives
<1>5. CASE MakeProgress
  BY <1>2, <1>5, TargetsChangeArrives
<1>6. ASSUME NEW count \in 1 .. MaxBatch, TransferSamples(count) PROVE FALSE
  BY <1>2, <1>6 DEF TransferSamples
<1>7. ASSUME NEW u \in Targets, AddTarget(u) \/ RemoveTarget(u) PROVE Arrives(t)'
  BY <1>2, <1>7, TargetsChangeArrives
<1>8. ASSUME NEW u \in Targets, ReadTarget(u) PROVE Arrives(t)'
  BY <1>2, <1>8, ReadArrives
<1>9. ASSUME NEW u \in Targets, CommitTarget(u) PROVE Arrives(t)'
  BY <1>2, <1>9, CommitArrives
<1>10. ASSUME NEW u \in Targets, NEW ok \in BOOLEAN, Complete(u, ok) PROVE Arrives(t)'
  <2>1. ok = TRUE
    BY <1>10 DEF Complete
  <2> QED
    BY <1>2, <1>10, <2>1, CompleteArrives
<1>11. CASE UNCHANGED vars
  <2>1. at' \in Nat /\ at <= at'
    BY <1>2, <1>11, GrainTypes DEF vars
  <2> QED
    BY <1>2, <1>11, <2>1, SameTarget DEF vars, Arrives
<1> QED
  BY <1>3, <1>4, <1>5, <1>6, <1>7, <1>8, <1>9, <1>10, <1>11 DEF Next

LEMMA AlwaysArrives == ASSUME SlotsFit PROVE Spec => [](TypeInv /\ ArrivalInv)
<1>1. Init => TypeInv /\ ArrivalInv
  BY InitTyped, InitArrives
<1>2. TypeInv /\ ArrivalInv /\ [Next]_vars => TypeInv' /\ ArrivalInv'
  BY StepTyped, StepArrives
<1> QED
  BY <1>1, <1>2, PTL DEF Spec

(* The grain that is reported, and the slices it counts as valid then.     *)
LEMMA ReadIsWhole ==
    ASSUME TypeInv, format = "grains", NEW t \in Targets, Arrives(t), ReadTarget(t),
           NEW i, i = notices[t][1].first
    PROVE  LET grain == mem'[t][SlotIn(i, TargetCount)]
           IN  /\ i \in Nat \ {0} /\ Head(notices[t]).first = i /\ reported'[t] = i
               /\ grain[Header].index = i /\ SlicesArrived(grain, i)
               /\ SlotIn(i, TargetCount) \in 0 .. TargetCount - 1
               /\ \A u \in Targets : \A s \in 0 .. TargetCount - 1 :
                     u # t \/ s # SlotIn(i, TargetCount) => mem'[u][s] = mem[u][s]
<1> DEFINE n == notices[t][1]
           slot == SlotIn(i, TargetCount)
           g == AcceptGrain(mem[t][slot], n.imm)
<1>1. /\ i \in Nat \ {0} /\ Head(notices[t]) = n /\ n.imm \in GrainNotice
      /\ mem' = [mem EXCEPT ![t][slot] = g]
      /\ reported' = [reported EXCEPT ![t] = i]
      /\ SlotOf(t, i)[Header].index = i
      /\ \A c \in Part(n.imm.slice) : Holds(t, i, c)
  BY ReadReports
<1>2. /\ slot \in 0 .. TargetCount - 1 /\ SlotOf(t, i) = mem[t][slot]
      /\ mem[t][slot] = [c \in 0 .. GrainLength - 1 |-> mem[t][slot][c]]
      /\ mem[t][slot][Header] \in GrainHeader
  <2>1. i \in Nat
    BY <1>1
  <2>2. SlotOf(t, i) = mem[t][slot]
    BY DEF SlotOf
  <2>3. /\ SlotIn(i, TargetCount) \in 0 .. TargetCount - 1
        /\ SlotOf(t, i) = [c \in 0 .. GrainLength - 1 |-> SlotOf(t, i)[c]]
        /\ SlotOf(t, i)[Header] \in GrainHeader
    BY <2>1, SlotTyped
  <2>4. mem[t][slot] = [c \in 0 .. GrainLength - 1 |-> mem[t][slot][c]]
    BY <2>2, <2>3, Zenon
  <2> QED
    BY <2>2, <2>3, <2>4
<1>3. n.imm.slice \in 0 .. TotalSlices
  BY <1>1 DEF GrainNotice
<1>4. /\ g[Header].valid = n.imm.slice /\ g[Header].index = mem[t][slot][Header].index
      /\ \A c \in 0 .. GrainLength - 1 : c # Header => g[c] = mem[t][slot][c]
  BY <1>1, <1>2, AcceptGrainIs
<1>5. /\ mem = [v \in Targets |-> [k \in 0 .. TargetCount - 1 |-> mem[v][k]]]
      /\ reported \in [Targets -> 0 .. MaxIndex]
  BY DEF TypeInv, MemoryTyped, GrainsTyped, ReadersTyped
<1> HIDE DEF g, slot, n
<1>6. /\ mem'[t][slot] = g /\ reported'[t] = i
      /\ \A u \in Targets : \A s \in 0 .. TargetCount - 1 : u # t \/ s # slot => mem'[u][s] = mem[u][s]
  BY <1>1, <1>2, <1>5
<1>7. SlicesArrived(g, i)
  <2> SUFFICES ASSUME NEW p \in 1 .. Planes, NEW s \in 0 .. g[Header].valid - 1, NEW c \in CellsOf(p, s)
               PROVE  g[c] = i
    BY DEF SlicesArrived
  <2>1. s \in 0 .. n.imm.slice - 1 /\ s \in 0 .. TotalSlices - 1
    BY <1>3, <1>4, LayoutConstants
  <2>2. c \in Part(n.imm.slice)
    BY <1>3, <2>1, PartIs
  <2>3. c # Header /\ c \in 0 .. GrainLength - 1
    BY <2>1, CellInPlane
  <2>4. SlotOf(t, i)[c] = i
    BY <1>1, <2>2, <2>3 DEF Holds
  <2> QED
    BY <1>2, <1>4, <2>3, <2>4
<1>8. g[Header].index = i
  BY <1>1, <1>2, <1>4
<1>9. Head(notices[t]).first = i
  BY <1>1 DEF n
<1> QED
  BY <1>1, <1>2, <1>6, <1>7, <1>8, <1>9 DEF slot

(* When a target reports a grain (RMAGrainIngressProtocol::read), it is    *)
(* the grain that was transferred, and the slices it then counts as valid  *)
(* have arrived in every plane: whatever transfers were refused and        *)
(* repeated, whatever targets came and went, as long as no write failed    *)
(* and the number of a slot fits into the immediate data.                  *)
THEOREM ReportedGrainsArrived == ASSUME SlotsFit PROVE Spec => GrainsArrive
<1> DEFINE A == \A t \in Targets :
                  (ReadTarget(t) /\ format = "grains" /\ ~lost) =>
                     LET n     == Head(notices[t])
                         grain == mem'[t][SlotIn(n.first, TargetCount)]
                     IN  /\ reported'[t] = n.first /\ grain[Header].index = n.first
                         /\ SlicesArrived(grain, n.first)
<1>1. TypeInv /\ ArrivalInv => A
  <2> SUFFICES ASSUME TypeInv, ArrivalInv, NEW t \in Targets, ReadTarget(t), format = "grains", ~lost
               PROVE  LET n     == Head(notices[t])
                          grain == mem'[t][SlotIn(n.first, TargetCount)]
                      IN  /\ reported'[t] = n.first /\ grain[Header].index = n.first
                          /\ SlicesArrived(grain, n.first)
    OBVIOUS
  <2>1. Arrives(t)
    BY DEF ArrivalInv, Arrives
  <2>2. PICK i : i = notices[t][1].first
    OBVIOUS
  <2>3. /\ Head(notices[t]).first = i /\ reported'[t] = i
        /\ mem'[t][SlotIn(i, TargetCount)][Header].index = i
        /\ SlicesArrived(mem'[t][SlotIn(i, TargetCount)], i)
    BY <2>1, <2>2, ReadIsWhole
  <2> QED
    BY <2>3
<1> HIDE DEF A
<1>2. TypeInv /\ ArrivalInv => [A]_vars
  BY <1>1
<1>3. [](TypeInv /\ ArrivalInv) => [][A]_vars
  BY <1>2, PTL
<1>4. [][A]_vars <=> GrainsArrive
  BY DEF GrainsArrive, A
<1> QED
  BY <1>3, <1>4, AlwaysArrives, PTL

-----------------------------------------------------------------------------
(* What may be read.                                                       *)

\* As long as no transfer was refused for one of several targets:
\* a grain that is begun has not been announced,
Unannounced(t) ==
    start = 0 =>
       /\ head[t] < at /\ reported[t] < at
       /\ \A k \in DOMAIN notices[t] : notices[t][k].first < at
       /\ \A k \in DOMAIN wire[t] : wire[t][k].write.imm => wire[t][k].first < at

\* no header is written to a grain that has been announced,
HeaderFirst(t) ==
    \A k \in DOMAIN wire[t] :
       Header \in Reach(wire[t][k].write) =>
          /\ head[t] < wire[t][k].first /\ reported[t] # wire[t][k].first
          /\ \A l \in DOMAIN notices[t] : notices[t][l].first # wire[t][k].first
          /\ \A j \in 1 .. k - 1 : wire[t][j].write.imm => wire[t][j].first # wire[t][k].first

\* and what may be read is complete.
Whole(t, i) == SlotOf(t, i)[Header].index = i => SlicesArrived(SlotOf(t, i), i)

Readable(t) ==
    /\ reported[t] # 0 => Whole(t, reported[t])
    /\ \A i \in ReadableSlots(t) : Whole(t, i)

ReadableInv ==
    (format = "grains" /\ ~lost /\ (jammed => Cardinality(Targets) = 1)) =>
       \A t \in Targets : Unannounced(t) /\ HeaderFirst(t) /\ Readable(t)

\* What is so for one target.
Settled(t) == Unannounced(t) /\ HeaderFirst(t) /\ Readable(t)

(* A reader of one of these finds the slot of a grain under way only if it *)
(* asks for that grain.                                                    *)
LEMMA OwnSlot ==
    ASSUME TypeInv, format = "grains", NEW t \in Targets, Arrives(t),
           NEW f \in {head[t], head[t] + 1}, NEW i \in Nat \ {0},
           i \in ReadableSlots(t) \/ i = reported[t],
           SlotIn(i, TargetCount) = SlotIn(f, TargetCount)
    PROVE  i = f
<1>1. head[t] \in Nat /\ TargetCount \in Nat \ {0} /\ TargetCount > 1 /\ f \in Nat
  BY GrainTypes, Sizes
<1>2. i - f < TargetCount /\ f - i < TargetCount
  <2>1. CASE i \in ReadableSlots(t)
    BY <1>1, <2>1 DEF ReadableSlots
  <2>2. CASE i = reported[t]
    <3>1. i \in {head[t], head[t] + 1}
      BY <2>2 DEF Arrives, Ordered
    <3> QED
      BY <1>1, <3>1
  <2> QED
    BY <2>1, <2>2
<1>3. (i % TargetCount) = (f % TargetCount)
  BY DEF SlotIn
<1> QED
  BY <1>1, <1>2, <1>3, SameSlot

(* Where nothing of a target changes.                                      *)
LEMMA SameSettled ==
    ASSUME NEW t \in Targets, Settled(t), mem'[t] = mem[t], wire'[t] = wire[t], notices'[t] = notices[t],
           head'[t] = head[t], reported'[t] = reported[t], at' = at, start' = start
    PROVE  Settled(t)'
<1> USE DEF Settled
<1>1. Unannounced(t)'
  BY DEF Unannounced
<1>2. HeaderFirst(t)'
  BY DEF HeaderFirst
<1>3. ReadableSlots(t)' = ReadableSlots(t)
  BY DEF ReadableSlots
<1>4. \A i : Whole(t, i)' <=> Whole(t, i)
  BY DEF Whole, SlotOf
<1>5. Readable(t)'
  BY <1>3, <1>4 DEF Readable
<1> QED
  BY <1>1, <1>2, <1>5

(* A transfer begins with a grain that nobody was told of.                 *)
LEMMA TransferSettled ==
    ASSUME TypeInv, format = "grains", SlotsFit, TransferGrain, NEW t \in Targets, Arrives(t),
           Settled(t), jammed' => Cardinality(Targets) = 1
    PROVE  Settled(t)'
<1>1. PICK m : Sent(t, m)
  BY TransferSends
<1>2. /\ at <= produced.newest /\ (start < GrainEnd \/ at \in produced.invalid)
      /\ UNCHANGED <<mem, notices, reported, head>>
  BY TransferSends
<1> DEFINE L == Len(wire[t])
           each == Len(GrainWrites(From, Upto))
<1>3. /\ L \in Nat /\ DOMAIN wire[t] = 1 .. L /\ at \in Nat \ {0} /\ head[t] \in Nat /\ reported[t] \in Nat
      /\ \A k \in DOMAIN wire[t] : wire[t][k].first \in Nat
      /\ \A k \in DOMAIN notices[t] : notices[t][k].first \in Nat
      /\ start \in Nat
  BY GrainTypes
<1>4. From \in 0 .. TotalSlices /\ Upto \in From .. TotalSlices /\ GrainEnd \in 1 .. TotalSlices
  BY <1>2, GrainRange
<1>5. each \in Nat \ {0}
  BY <1>4, GrainWritesAre
<1>6. /\ m \in 0 .. each /\ DOMAIN wire'[t] = 1 .. L + m
      /\ \A k \in 1 .. L : wire'[t][k] = wire[t][k]
      /\ \/ at' = at /\ start' = start /\ m < each
         \/ at' = at /\ start' = GrainEnd
         \/ at' = at + 1 /\ start' = 0
  BY <1>1 DEF Sent
<1>7. \A k \in DOMAIN wire'[t] :
         \/ k \in DOMAIN wire[t] /\ wire'[t][k] = wire[t][k]
         \/ LET w == wire'[t][k]
            IN  /\ k > L /\ k - L \in 1 .. m /\ w.first = at
                /\ w.write.imm = (k - L = each)
                /\ Header \in Reach(w.write) => k - L = 1 /\ start = 0
  BY <1>1, <1>2, SentEntries
<1> HIDE DEF L, each
<1>8. Unannounced(t)'
  <2> SUFFICES ASSUME start' = 0
               PROVE  /\ head[t] < at' /\ reported[t] < at'
                      /\ \A k \in DOMAIN notices[t] : notices[t][k].first < at'
                      /\ \A k \in DOMAIN wire'[t] : wire'[t][k].write.imm => wire'[t][k].first < at'
    BY <1>2 DEF Unannounced
  <2>1. CASE at' = at /\ start' = start /\ m < each
    <3>1. \A k \in DOMAIN wire'[t] : wire'[t][k].write.imm =>
             k \in DOMAIN wire[t] /\ wire'[t][k] = wire[t][k]
      <4>1. \A j \in 1 .. m : j # each
        BY <1>5, <1>6, <2>1
      <4> QED
        BY <1>7, <4>1
    <3> QED
      BY <2>1, <3>1 DEF Settled, Unannounced
  <2>2. CASE at' = at + 1 /\ start' = 0
    <3>1. /\ head[t] <= at /\ reported[t] <= at
          /\ \A k \in DOMAIN wire[t] : wire[t][k].first <= at
          /\ \A k \in DOMAIN notices[t] : notices[t][k].first <= at
      BY DEF Arrives, Ordered
    <3>2. \A k \in DOMAIN wire'[t] : wire'[t][k].first <= at /\ wire'[t][k].first \in Nat
      BY <1>3, <1>7, <3>1
    <3> QED
      BY <1>3, <2>2, <3>1, <3>2
  <2>3. start' # GrainEnd
    BY <1>4
  <2> QED
    BY <1>6, <2>1, <2>2, <2>3
<1>9. HeaderFirst(t)'
  <2> SUFFICES ASSUME NEW k \in DOMAIN wire'[t], Header \in Reach(wire'[t][k].write)
               PROVE  /\ head[t] < wire'[t][k].first /\ reported[t] # wire'[t][k].first
                      /\ \A l \in DOMAIN notices[t] : notices[t][l].first # wire'[t][k].first
                      /\ \A j \in 1 .. k - 1 : wire'[t][j].write.imm => wire'[t][j].first # wire'[t][k].first
    BY <1>2 DEF HeaderFirst
  <2>1. CASE k \in DOMAIN wire[t] /\ wire'[t][k] = wire[t][k]
    <3>1. \A j \in 1 .. k - 1 : wire'[t][j] = wire[t][j]
      BY <1>3, <1>6, <2>1
    <3> QED
      BY <2>1, <3>1 DEF Settled, HeaderFirst
  <2>2. CASE wire'[t][k].first = at /\ k = L + 1 /\ start = 0
    <3>1. /\ head[t] < at /\ reported[t] < at
          /\ \A l \in DOMAIN notices[t] : notices[t][l].first < at
          /\ \A l \in DOMAIN wire[t] : wire[t][l].write.imm => wire[t][l].first < at
      BY <2>2 DEF Settled, Unannounced
    <3>2. \A j \in 1 .. k - 1 : j \in DOMAIN wire[t] /\ wire'[t][j] = wire[t][j]
      BY <1>3, <1>6, <2>2
    <3>3. \A j \in 1 .. k - 1 : wire'[t][j].write.imm => wire'[t][j].first # at
      BY <1>3, <3>1, <3>2
    <3> QED
      BY <1>3, <2>2, <3>1, <3>3
  <2>3. k - L = 1 => k = L + 1
    <3>1. k \in Int
      BY <1>3, <1>6
    <3> QED
      BY <1>3, <3>1
  <2> QED
    BY <1>7, <2>1, <2>2, <2>3
<1>10. Readable(t)'
  <2>1. ReadableSlots(t)' = ReadableSlots(t)
    BY <1>2 DEF ReadableSlots
  <2>2. \A i : Whole(t, i)' <=> Whole(t, i)
    BY <1>2 DEF Whole, SlotOf
  <2> QED
    BY <1>2, <2>1, <2>2 DEF Settled, Readable
<1> QED
  BY <1>8, <1>9, <1>10 DEF Settled

(* What is committed was reported.                                         *)
LEMMA CommitSettled ==
    ASSUME TypeInv, format = "grains", NEW u \in Targets, CommitTarget(u), NEW t \in Targets,
           Arrives(t), Settled(t)
    PROVE  Settled(t)'
<1>1. /\ head' = [head EXCEPT ![u] = IF reported[u] > @ THEN reported[u] ELSE @]
      /\ reported' = [reported EXCEPT ![u] = 0] /\ reported[u] # 0
      /\ UNCHANGED <<at, start, wire, mem, notices>>
  BY DEF CommitTarget
<1>2. head \in [Targets -> 0 .. MaxIndex] /\ reported \in [Targets -> 0 .. MaxIndex]
  BY DEF TypeInv, MemoryTyped, ReadersTyped
<1>3. CASE u # t
  <2>1. head'[t] = head[t] /\ reported'[t] = reported[t]
    BY <1>1, <1>2, <1>3
  <2> QED
    BY <1>1, <2>1, SameSettled
<1>4. CASE u = t
  <2> DEFINE H == head[t]
             R == reported[t]
             G == head'[t]
  <2>1. G = (IF R > H THEN R ELSE H) /\ reported'[t] = 0 /\ R # 0
    BY <1>1, <1>2, <1>4
  <2>2. /\ H \in Nat /\ R \in Nat /\ at \in Nat /\ R \in {H, H + 1}
        /\ \A k \in DOMAIN wire[t] : wire[t][k].first \in Nat \ {0} /\ R <= wire[t][k].first
    BY <2>1, GrainTypes DEF Arrives, Ordered
  <2>3. G = R /\ G \in {H, H + 1}
    BY <2>1, <2>2
  <2>4. Unannounced(t)'
    <3>1. start = 0 => /\ R < at
                       /\ \A k \in DOMAIN notices[t] : notices[t][k].first < at
                       /\ \A k \in DOMAIN wire[t] : wire[t][k].write.imm => wire[t][k].first < at
      BY DEF Settled, Unannounced
    <3>2. R < at => G < at /\ 0 < at
      BY <2>2, <2>3
    <3> QED
      BY <1>1, <2>1, <3>1, <3>2 DEF Unannounced
  <2>5. HeaderFirst(t)'
    <3> SUFFICES ASSUME NEW k \in DOMAIN wire[t], Header \in Reach(wire[t][k].write)
                 PROVE  /\ G < wire[t][k].first /\ 0 # wire[t][k].first
                        /\ \A l \in DOMAIN notices[t] : notices[t][l].first # wire[t][k].first
                        /\ \A j \in 1 .. k - 1 : wire[t][j].write.imm => wire[t][j].first # wire[t][k].first
      BY <1>1, <2>1 DEF HeaderFirst
    <3>1. R # wire[t][k].first
      BY DEF Settled, HeaderFirst
    <3>2. G < wire[t][k].first /\ 0 # wire[t][k].first
      BY <2>2, <2>3, <3>1
    <3> QED
      BY <3>2 DEF Settled, HeaderFirst
  <2>6. Readable(t)'
    <3>1. \A i : Whole(t, i)' <=> Whole(t, i)
      BY <1>1 DEF Whole, SlotOf
    <3>2. Whole(t, R) /\ \A i \in ReadableSlots(t) : Whole(t, i)
      BY <2>1 DEF Settled, Readable
    <3>3. ASSUME NEW i \in ReadableSlots(t)' PROVE i \in ReadableSlots(t) \/ i = R
      <4>1. i \in G - TargetCount + 2 .. G /\ i > 0
        BY <3>3 DEF ReadableSlots
      <4> HIDE DEF G, H, R
      <4>2. i \in H - TargetCount + 2 .. H \/ i = R
        BY <2>2, <2>3, <4>1, Sizes
      <4> QED
        BY <4>1, <4>2 DEF ReadableSlots, H
    <3> QED
      BY <2>1, <3>1, <3>2, <3>3 DEF Readable
  <2> QED
    BY <2>4, <2>5, <2>6 DEF Settled
<1> QED
  BY <1>3, <1>4

(* A write that lands in the slot of a grain that may be read brings a     *)
(* slice of that grain, and no header.                                     *)
LEMMA LandsWhole ==
    ASSUME TypeInv, format = "grains", NEW t \in Targets, Complete(t, TRUE), Arrives(t), Settled(t),
           NEW i \in Nat \ {0}, i \in ReadableSlots(t) \/ i = reported[t], Whole(t, i)
    PROVE  Whole(t, i)'
<1> DEFINE w == wire[t][1]
           f == w.first
           slot == SlotIn(i, TargetCount)
<1>1. /\ w \in GrainEntry /\ w.slot \in 0 .. TargetCount - 1
      /\ \A s \in 0 .. TargetCount - 1 :
            /\ s # w.slot => mem'[t][s] = mem[t][s]
            /\ s = w.slot =>
                  \A c \in 0 .. GrainLength - 1 :
                     mem'[t][s][c] = IF c \in Reach(w.write) THEN SourceGrain(w.first)[c]
                                     ELSE mem[t][s][c]
  BY Lands
<1>2. 1 \in DOMAIN wire[t]
  BY LandsAndLeaves
<1>3. w.slot = SlotIn(f, TargetCount) /\ f \in {head[t], head[t] + 1}
  BY <1>2 DEF Arrives, Located, Ordered
<1>4. slot \in 0 .. TargetCount - 1 /\ SlotOf(t, i)[Header] \in GrainHeader
  BY SlotTyped
<1>5. \A c \in Part(TotalSlices) : c \in Reach(w.write) =>
         IF c = Header THEN SourceGrain(f)[c].index = f ELSE SourceGrain(f)[c] = f
  BY <1>2, SourceIs
<1>6. CASE slot # w.slot
  <2>1. mem'[t][slot] = mem[t][slot]
    BY <1>1, <1>4, <1>6
  <2> QED
    BY <2>1 DEF Whole, SlotOf
<1>7. CASE slot = w.slot
  <2>1. i = f
    <3>1. \A g \in {head[t], head[t] + 1} : slot = SlotIn(g, TargetCount) => i = g
      BY OwnSlot
    <3> QED
      BY <1>3, <1>7, <3>1
  <2>2. Header \notin Reach(w.write)
    <3>1. Header \in Reach(w.write) => head[t] < f /\ reported[t] # f
      BY <1>2 DEF Settled, HeaderFirst
    <3>2. i \in ReadableSlots(t) => i <= head[t] /\ head[t] \in Nat
      BY GrainTypes DEF ReadableSlots
    <3> HIDE DEF f
    <3>3. ~(head[t] < f /\ reported[t] # f)
      BY <2>1, <3>2
    <3> QED
      BY <3>1, <3>3
  <2> DEFINE new == mem'[t][slot]
             old == mem[t][slot]
  <2>3. \A c \in 0 .. GrainLength - 1 :
           new[c] = IF c \in Reach(w.write) THEN SourceGrain(f)[c] ELSE old[c]
    BY <1>1, <1>4, <1>7
  <2>4. TotalSlices \in 0 .. TotalSlices /\ Header \in Part(TotalSlices) /\ Header \in 0 .. GrainLength - 1
    <3>1. TotalSlices \in 0 .. TotalSlices
      BY LayoutConstants
    <3> QED
      BY <3>1, PartIs
  <2> HIDE DEF new, old, w, f, slot
  <2>5. new[Header] = old[Header]
    BY <2>2, <2>3, <2>4
  <2>6. old[Header].valid \in 0 .. TotalSlices
    BY <1>4 DEF old, slot, SlotOf, GrainHeader
  <2>7. ASSUME old[Header].index = i PROVE SlicesArrived(new, i)
    <3>1. SlicesArrived(old, i)
      BY <2>7 DEF Whole, old, slot, SlotOf
    <3> SUFFICES ASSUME NEW p \in 1 .. Planes, NEW s \in 0 .. old[Header].valid - 1, NEW c \in CellsOf(p, s)
                 PROVE  new[c] = i
      BY <2>5 DEF SlicesArrived
    <3>2. s \in 0 .. TotalSlices - 1
      BY <2>6, LayoutConstants
    <3>3. c \in Part(TotalSlices) /\ c \in 0 .. GrainLength - 1 /\ c # Header
      BY <2>4, <3>2, PartIs, CellInPlane
    <3>4. old[c] = i
      BY <3>1 DEF SlicesArrived
    <3> QED
      BY <1>5, <2>1, <2>3, <3>3, <3>4
  <2> QED
    BY <2>5, <2>7 DEF Whole, SlotOf, new, slot
<1> QED
  BY <1>6, <1>7

LEMMA CompleteSettled ==
    ASSUME TypeInv, format = "grains", NEW u \in Targets, Complete(u, TRUE),
           NEW t \in Targets, Arrives(t), Settled(t)
    PROVE  Settled(t)'
<1> DEFINE w == wire[u][1]
<1>1. /\ UNCHANGED <<at, start, reported, head>>
      /\ wire' = [wire EXCEPT ![u] = Tail(@)]
      /\ w.write.imm => notices' = [notices EXCEPT
                           ![u] = Append(@, [slot |-> w.slot, imm |-> w.imm, first |-> w.first])]
      /\ ~w.write.imm => notices' = notices
      /\ mem' = [mem EXCEPT ![u][w.slot] = WrittenGrain(w, @)]
  BY CompleteIs
<1>2. CASE t # u
  <2> HIDE DEF w
  <2>1. wire'[t] = wire[t] /\ notices'[t] = notices[t]
    BY <1>1, <1>2 DEF TypeInv, WireTyped
  <2>2. mem = [v \in Targets |-> [k \in 0 .. TargetCount - 1 |-> mem[v][k]]]
    BY DEF TypeInv, MemoryTyped, GrainsTyped
  <2>3. mem'[t] = mem[t]
    BY <1>1, <1>2, <2>2
  <2> QED
    BY <1>1, <2>1, <2>3, SameSettled
<1>3. CASE t = u
  <2>1. /\ 1 \in DOMAIN wire[t] /\ Len(wire[t]) \in Nat \ {0}
        /\ DOMAIN wire'[t] = 1 .. Len(wire[t]) - 1
        /\ \A k \in DOMAIN wire'[t] : wire'[t][k] = wire[t][k + 1] /\ k + 1 \in DOMAIN wire[t]
        /\ \A k \in DOMAIN notices'[t] :
              \/ k \in DOMAIN notices[t] /\ notices'[t][k] = notices[t][k]
              \/ /\ w.write.imm
                 /\ notices'[t][k] = [slot |-> w.slot, imm |-> w.imm, first |-> w.first]
    BY <1>3, LandsAndLeaves
  <2>2. w = wire[t][1]
    BY <1>3
  <2> HIDE DEF w
  <2>3. \A k \in DOMAIN notices'[t] :
           \/ \E j \in DOMAIN notices[t] : notices'[t][k].first = notices[t][j].first
           \/ wire[t][1].write.imm /\ notices'[t][k].first = wire[t][1].first
    BY <2>1, <2>2
  <2>4. Unannounced(t)'
    BY <1>1, <2>1, <2>3 DEF Settled, Unannounced
  <2>5. HeaderFirst(t)'
    <3> SUFFICES ASSUME NEW k \in DOMAIN wire'[t], Header \in Reach(wire'[t][k].write)
                 PROVE  /\ head[t] < wire'[t][k].first /\ reported[t] # wire'[t][k].first
                        /\ \A l \in DOMAIN notices'[t] : notices'[t][l].first # wire'[t][k].first
                        /\ \A j \in 1 .. k - 1 : wire'[t][j].write.imm => wire'[t][j].first # wire'[t][k].first
      BY <1>1 DEF HeaderFirst
    <3>1. k + 1 \in DOMAIN wire[t] /\ wire'[t][k] = wire[t][k + 1] /\ k \in Nat \ {0} /\ (k + 1) - 1 = k
      BY <2>1
    <3>2. /\ head[t] < wire[t][k + 1].first /\ reported[t] # wire[t][k + 1].first
          /\ \A l \in DOMAIN notices[t] : notices[t][l].first # wire[t][k + 1].first
          /\ \A j \in 1 .. k : wire[t][j].write.imm => wire[t][j].first # wire[t][k + 1].first
      BY <3>1 DEF Settled, HeaderFirst
    <3>3. \A j \in 1 .. k - 1 : j + 1 \in 1 .. k /\ wire'[t][j] = wire[t][j + 1]
      BY <2>1, <3>1
    <3>4. 1 \in 1 .. k
      BY <3>1
    <3> QED
      BY <2>3, <3>1, <3>2, <3>3, <3>4
  <2>6. Readable(t)'
    <3>1. ReadableSlots(t)' = ReadableSlots(t)
      BY <1>1 DEF ReadableSlots
    <3>2. ASSUME NEW i \in Nat \ {0}, i \in ReadableSlots(t) \/ i = reported[t] PROVE Whole(t, i)'
      <4>1. Whole(t, i)
        BY <3>2 DEF Settled, Readable
      <4> QED
        BY <1>3, <3>2, <4>1, LandsWhole
    <3>3. reported[t] \in Nat /\ \A i \in ReadableSlots(t) : i \in Nat \ {0}
      BY GrainTypes, Sizes DEF ReadableSlots
    <3> QED
      BY <1>1, <3>1, <3>2, <3>3 DEF Readable
  <2> QED
    BY <2>4, <2>5, <2>6 DEF Settled
<1> QED
  BY <1>2, <1>3

(* What is read becomes whole with the slices that are announced.          *)
LEMMA ReadSettled ==
    ASSUME TypeInv, format = "grains", NEW u \in Targets, ReadTarget(u), Arrives(u),
           NEW t \in Targets, Arrives(t), Settled(t)
    PROVE  Settled(t)'
<1>1. PICK i \in Nat \ {0} : i = notices[u][1].first
  BY ReadReports
<1> DEFINE slot == SlotIn(i, TargetCount)
<1>2. /\ reported'[u] = i /\ SlicesArrived(mem'[u][slot], i)
      /\ slot \in 0 .. TargetCount - 1
      /\ \A v \in Targets : \A s \in 0 .. TargetCount - 1 :
            v # u \/ s # slot => mem'[v][s] = mem[v][s]
  BY <1>1, ReadIsWhole
<1>3. /\ UNCHANGED <<at, start, wire, head>>
      /\ notices' = [notices EXCEPT ![u] = Tail(@)]
      /\ DOMAIN Tail(notices[u]) = 1 .. Len(notices[u]) - 1 /\ Len(notices[u]) \in Nat \ {0}
      /\ DOMAIN notices[u] = 1 .. Len(notices[u])
      /\ \A k \in 1 .. Len(notices[u]) - 1 : Tail(notices[u])[k] = notices[u][k + 1]
  BY ReadTargetIs
<1>4. reported' = [reported EXCEPT ![u] = i] /\ 1 \in DOMAIN notices[u]
  BY <1>1, ReadReports
<1>5. notices \in [Targets -> Seq(Notice)] /\ reported \in [Targets -> 0 .. MaxIndex]
  BY DEF TypeInv, MemoryTyped, ReadersTyped, WireTyped
<1> HIDE DEF slot
<1>6. \A k \in DOMAIN notices'[t] : \E j \in DOMAIN notices[t] : notices'[t][k] = notices[t][j]
  <2>1. CASE t = u
    <3>1. notices'[t] = Tail(notices[t])
      BY <1>3, <1>5, <2>1
    <3>2. ASSUME NEW k \in DOMAIN Tail(notices[t])
          PROVE  k + 1 \in DOMAIN notices[t] /\ Tail(notices[t])[k] = notices[t][k + 1]
      BY <1>3, <2>1
    <3> QED
      BY <3>1, <3>2
  <2>2. CASE t # u
    BY <1>3, <1>5, <2>2
  <2> QED
    BY <2>1, <2>2
<1>7. reported'[t] = reported[t] \/ (t = u /\ reported'[t] = i /\ i = notices[t][1].first /\ 1 \in DOMAIN notices[t])
  BY <1>1, <1>4, <1>5
<1>8. Unannounced(t)'
  BY <1>3, <1>6, <1>7 DEF Settled, Unannounced
<1>9. HeaderFirst(t)'
  <2> SUFFICES ASSUME NEW k \in DOMAIN wire[t], Header \in Reach(wire[t][k].write)
               PROVE  /\ head[t] < wire[t][k].first /\ reported'[t] # wire[t][k].first
                      /\ \A l \in DOMAIN notices'[t] : notices'[t][l].first # wire[t][k].first
                      /\ \A j \in 1 .. k - 1 : wire[t][j].write.imm => wire[t][j].first # wire[t][k].first
    BY <1>3 DEF HeaderFirst
  <2> QED
    BY <1>6, <1>7 DEF Settled, HeaderFirst
<1>10. Readable(t)'
  <2>1. ReadableSlots(t)' = ReadableSlots(t)
    BY <1>3 DEF ReadableSlots
  <2>2. ASSUME NEW r \in Nat \ {0}, r \in ReadableSlots(t) \/ (r = reported[t] /\ t # u) \/ (t = u /\ r = i)
        PROVE  Whole(t, r)'
    <3>1. SlotIn(r, TargetCount) \in 0 .. TargetCount - 1
      BY SlotTyped
    <3>2. CASE t = u /\ SlotIn(r, TargetCount) = slot
      <4>1. r = i
        <5>1. i \in {head[t], head[t] + 1}
          BY <1>1, <1>4, <3>2 DEF Arrives, Ordered
        <5>2. r \in ReadableSlots(t) => r = i
          BY <3>2, <5>1, OwnSlot DEF slot
        <5> QED
          BY <2>2, <3>2, <5>2
      <4> QED
        BY <1>2, <3>2, <4>1 DEF Whole, SlotOf
    <3>3. CASE t # u \/ SlotIn(r, TargetCount) # slot
      <4>1. Whole(t, r)
        <5>1. r \in ReadableSlots(t) \/ r = reported[t]
          BY <2>2, <3>3 DEF slot
        <5> QED
          BY <5>1 DEF Settled, Readable
      <4>2. mem'[t][SlotIn(r, TargetCount)] = mem[t][SlotIn(r, TargetCount)]
        BY <1>2, <3>1, <3>3
      <4> QED
        BY <4>1, <4>2 DEF Whole, SlotOf
    <3> QED
      BY <3>2, <3>3
  <2>3. reported[t] \in Nat /\ \A r \in ReadableSlots(t) : r \in Nat \ {0}
    BY GrainTypes, Sizes DEF ReadableSlots
  <2>4. reported'[t] = IF t = u THEN i ELSE reported[t]
    BY <1>4, <1>5
  <2>5. ASSUME NEW r, r = reported'[t], r # 0 PROVE Whole(t, r)'
    BY <2>2, <2>3, <2>4, <2>5
  <2> QED
    BY <2>1, <2>2, <2>3, <2>5 DEF Readable
<1> QED
  BY <1>8, <1>9, <1>10 DEF Settled

(* Where it begins: there is nothing to read.                              *)
LEMMA InitSettled == Init => ReadableInv
<1> SUFFICES ASSUME Init, format = "grains", NEW t \in Targets PROVE Settled(t)
  BY DEF ReadableInv, Settled
<1>1. /\ at = 1 /\ wire[t] = <<>> /\ notices[t] = <<>> /\ reported[t] = 0 /\ head[t] = 0
  BY DEF Init
<1>2. DOMAIN wire[t] = {} /\ DOMAIN notices[t] = {}
  BY <1>1
<1>3. Unannounced(t)
  BY <1>1, <1>2 DEF Unannounced
<1>4. HeaderFirst(t)
  BY <1>2 DEF HeaderFirst
<1>5. ReadableSlots(t) = {}
  BY <1>1, Sizes DEF ReadableSlots
<1>6. Readable(t)
  BY <1>1, <1>5 DEF Readable
<1> QED
  BY <1>3, <1>4, <1>6 DEF Settled

LEMMA StepSettled ==
    ASSUME SlotsFit, TypeInv, ArrivalInv, ReadableInv, [Next]_vars
    PROVE  ReadableInv'
<1> SUFFICES ASSUME format' = "grains", ~lost', jammed' => Cardinality(Targets) = 1, NEW t \in Targets
             PROVE  Settled(t)'
  BY DEF ReadableInv, Settled
<1>1. format' = format /\ (lost => lost') /\ (jammed => jammed')
  BY FormatStays
<1>2. format = "grains" /\ \A u \in Targets : Arrives(u) /\ Settled(u)
  BY <1>1 DEF ArrivalInv, Arrives, ReadableInv, Settled
<1>3. CASE Produce
  BY <1>2, <1>3, SameSettled DEF Produce
<1>4. CASE TransferGrain
  BY <1>2, <1>4, TransferSettled
<1>5. CASE MakeProgress
  BY <1>2, <1>5, SameSettled DEF MakeProgress
<1>6. ASSUME NEW count \in 1 .. MaxBatch, TransferSamples(count) PROVE FALSE
  BY <1>2, <1>6 DEF TransferSamples
<1>7. ASSUME NEW u \in Targets, AddTarget(u) \/ RemoveTarget(u) PROVE Settled(t)'
  BY <1>2, <1>7, SameSettled DEF AddTarget, RemoveTarget
<1>8. ASSUME NEW u \in Targets, ReadTarget(u) PROVE Settled(t)'
  BY <1>2, <1>8, ReadSettled
<1>9. ASSUME NEW u \in Targets, CommitTarget(u) PROVE Settled(t)'
  BY <1>2, <1>9, CommitSettled
<1>10. ASSUME NEW u \in Targets, NEW ok \in BOOLEAN, Complete(u, ok) PROVE Settled(t)'
  <2>1. ok = TRUE
    BY <1>10 DEF Complete
  <2> QED
    BY <1>2, <1>10, <2>1, CompleteSettled
<1>11. CASE UNCHANGED vars
  BY <1>2, <1>11, SameSettled DEF vars
<1> QED
  BY <1>3, <1>4, <1>5, <1>6, <1>7, <1>8, <1>9, <1>10, <1>11 DEF Next

LEMMA AlwaysSettled == ASSUME SlotsFit PROVE Spec => [](TypeInv /\ ArrivalInv /\ ReadableInv)
<1>1. Init => TypeInv /\ ArrivalInv /\ ReadableInv
  BY InitTyped, InitArrives, InitSettled
<1>2. TypeInv /\ ArrivalInv /\ ReadableInv /\ [Next]_vars => TypeInv' /\ ArrivalInv' /\ ReadableInv'
  BY StepTyped, StepArrives, StepSettled
<1> QED
  BY <1>1, <1>2, PTL DEF Spec

(* A slot that may be read holds no grain newer than the one it is read    *)
(* for.                                                                    *)
LEMMA NoneNewer ==
    ASSUME TypeInv, format = "grains", NEW t \in Targets, Arrives(t), NEW i \in ReadableSlots(t)
    PROVE  SlotOf(t, i)[Header].index <= i
<1> DEFINE s == SlotIn(i, TargetCount)
           j == SlotOf(t, i)[Header].index
<1>1. head[t] \in Nat /\ TargetCount \in Nat \ {0} /\ TargetCount > 1
  BY GrainTypes, Sizes
<1>2. i \in Nat \ {0} /\ head[t] - TargetCount + 2 <= i
  BY <1>1 DEF ReadableSlots
<1>3. s \in 0 .. TargetCount - 1 /\ SlotOf(t, i)[Header] \in GrainHeader
  BY <1>2, SlotTyped
<1>4. j \in Nat
  <2>1. MaxGrain \in Nat
    BY RDMAssumption
  <2> QED
    BY <1>3, <2>1 DEF GrainHeader
<1>5. j = 0 \/ (SlotIn(j, TargetCount) = s /\ j <= head[t] + 1)
  BY <1>3 DEF Arrives, Located, SlotOf
<1> HIDE DEF j, s
<1>6. ASSUME j > i PROVE FALSE
  <2>1. SlotIn(j, TargetCount) = s /\ j <= head[t] + 1
    BY <1>2, <1>4, <1>5, <1>6
  <2>2. (j % TargetCount) = (i % TargetCount)
    BY <2>1 DEF SlotIn, s
  <2>3. j - i < TargetCount /\ i - j < TargetCount
    BY <1>1, <1>2, <1>4, <1>6, <2>1
  <2>4. j = i
    BY <1>1, <1>2, <1>4, <2>2, <2>3, SameSlot
  <2> QED
    BY <1>2, <1>6, <2>4
<1>7. j <= i
  BY <1>2, <1>4, <1>6
<1> QED
  BY <1>7 DEF j

(* A reader of the target flow finds in a slot it may read no newer grain  *)
(* than the one it asks for, and of that grain no slice that counts as     *)
(* valid without having arrived: the header is written from a source that  *)
(* is further on, but setValidSlicesForGrain lowers the count before the   *)
(* grain is committed, and no header is written after that.                *)
THEOREM ReadableGrainsAreComplete == ASSUME SlotsFit PROVE Spec => []ReadableIsComplete
<1>1. TypeInv /\ ArrivalInv /\ ReadableInv => ReadableIsComplete
  <2> SUFFICES ASSUME TypeInv, ArrivalInv, ReadableInv, format = "grains", ~lost,
                      jammed => Cardinality(Targets) = 1,
                      NEW t \in Targets, NEW i \in ReadableSlots(t)
               PROVE  /\ SlotOf(t, i)[Header].index <= i
                      /\ SlotOf(t, i)[Header].index = i => SlicesArrived(SlotOf(t, i), i)
    BY DEF ReadableIsComplete, ReadableComplete, SlotOf
  <2>1. Arrives(t) /\ Settled(t)
    BY DEF ArrivalInv, Arrives, ReadableInv, Settled
  <2>2. SlotOf(t, i)[Header].index <= i
    BY <2>1, NoneNewer
  <2>3. Whole(t, i)
    BY <2>1 DEF Settled, Readable
  <2> QED
    BY <2>2, <2>3 DEF Whole
<1> QED
  BY <1>1, AlwaysSettled, PTL

-----------------------------------------------------------------------------
(* Lists of pieces.                                                        *)

LEMMA RemainderIs ==
    ASSUME NEW n \in Nat \ {0}, NEW q \in Int, NEW r \in 0 .. n - 1
    PROVE  (n * q + r) % n = r /\ (n * q + r) \div n = q
<1> DEFINE a == n * q + r
<1>1. a \in Int /\ n * q \in Int
  OBVIOUS
<1>2. /\ a \div n \in Int /\ a % n \in 0 .. n - 1
      /\ a = n * (a \div n) + (a % n)
  <2> HIDE DEF a
  <2> QED
    BY <1>1
<1> DEFINE x == a \div n
           y == a % n
<1>3. n * (x - q) = r - y /\ x - q \in Int
  <2> HIDE DEF x, y
  <2>1. x \in Int /\ y \in 0 .. n - 1 /\ n * q + r = n * x + y
    BY <1>2 DEF x, y
  <2>2. n * (x - q) = n * x - n * q
    BY <2>1
  <2> QED
    BY <2>1, <2>2
<1>4. x - q = 0
  <2> HIDE DEF x
  <2>1. n * (x - q) < n /\ -n < n * (x - q)
    BY <1>2, <1>3
  <2> QED
    BY <1>3, <2>1
<1> HIDE DEF x, y
<1>5. x = q /\ y = r
  <2>1. x \in Int
    BY <1>2 DEF x
  <2>2. x = q
    BY <1>4, <2>1
  <2>3. n * (x - q) = 0
    BY <1>4
  <2>4. y \in Int
    BY <1>2 DEF y
  <2> QED
    BY <1>3, <2>2, <2>3, <2>4
<1> QED
  BY <1>5 DEF a, x, y

LEMMA Regrouped ==
    ASSUME NEW a \in Nat, NEW b \in Nat, NEW c \in Nat PROVE a + (b + c) = (a + b) + c
  OBVIOUS

(* Where the offsets of a list begin at 0 and grow by the length of each    *)
(* piece, they are those of the definition.                                *)
LEMMA OffsetsAre ==
    ASSUME NEW P, Len(P) \in Nat, NEW f, f = [n \in 1 .. Len(P) + 1 |-> f[n]], f[1] = 0,
           \A n \in 1 .. Len(P) : f[n + 1] = f[n] + P[n].len
    PROVE  \A k \in 1 .. Len(P) + 1 : OffsetIn(P, k) = f[k]
<1> DEFINE N == Len(P)
           Step(g) == [n \in 1 .. N + 1 |-> IF n = 1 THEN 0 ELSE g[n - 1] + P[n - 1].len]
           b == CHOOSE g : g = Step(g)
<1>1. f = Step(f)
  <2>1. ASSUME NEW n \in 1 .. N + 1 PROVE f[n] = Step(f)[n]
    <3>1. CASE n = 1
      BY <3>1
    <3>2. CASE n # 1
      <4>1. n - 1 \in 1 .. N /\ (n - 1) + 1 = n
        BY <3>2
      <4> QED
        BY <3>2, <4>1
    <3> QED
      BY <3>1, <3>2
  <2> QED
    BY <2>1
<1>2. b = Step(b)
  <2> HIDE DEF Step
  <2> QED
    BY <1>1
<1>3. \A k : OffsetIn(P, k) = b[k]
  BY DEF OffsetIn
<1> HIDE DEF b
<1>4. b[1] = 0 /\ \A n \in 1 .. N : b[n + 1] = b[n] + P[n].len
  <2>1. b[1] = 0
    BY <1>2
  <2>2. ASSUME NEW n \in 1 .. N PROVE b[n + 1] = b[n] + P[n].len
    <3>1. n + 1 \in 1 .. N + 1 /\ n + 1 # 1 /\ (n + 1) - 1 = n
      OBVIOUS
    <3>2. Step(b)[n + 1] = b[(n + 1) - 1] + P[(n + 1) - 1].len
      BY <3>1
    <3> QED
      BY <1>2, <3>1, <3>2
  <2> QED
    BY <2>1, <2>2
<1> HIDE DEF N
<1> DEFINE S == {n \in Nat : n <= N => b[n + 1] = f[n + 1]}
<1>5. 0 \in S
  BY <1>4
<1>6. ASSUME NEW n \in Nat, n \in S PROVE n + 1 \in S
  <2> SUFFICES ASSUME n + 1 <= N PROVE b[(n + 1) + 1] = f[(n + 1) + 1]
    OBVIOUS
  <2>1. n + 1 \in 1 .. N /\ b[n + 1] = f[n + 1]
    BY <1>6 DEF N
  <2> QED
    BY <1>4, <2>1 DEF N
<1>7. Nat \subseteq S
  <2> HIDE DEF S
  <2> QED
    BY <1>5, <1>6, EveryNumber
<1> SUFFICES ASSUME NEW k \in 1 .. N + 1 PROVE b[k] = f[k]
  BY <1>3 DEF N
<1>8. k - 1 \in Nat /\ k - 1 <= N /\ (k - 1) + 1 = k
  BY DEF N
<1> QED
  BY <1>7, <1>8

(* What lies between the first offset and the last lies between two that   *)
(* follow on each other.                                                   *)
LEMMA Covering ==
    ASSUME NEW n \in Nat, NEW f, \A k \in 1 .. n + 1 : f[k] \in Int,
           NEW j \in Int, f[1] <= j, j < f[n + 1]
    PROVE  \E q \in 1 .. n : f[q] <= j /\ j < f[q + 1]
<1> DEFINE S == {k \in 1 .. n + 1 : j < f[k]}
<1>1. S \subseteq Nat /\ S # {}
  OBVIOUS
<1>2. PICK m \in S : \A k \in S : m <= k
  <2> HIDE DEF S
  <2> QED
    BY <1>1, LeastElement
<1>3. m \in 1 .. n + 1 /\ j < f[m] /\ m # 1
  BY <1>2
<1>4. m - 1 \in 1 .. n /\ (m - 1) + 1 = m /\ m - 1 \notin S
  BY <1>2, <1>3
<1>5. f[m - 1] <= j
  BY <1>4
<1> QED
  BY <1>3, <1>4, <1>5

LEMMA Increasing ==
    ASSUME NEW n \in Nat, NEW f, \A k \in 1 .. n + 1 : f[k] \in Int,
           \A k \in 1 .. n : f[k] <= f[k + 1],
           NEW p \in 1 .. n + 1, NEW q \in 1 .. n + 1, p <= q
    PROVE  f[p] <= f[q]
<1> DEFINE S == {d \in Nat : p + d <= n + 1 => f[p] <= f[p + d]}
<1>1. 0 \in S
  OBVIOUS
<1>2. ASSUME NEW d \in Nat, d \in S PROVE d + 1 \in S
  <2> SUFFICES ASSUME p + (d + 1) <= n + 1 PROVE f[p] <= f[p + (d + 1)]
    OBVIOUS
  <2>1. p + d \in 1 .. n /\ f[p] <= f[p + d] /\ p + (d + 1) = (p + d) + 1
    BY <1>2
  <2>2. f[p + d] <= f[(p + d) + 1] /\ (p + d) + 1 \in 1 .. n + 1 /\ p + d \in 1 .. n + 1
    BY <2>1
  <2> QED
    BY <2>1, <2>2
<1>3. Nat \subseteq S
  <2> HIDE DEF S
  <2> QED
    BY <1>1, <1>2, EveryNumber
<1>4. q - p \in Nat /\ p + (q - p) = q
  OBVIOUS
<1> QED
  BY <1>3, <1>4

-----------------------------------------------------------------------------
(* Ranges of samples.                                                      *)

\* A range that is shorter than a ring, whose samples are index - count to
\* index - 1.
IsRange(index, count, length) ==
    /\ length \in Nat \ {0} /\ count \in 1 .. length - 1
    /\ index \in Nat /\ count <= index /\ Channels \in Nat \ {0}

(* The fragments of a range: two where it wraps.                           *)
LEMMA FragmentsAre ==
    ASSUME NEW index, NEW count, NEW length, IsRange(index, count, length)
    PROVE  LET f == Fragments(index, count, length)
           IN  /\ Len(f) \in {1, 2} /\ f[1].len \in 1 .. count /\ f[1].start \in 0 .. length - 1
               /\ f[1].start + f[1].len <= length
               /\ Len(f) = 1 => f[1].len = count
               /\ Len(f) = 2 => /\ f[1].len < count /\ f[2].len = count - f[1].len
                                /\ f[2].start = 0 /\ f[2].len <= length
               /\ \A x \in 0 .. f[1].len - 1 : (index - count + x) % length = f[1].start + x
               /\ Len(f) = 2 => \A x \in 0 .. f[2].len - 1 :
                                   (index - count + (f[1].len + x)) % length = f[2].start + x
<1> DEFINE s == index - count
           u == s % length
           q == s \div length
<1>1. /\ length \in Nat \ {0} /\ count \in 1 .. length - 1 /\ index \in Nat /\ s \in Nat
  BY DEF IsRange
<1>2. s = length * q + u /\ u \in 0 .. length - 1 /\ q \in Int
  <2>1. s \in Nat /\ length \in Nat /\ length > 0
    BY <1>1
  <2> HIDE DEF s
  <2> QED
    BY <2>1, Euclid, Remainder
<1> HIDE DEF q, u
<1>3. \A x \in 0 .. length - 1 - u : (s + x) % length = u + x
  <2> TAKE x \in 0 .. length - 1 - u
  <2>1. u + x \in 0 .. length - 1 /\ s + x = length * q + (u + x)
    BY <1>1, <1>2
  <2> QED
    BY <1>1, <1>2, <2>1, RemainderIs
<1>4. \A x \in length - u .. length - 1 : (s + x) % length = u + x - length
  <2> TAKE x \in length - u .. length - 1
  <2>1. u + x - length \in 0 .. length - 1 /\ q + 1 \in Int
    BY <1>1, <1>2
  <2>2. length * (q + 1) = length * q + length /\ length * q \in Int
    BY <1>1, <1>2
  <2>3. s + x = length * (q + 1) + (u + x - length)
    BY <1>1, <1>2, <2>1, <2>2
  <2> QED
    BY <1>1, <2>1, <2>3, RemainderIs
<1>5. (index + length - count) % length = u
  <2>1. q + 1 \in Int /\ length * (q + 1) = length * q + length /\ length * q \in Int
    BY <1>1, <1>2
  <2>2. index + length - count = length * (q + 1) + u
    BY <1>1, <1>2, <2>1
  <2> QED
    BY <1>1, <1>2, <2>1, <2>2, RemainderIs
<1> DEFINE e == index % length
<1>6. e = IF u + count < length THEN u + count ELSE u + count - length
  <2>1. index = s + count
    BY <1>1
  <2>2. CASE u + count < length
    <3>1. count \in 0 .. length - 1 - u
      BY <1>1, <1>2, <2>2
    <3> QED
      BY <1>3, <2>1, <2>2, <3>1
  <2>3. CASE u + count >= length
    <3>1. count \in length - u .. length - 1
      BY <1>1, <1>2, <2>3
    <3>2. (s + count) % length = u + count - length
      BY <1>4, <3>1
    <3> QED
      BY <1>1, <1>2, <2>1, <2>3, <3>2
  <2> QED
    BY <1>1, <1>2, <2>2, <2>3
<1> DEFINE first == IF u < e THEN count ELSE length - u
<1>7. Fragments(index, count, length) =
        IF first < count THEN <<[start |-> u, len |-> first], [start |-> 0, len |-> count - first]>>
        ELSE <<[start |-> u, len |-> first]>>
  BY <1>5 DEF Fragments
<1>8. first = IF u + count < length THEN count ELSE length - u
  BY <1>1, <1>2, <1>6
<1> HIDE DEF first, e, s
<1>9. CASE u + count < length
  <2>1. first = count /\ ~(first < count)
    BY <1>1, <1>8, <1>9
  <2>2. Fragments(index, count, length) = <<[start |-> u, len |-> count]>>
    BY <1>7, <2>1
  <2>3. \A x \in 0 .. count - 1 : (s + x) % length = u + x
    <3>1. \A x \in 0 .. count - 1 : x \in 0 .. length - 1 - u
      BY <1>1, <1>2, <1>9
    <3> QED
      BY <1>3, <3>1
  <2>4. u + count <= length
    BY <1>1, <1>2, <1>9
  <2> DEFINE f == Fragments(index, count, length)
  <2>5. Len(f) = 1 /\ f[1].start = u /\ f[1].len = count
    BY <2>2
  <2>6. \A x \in 0 .. f[1].len - 1 : (index - count + x) % length = f[1].start + x
    BY <2>3, <2>5 DEF s
  <2> HIDE DEF f
  <2>7. /\ Len(f) \in {1, 2} /\ Len(f) # 2 /\ f[1].len \in 1 .. count /\ f[1].start \in 0 .. length - 1
        /\ f[1].start + f[1].len <= length /\ f[1].len = count
    BY <1>1, <1>2, <2>4, <2>5
  <2> QED
    BY <2>6, <2>7 DEF f
<1>10. CASE u + count = length
  <2>1. first = count /\ ~(first < count)
    BY <1>1, <1>2, <1>8, <1>10
  <2>2. Fragments(index, count, length) = <<[start |-> u, len |-> count]>>
    BY <1>7, <2>1
  <2>3. \A x \in 0 .. count - 1 : (s + x) % length = u + x
    <3>1. \A x \in 0 .. count - 1 : x \in 0 .. length - 1 - u
      BY <1>1, <1>2, <1>10
    <3> QED
      BY <1>3, <3>1
  <2>4. u + count <= length
    BY <1>1, <1>2, <1>10
  <2> DEFINE f == Fragments(index, count, length)
  <2>5. Len(f) = 1 /\ f[1].start = u /\ f[1].len = count
    BY <2>2
  <2>6. \A x \in 0 .. f[1].len - 1 : (index - count + x) % length = f[1].start + x
    BY <2>3, <2>5 DEF s
  <2> HIDE DEF f
  <2>7. /\ Len(f) \in {1, 2} /\ Len(f) # 2 /\ f[1].len \in 1 .. count /\ f[1].start \in 0 .. length - 1
        /\ f[1].start + f[1].len <= length /\ f[1].len = count
    BY <1>1, <1>2, <2>4, <2>5
  <2> QED
    BY <2>6, <2>7 DEF f
<1>11. CASE u + count > length
  <2>1. first = length - u /\ first < count /\ first \in 1 .. count
    BY <1>1, <1>2, <1>8, <1>11
  <2>2. Fragments(index, count, length) =
          <<[start |-> u, len |-> first], [start |-> 0, len |-> count - first]>>
    BY <1>7, <2>1
  <2>3. \A x \in 0 .. first - 1 : (s + x) % length = u + x
    <3>1. \A x \in 0 .. first - 1 : x \in 0 .. length - 1 - u
      BY <1>1, <1>2, <2>1
    <3> QED
      BY <1>3, <3>1
  <2>4. \A x \in 0 .. count - first - 1 : (s + (first + x)) % length = x
    <3> TAKE x \in 0 .. count - first - 1
    <3>1. first + x \in length - u .. length - 1
      BY <1>1, <1>2, <2>1
    <3>2. (s + (first + x)) % length = u + (first + x) - length
      BY <1>4, <3>1
    <3> QED
      BY <1>1, <1>2, <2>1, <3>2
  <2>5. u + first <= length /\ count - first <= length
    BY <1>1, <1>2, <2>1
  <2> HIDE DEF first
  <2>6. \A x \in 0 .. count - first - 1 : (s + (first + x)) % length = 0 + x
    BY <2>4
  <2> DEFINE f == Fragments(index, count, length)
  <2>7. /\ Len(f) = 2 /\ f[1].start = u /\ f[1].len = first
        /\ f[2].start = 0 /\ f[2].len = count - first
    BY <2>2
  <2>8. \A x \in 0 .. f[1].len - 1 : (index - count + x) % length = f[1].start + x
    BY <2>3, <2>7 DEF s
  <2>9. \A x \in 0 .. f[2].len - 1 : (index - count + (f[1].len + x)) % length = f[2].start + x
    BY <2>6, <2>7 DEF s
  <2> HIDE DEF f
  <2>10. /\ Len(f) \in {1, 2} /\ Len(f) # 1 /\ f[1].len \in 1 .. count /\ f[1].start \in 0 .. length - 1
         /\ f[1].start + f[1].len <= length /\ f[1].len < count /\ f[2].len = count - f[1].len
         /\ f[2].start = 0 /\ f[2].len <= length
    BY <1>1, <1>2, <2>1, <2>5, <2>7
  <2> QED
    BY <2>8, <2>9, <2>10 DEF f
<1> QED
  BY <1>1, <1>2, <1>9, <1>10, <1>11

\* The pieces of a range, and where they begin in the list of samples.
Off(index, count, length, k) == OffsetIn(Pieces(index, count, length), k)

(* The pieces lie one after the other, channel after channel; what is in   *)
(* one are the samples d, d + 1, ... of its channel.                       *)
LEMMA PiecesAre ==
    ASSUME NEW index, NEW count, NEW length, IsRange(index, count, length)
    PROVE  LET P == Pieces(index, count, length)
               O(k) == Off(index, count, length, k)
           IN  /\ Len(P) \in Nat \ {0} /\ DOMAIN P = 1 .. Len(P) /\ P = [k \in 1 .. Len(P) |-> P[k]]
               /\ \A k \in 1 .. Len(P) + 1 : O(k) \in Nat
               /\ O(1) = 0 /\ O(Len(P) + 1) = Channels * count
               /\ \A k \in 1 .. Len(P) :
                     /\ O(k + 1) = O(k) + P[k].len /\ P[k].len \in Nat \ {0}
                     /\ \E c \in 0 .. Channels - 1, d \in 0 .. count - 1 :
                           /\ P[k].channel = c /\ O(k) = c * count + d /\ d + P[k].len <= count
                           /\ P[k].start \in Nat /\ P[k].start + P[k].len <= length
                           /\ \A x \in 0 .. P[k].len - 1 :
                                 (index - count + (d + x)) % length = P[k].start + x
<1> DEFINE f == Fragments(index, count, length)
           m == Len(f)
           first == f[1].len
           P == Pieces(index, count, length)
           C(k) == (k - 1) \div m
           R(k) == (k - 1) % m
           D(k) == IF R(k) = 0 THEN 0 ELSE first
           o == [k \in 1 .. Channels * m + 1 |-> C(k) * count + D(k)]
<1>1. /\ Channels \in Nat \ {0} /\ count \in Nat \ {0} /\ index \in Nat /\ length \in Nat \ {0}
      /\ index - count \in Nat
  BY DEF IsRange
<1>2. /\ m \in {1, 2} /\ first \in 1 .. count /\ f[1].start \in 0 .. length - 1
      /\ f[1].start + f[1].len <= length
      /\ m = 1 => f[1].len = count
      /\ m = 2 => /\ f[1].len < count /\ f[2].len = count - f[1].len
                  /\ f[2].start = 0 /\ f[2].len <= length
      /\ \A x \in 0 .. f[1].len - 1 : (index - count + x) % length = f[1].start + x
      /\ m = 2 => \A x \in 0 .. f[2].len - 1 :
                     (index - count + (f[1].len + x)) % length = f[2].start + x
  BY FragmentsAre
<1>3. P = [k \in 1 .. Channels * m |-> PieceOf(C(k), f[R(k) + 1])]
  BY DEF Pieces
<1>4. Channels * m \in Nat \ {0}
  <2> HIDE DEF m
  <2> QED
    BY <1>1, <1>2
<1>5. Len(P) = Channels * m /\ DOMAIN P = 1 .. Channels * m
  BY <1>3, <1>4
<1> HIDE DEF f, P
<1>6. ASSUME NEW k \in 1 .. Channels * m + 1
      PROVE  /\ C(k) \in 0 .. Channels /\ R(k) \in 0 .. m - 1 /\ k = m * C(k) + R(k) + 1
             /\ k <= Channels * m => C(k) < Channels
             /\ k = Channels * m + 1 => C(k) = Channels /\ R(k) = 0
  <2> HIDE DEF m
  <2>1. k - 1 \in Nat /\ m \in Nat /\ m > 0
    BY <1>2, <1>4
  <2>2. /\ C(k) \in Int /\ R(k) \in 0 .. m - 1 /\ k - 1 = m * C(k) + R(k)
    <3>1. C(k) \in Int /\ k - 1 = m * C(k) + R(k)
      BY <2>1, Euclid
    <3>2. R(k) \in 0 .. m - 1
      BY <2>1, Remainder
    <3> QED
      BY <3>1, <3>2
  <2> HIDE DEF C, R
  <2>3. CASE m = 1
    BY <1>1, <2>2, <2>3
  <2>4. CASE m = 2
    BY <1>1, <2>2, <2>4
  <2> QED
    BY <1>2, <2>3, <2>4
<1>7. ASSUME NEW k \in 1 .. Channels * m
      PROVE  /\ C(k + 1) = IF R(k) = m - 1 THEN C(k) + 1 ELSE C(k)
             /\ R(k + 1) = IF R(k) = m - 1 THEN 0 ELSE R(k) + 1
  <2>1. k \in 1 .. Channels * m + 1 /\ k + 1 \in 1 .. Channels * m + 1
    BY <1>4
  <2>2. /\ C(k) \in Int /\ R(k) \in 0 .. m - 1 /\ k = m * C(k) + R(k) + 1
        /\ C(k + 1) \in Int /\ R(k + 1) \in 0 .. m - 1 /\ k + 1 = m * C(k + 1) + R(k + 1) + 1
    BY <1>6, <2>1
  <2> HIDE DEF C, R, m
  <2>3. CASE m = 1
    BY <2>2, <2>3
  <2>4. CASE m = 2
    BY <2>2, <2>4
  <2> QED
    BY <1>2, <2>3, <2>4
<1> HIDE DEF C, R
<1>8. ASSUME NEW k \in 1 .. Channels * m
      PROVE  /\ P[k].channel = C(k) /\ P[k].len = f[R(k) + 1].len /\ P[k].start = f[R(k) + 1].start
             /\ P[k].len \in Nat \ {0} /\ D(k) \in 0 .. count - 1 /\ D(k) + P[k].len <= count
             /\ P[k].start \in Nat /\ P[k].start + P[k].len <= length
             /\ \A x \in 0 .. P[k].len - 1 : (index - count + (D(k) + x)) % length = P[k].start + x
             /\ D(k + 1) = IF R(k) = m - 1 THEN 0 ELSE D(k) + P[k].len
             /\ R(k) = m - 1 => D(k) + P[k].len = count
  <2>1. P[k] = PieceOf(C(k), f[R(k) + 1])
    BY <1>3
  <2>2. P[k].channel = C(k) /\ P[k].len = f[R(k) + 1].len /\ P[k].start = f[R(k) + 1].start
    BY <2>1 DEF PieceOf
  <2>3. /\ R(k) \in 0 .. m - 1 /\ R(k + 1) = IF R(k) = m - 1 THEN 0 ELSE R(k) + 1
    BY <1>4, <1>6, <1>7
  <2> HIDE DEF m
  <2>4. CASE R(k) = 0
    <3>1. P[k].len = f[1].len /\ P[k].start = f[1].start /\ D(k) = 0
      BY <2>2, <2>4
    <3>2. /\ P[k].len \in Nat \ {0} /\ D(k) \in 0 .. count - 1 /\ D(k) + P[k].len <= count
          /\ P[k].start \in Nat /\ P[k].start + P[k].len <= length
      BY <1>1, <1>2, <3>1
    <3>3. \A x \in 0 .. P[k].len - 1 : (index - count + (D(k) + x)) % length = P[k].start + x
      <4> TAKE x \in 0 .. P[k].len - 1
      <4>1. x \in Int /\ D(k) + x = x
        BY <3>1, <3>2
      <4> QED
        BY <1>2, <3>1, <4>1
    <3>4. D(k + 1) = IF R(k) = m - 1 THEN 0 ELSE D(k) + P[k].len
      BY <1>2, <2>3, <2>4, <3>1
    <3>5. R(k) = m - 1 => D(k) + P[k].len = count
      BY <1>2, <2>4, <3>1
    <3> HIDE DEF D
    <3> QED
      BY <2>2, <3>2, <3>3, <3>4, <3>5
  <2>5. CASE R(k) # 0
    <3>1. R(k) = 1 /\ m = 2
      BY <1>2, <2>3, <2>5
    <3>2. P[k].len = f[2].len /\ P[k].start = f[2].start /\ D(k) = first
      BY <2>2, <3>1
    <3>3. /\ P[k].len \in Nat \ {0} /\ D(k) \in 0 .. count - 1 /\ D(k) + P[k].len <= count
          /\ P[k].start \in Nat /\ P[k].start + P[k].len <= length
      BY <1>1, <1>2, <3>1, <3>2
    <3>4. \A x \in 0 .. P[k].len - 1 : (index - count + (D(k) + x)) % length = P[k].start + x
      BY <1>2, <3>1, <3>2
    <3>5. D(k + 1) = 0 /\ R(k) = m - 1 /\ D(k) + P[k].len = count
      BY <1>1, <1>2, <2>3, <3>1, <3>2
    <3> HIDE DEF D
    <3> QED
      BY <2>2, <3>3, <3>4, <3>5
  <2> QED
    BY <2>4, <2>5
<1> HIDE DEF D
<1>9. \A k \in 1 .. Channels * m + 1 : o[k] = C(k) * count + D(k)
  OBVIOUS
<1>10. o = [k \in 1 .. Len(P) + 1 |-> o[k]]
  BY <1>5
<1> HIDE DEF o
<1>11. 1 \in 1 .. Channels * m + 1 /\ o[1] = 0
  <2>1. 1 \in 1 .. Channels * m + 1
    BY <1>4
  <2>2. C(1) = 0 /\ R(1) = 0
    <3>1. C(1) \in Nat /\ R(1) \in Nat /\ 1 = m * C(1) + R(1) + 1 /\ m \in {1, 2}
      BY <1>2, <1>6, <2>1
    <3>2. m * C(1) = 0
      <4>1. m * C(1) \in Nat
        BY <3>1
      <4> QED
        BY <3>1, <4>1
    <3>3. CASE m = 1
      BY <3>1, <3>2, <3>3
    <3>4. CASE m = 2
      BY <3>1, <3>2, <3>4
    <3> QED
      BY <3>1, <3>3, <3>4
  <2> QED
    BY <1>1, <1>9, <2>1, <2>2 DEF D
<1>12. ASSUME NEW k \in 1 .. Channels * m PROVE o[k + 1] = o[k] + P[k].len
  <2>1. k \in 1 .. Channels * m + 1 /\ k + 1 \in 1 .. Channels * m + 1
    BY <1>4
  <2>2. o[k] = C(k) * count + D(k) /\ o[k + 1] = C(k + 1) * count + D(k + 1)
    BY <1>9, <2>1
  <2>3. C(k) \in Nat /\ D(k) \in Nat /\ P[k].len \in Nat
    BY <1>6, <1>8, <2>1
  <2>4. CASE R(k) = m - 1
    <3>1. C(k + 1) = C(k) + 1 /\ D(k + 1) = 0 /\ D(k) + P[k].len = count
      BY <1>7, <1>8, <2>4
    <3>2. (C(k) + 1) * count = C(k) * count + count /\ C(k) * count \in Nat
      BY <1>1, <2>3
    <3>3. o[k + 1] = C(k) * count + count
      BY <1>1, <2>2, <3>1, <3>2
    <3> DEFINE X == C(k) * count
    <3>4. X \in Nat /\ o[k] = X + D(k) /\ o[k + 1] = X + count
      BY <2>2, <3>2, <3>3
    <3> HIDE DEF X
    <3>5. X + (D(k) + P[k].len) = (X + D(k)) + P[k].len
      BY <2>3, <3>4, Regrouped
    <3> QED
      BY <3>1, <3>4, <3>5
  <2>5. CASE R(k) # m - 1
    <3>1. C(k + 1) = C(k) /\ D(k + 1) = D(k) + P[k].len
      BY <1>7, <1>8, <2>5
    <3>2. C(k) * count \in Nat
      BY <1>1, <2>3
    <3> QED
      BY <2>2, <2>3, <3>1, <3>2
  <2> QED
    BY <2>4, <2>5
<1>13. \A k \in 1 .. Channels * m + 1 : OffsetIn(P, k) = o[k]
  <2>1. Len(P) \in Nat /\ \A n \in 1 .. Len(P) : o[n + 1] = o[n] + P[n].len
    BY <1>4, <1>5, <1>12
  <2>2. \A k \in 1 .. Len(P) + 1 : OffsetIn(P, k) = o[k]
    BY <1>10, <1>11, <2>1, OffsetsAre
  <2> QED
    BY <1>5, <2>2
<1>14. \A k \in 1 .. Channels * m + 1 : o[k] \in Nat
  <2> TAKE k \in 1 .. Channels * m + 1
  <2>1. C(k) \in Nat /\ D(k) \in Nat
    BY <1>1, <1>2, <1>6 DEF D
  <2>2. C(k) * count \in Nat
    BY <1>1, <2>1
  <2> QED
    BY <1>9, <2>1, <2>2
<1>15. o[Channels * m + 1] = Channels * count
  <2>1. Channels * m + 1 \in 1 .. Channels * m + 1
    BY <1>4
  <2>2. C(Channels * m + 1) = Channels /\ R(Channels * m + 1) = 0
    BY <1>6, <2>1
  <2>3. Channels * count \in Nat
    BY <1>1
  <2> QED
    BY <1>9, <2>1, <2>2, <2>3 DEF D
<1>16. \A k \in 1 .. Channels * m + 1 : Off(index, count, length, k) = o[k]
  BY <1>13 DEF Off, P
<1>17. ASSUME NEW k \in 1 .. Channels * m
       PROVE  \E c \in 0 .. Channels - 1, d \in 0 .. count - 1 :
                 /\ P[k].channel = c /\ o[k] = c * count + d /\ d + P[k].len <= count
                 /\ P[k].start \in Nat /\ P[k].start + P[k].len <= length
                 /\ \A x \in 0 .. P[k].len - 1 : (index - count + (d + x)) % length = P[k].start + x
  <2>1. k \in 1 .. Channels * m + 1
    BY <1>4
  <2>2. C(k) \in 0 .. Channels - 1 /\ D(k) \in 0 .. count - 1
    BY <1>1, <1>6, <1>8, <2>1
  <2>3. /\ P[k].channel = C(k) /\ o[k] = C(k) * count + D(k) /\ D(k) + P[k].len <= count
        /\ P[k].start \in Nat /\ P[k].start + P[k].len <= length
        /\ \A x \in 0 .. P[k].len - 1 : (index - count + (D(k) + x)) % length = P[k].start + x
    BY <1>8, <1>9, <2>1
  <2> QED
    BY <2>2, <2>3
<1> HIDE DEF m
<1>18. \A k \in 1 .. Channels * m : /\ P[k].len \in Nat \ {0}
                                    /\ k \in 1 .. Channels * m + 1 /\ k + 1 \in 1 .. Channels * m + 1
  BY <1>4, <1>8
<1>19. /\ Len(P) \in Nat \ {0} /\ DOMAIN P = 1 .. Len(P) /\ P = [k \in 1 .. Len(P) |-> P[k]]
  BY <1>3, <1>4, <1>5
<1> DEFINE O(k) == Off(index, count, length, k)
<1>20. \A k \in 1 .. Len(P) + 1 : O(k) = o[k]
  BY <1>5, <1>16
<1> HIDE DEF O
<1>21. /\ \A k \in 1 .. Len(P) + 1 : O(k) \in Nat
       /\ O(1) = 0 /\ O(Len(P) + 1) = Channels * count
  BY <1>5, <1>11, <1>14, <1>15, <1>19, <1>20
<1>22. ASSUME NEW k \in 1 .. Len(P)
       PROVE  /\ O(k + 1) = O(k) + P[k].len /\ P[k].len \in Nat \ {0}
              /\ \E c \in 0 .. Channels - 1, d \in 0 .. count - 1 :
                    /\ P[k].channel = c /\ O(k) = c * count + d /\ d + P[k].len <= count
                    /\ P[k].start \in Nat /\ P[k].start + P[k].len <= length
                    /\ \A x \in 0 .. P[k].len - 1 :
                          (index - count + (d + x)) % length = P[k].start + x
  <2>1. k \in 1 .. Channels * m /\ k \in 1 .. Len(P) + 1 /\ k + 1 \in 1 .. Len(P) + 1
    BY <1>5, <1>18
  <2>2. O(k) = o[k] /\ O(k + 1) = o[k + 1]
    BY <1>20, <2>1
  <2>3. O(k + 1) = O(k) + P[k].len /\ P[k].len \in Nat \ {0}
    BY <1>12, <1>18, <2>1, <2>2
  <2>4. PICK c \in 0 .. Channels - 1, d \in 0 .. count - 1 :
           /\ P[k].channel = c /\ o[k] = c * count + d /\ d + P[k].len <= count
           /\ P[k].start \in Nat /\ P[k].start + P[k].len <= length
           /\ \A x \in 0 .. P[k].len - 1 : (index - count + (d + x)) % length = P[k].start + x
    BY <1>17, <2>1
  <2> QED
    BY <2>2, <2>3, <2>4
<1> QED
  BY <1>19, <1>21, <1>22 DEF P, O

\* The sample at a place of the list of a range.
Sample(r, p) == <<(p - 1) \div r.count, r.index - r.count + ((p - 1) % r.count)>>

LEMMA SampleIs ==
    ASSUME NEW r, r.count \in Nat \ {0}, NEW c \in Nat, NEW y \in 0 .. r.count - 1,
           NEW p, p = c * r.count + y + 1
    PROVE  Sample(r, p) = <<c, r.index - r.count + y>>
<1> DEFINE n == r.count
<1>1. c * n = n * c /\ n * c \in Nat
  OBVIOUS
<1> HIDE DEF n
<1>2. p - 1 = n * c + y
  BY <1>1 DEF n
<1>3. (p - 1) % n = y /\ (p - 1) \div n = c
  <2>1. n \in Nat \ {0} /\ c \in Int /\ y \in 0 .. n - 1
    BY DEF n
  <2>2. (n * c + y) % n = y /\ (n * c + y) \div n = c
    BY <2>1, RemainderIs
  <2> QED
    BY <1>2, <2>2
<1> QED
  BY <1>3 DEF Sample, n

\* The samples of a range are at their places in a ring.
InPlace(ring0, index, count, length) ==
    \A c \in 0 .. Channels - 1 : \A i \in index - count .. index - 1 : ring0[c][i % length] = <<c, i>>

(* The samples that some pieces of a range refer to.                       *)
LEMMA Gathered ==
    ASSUME NEW index, NEW count, NEW length, IsRange(index, count, length),
           NEW ring0, InPlace(ring0, index, count, length),
           NEW a \in Nat, NEW b \in Nat, 1 <= a, a <= b + 1, b <= Len(Pieces(index, count, length))
    PROVE  LET Q == SubSeq(Pieces(index, count, length), a, b)
               T == OffsetIn(Q, Len(Q) + 1)
               first == Off(index, count, length, a)
           IN  /\ T = Off(index, count, length, b + 1) - first /\ T \in Nat
               /\ DOMAIN Gather(ring0, Q) = 1 .. T
               /\ \A j \in 1 .. T :
                     Gather(ring0, Q)[j] = Sample([index |-> index, count |-> count], first + j)
<1> DEFINE P == Pieces(index, count, length)
           N == Len(P)
           O(k) == Off(index, count, length, k)
           Q == SubSeq(P, a, b)
           m == b - a + 1
           f == [n \in 1 .. m + 1 |-> O(a + n - 1) - O(a)]
           T == OffsetIn(Q, Len(Q) + 1)
           r == [index |-> index, count |-> count]
<1>1. /\ N \in Nat \ {0} /\ DOMAIN P = 1 .. N /\ P = [k \in 1 .. N |-> P[k]]
      /\ \A k \in 1 .. N + 1 : O(k) \in Nat
      /\ \A k \in 1 .. N :
            /\ O(k + 1) = O(k) + P[k].len /\ P[k].len \in Nat \ {0}
            /\ \E c \in 0 .. Channels - 1, d \in 0 .. count - 1 :
                  /\ P[k].channel = c /\ O(k) = c * count + d /\ d + P[k].len <= count
                  /\ P[k].start \in Nat /\ P[k].start + P[k].len <= length
                  /\ \A x \in 0 .. P[k].len - 1 :
                        (index - count + (d + x)) % length = P[k].start + x
  BY PiecesAre
<1> HIDE DEF O, P
<1>2. /\ m \in Nat /\ Len(Q) = m /\ DOMAIN Q = 1 .. m
      /\ \A k \in 1 .. m : Q[k] = P[a + k - 1] /\ a + k - 1 \in 1 .. N
  <2>1. P \in Seq({P[k] : k \in 1 .. N})
    BY <1>1
  <2> HIDE DEF N
  <2>2. N = Len(P) /\ N \in Nat /\ b <= Len(P)
    BY <1>1 DEF N, P
  <2>3. m \in Nat /\ Len(Q) = m /\ DOMAIN Q = 1 .. m
    BY <2>1, <2>2
  <2>4. \A k \in 1 .. m : Q[k] = P[a + k - 1]
    BY <2>1, <2>2, <2>3
  <2>5. \A k \in 1 .. m : a + k - 1 \in 1 .. N
    BY <2>2
  <2> QED
    BY <2>3, <2>4, <2>5
<1> HIDE DEF Q
<1>3. b <= N
  BY DEF P
<1> HIDE DEF N
<1>4. \A n \in 1 .. m + 1 : a + n - 1 \in 1 .. N + 1 /\ f[n] = O(a + n - 1) - O(a) /\ f[n] \in Int
  <2> TAKE n \in 1 .. m + 1
  <2>1. a + n - 1 \in 1 .. N + 1 /\ a \in 1 .. N + 1
    BY <1>1, <1>3
  <2> QED
    BY <1>1, <2>1
<1>5. f[1] = 0 /\ f[m + 1] = O(b + 1) - O(a)
  <2>1. a + 1 - 1 = a /\ a + (m + 1) - 1 = b + 1 /\ 1 \in 1 .. m + 1 /\ m + 1 \in 1 .. m + 1
    BY <1>2
  <2>2. a \in 1 .. N + 1 /\ O(a) \in Nat
    BY <1>1, <1>3
  <2>3. f[1] = O(a) - O(a) /\ f[m + 1] = O(b + 1) - O(a)
    BY <1>4, <2>1
  <2> QED
    BY <2>2, <2>3
<1>6. f = [n \in 1 .. Len(Q) + 1 |-> f[n]]
  BY <1>2
<1> HIDE DEF f, m
<1>7. ASSUME NEW k \in 1 .. m
      PROVE  f[k + 1] = f[k] + Q[k].len /\ Q[k].len \in Nat \ {0}
  <2>1. a + k - 1 \in 1 .. N /\ Q[k] = P[a + k - 1] /\ k \in 1 .. m + 1 /\ k + 1 \in 1 .. m + 1
    BY <1>2
  <2>2. a + (k + 1) - 1 = (a + k - 1) + 1
    OBVIOUS
  <2>3. f[k] = O(a + k - 1) - O(a) /\ f[k + 1] = O((a + k - 1) + 1) - O(a)
    BY <1>4, <2>1, <2>2
  <2>4. O((a + k - 1) + 1) = O(a + k - 1) + P[a + k - 1].len /\ P[a + k - 1].len \in Nat \ {0}
    BY <1>1, <2>1
  <2>5. O(a + k - 1) \in Nat /\ O(a) \in Nat
    <3>1. a + k - 1 \in 1 .. N + 1 /\ a \in 1 .. N + 1
      BY <1>1, <1>3, <2>1
    <3> QED
      BY <1>1, <3>1
  <2> QED
    BY <2>1, <2>3, <2>4, <2>5
<1>8. \A k \in 1 .. m + 1 : OffsetIn(Q, k) = f[k]
  <2>1. Len(Q) \in Nat /\ \A n \in 1 .. Len(Q) : f[n + 1] = f[n] + Q[n].len
    BY <1>2, <1>7
  <2>2. \A k \in 1 .. Len(Q) + 1 : OffsetIn(Q, k) = f[k]
    BY <1>5, <1>6, <2>1, OffsetsAre
  <2> QED
    BY <1>2, <2>2
<1>9. T = f[m + 1]
  <2>1. m + 1 \in 1 .. m + 1
    BY <1>2
  <2> QED
    BY <1>2, <1>8, <2>1
<1>10. T \in Nat
  <2>1. \A k \in 1 .. m : f[k] <= f[k + 1]
    <3> TAKE k \in 1 .. m
    <3>1. k \in 1 .. m + 1 /\ k + 1 \in 1 .. m + 1
      BY <1>2
    <3> QED
      BY <1>4, <1>7, <3>1
  <2>2. 1 \in 1 .. m + 1 /\ m + 1 \in 1 .. m + 1 /\ 1 <= m + 1
    BY <1>2
  <2>3. \A k \in 1 .. m + 1 : f[k] \in Int
    BY <1>4
  <2>4. f[1] <= f[m + 1]
    BY <1>2, <2>1, <2>2, <2>3, Increasing
  <2> QED
    BY <1>5, <1>9, <2>2, <2>3, <2>4
<1> DEFINE Fits(j, k) == OffsetIn(Q, k) < j /\ j <= OffsetIn(Q, k) + Q[k].len
           At(j) == CHOOSE k \in DOMAIN Q : Fits(j, k)
<1>11. Gather(ring0, Q) =
         [j \in 1 .. T |-> ring0[Q[At(j)].channel][Q[At(j)].start + j - OffsetIn(Q, At(j)) - 1]]
  BY DEF Gather
<1> HIDE DEF T
<1>12. ASSUME NEW j \in 1 .. T PROVE Gather(ring0, Q)[j] = Sample(r, O(a) + j)
  <2>1. PICK q \in 1 .. m : f[q] <= j - 1 /\ j - 1 < f[q + 1]
    <3>1. j - 1 \in Int /\ f[1] <= j - 1 /\ j - 1 < f[m + 1]
      BY <1>5, <1>9, <1>10
    <3>2. \A k \in 1 .. m + 1 : f[k] \in Int
      BY <1>4
    <3> QED
      BY <1>2, <3>1, <3>2, Covering
  <2>2. q \in DOMAIN Q /\ Fits(j, q)
    <3>1. q \in 1 .. m + 1 /\ f[q + 1] = f[q] + Q[q].len /\ f[q] \in Int /\ Q[q].len \in Nat
      BY <1>2, <1>4, <1>7
    <3>2. OffsetIn(Q, q) = f[q]
      BY <1>8, <3>1
    <3> QED
      BY <1>2, <1>10, <2>1, <3>1, <3>2
  <2>3. PICK k \in 1 .. m : k = At(j) /\ Fits(j, k)
    <3> HIDE DEF Fits
    <3>1. At(j) \in DOMAIN Q /\ Fits(j, At(j))
      BY <2>2
    <3> HIDE DEF At
    <3> QED
      BY <1>2, <3>1
  <2> DEFINE K == a + k - 1
  <2>4. /\ K \in 1 .. N /\ Q[k] = P[K] /\ k \in 1 .. m + 1
        /\ OffsetIn(Q, k) = f[k] /\ f[k] = O(K) - O(a) /\ O(K) \in Nat /\ O(a) \in Nat
    <3>1. K \in 1 .. N /\ Q[k] = P[K] /\ k \in 1 .. m + 1
      BY <1>2
    <3>2. K \in 1 .. N + 1 /\ a \in 1 .. N + 1
      BY <1>1, <1>3, <3>1
    <3> QED
      BY <1>1, <1>4, <1>8, <3>1, <3>2
  <2> HIDE DEF K
  <2>5. PICK c \in 0 .. Channels - 1, d \in 0 .. count - 1 :
           /\ P[K].channel = c /\ O(K) = c * count + d /\ d + P[K].len <= count
           /\ P[K].start \in Nat
           /\ \A x \in 0 .. P[K].len - 1 : (index - count + (d + x)) % length = P[K].start + x
    BY <1>1, <2>4
  <2> DEFINE x == j - (O(K) - O(a)) - 1
  <2>6. x \in 0 .. P[K].len - 1 /\ P[K].len \in Nat
    <3>1. OffsetIn(Q, k) < j /\ j <= OffsetIn(Q, k) + Q[k].len
      BY <2>3
    <3>2. P[K].len \in Nat /\ j \in Int
      BY <1>1, <1>10, <2>4
    <3> DEFINE u == O(K) - O(a)
               n == P[K].len
    <3>3. u \in Int /\ u < j /\ j <= u + n /\ n \in Nat
      BY <2>4, <3>1, <3>2
    <3>4. x = j - u - 1
      OBVIOUS
    <3> HIDE DEF u, x
    <3>5. x \in 0 .. n - 1
      BY <3>2, <3>3, <3>4
    <3> QED
      BY <3>3, <3>5
  <2>7. Gather(ring0, Q)[j] = ring0[c][P[K].start + x]
    <3>1. Gather(ring0, Q)[j] = ring0[Q[k].channel][Q[k].start + j - OffsetIn(Q, k) - 1]
      BY <1>11, <2>3
    <3>2. P[K].start + j - (O(K) - O(a)) - 1 = P[K].start + x
      BY <1>10, <2>4, <2>5
    <3> HIDE DEF x
    <3> QED
      BY <2>4, <2>5, <3>1, <3>2
  <2>8. O(a) + j = O(K) + x + 1
    BY <1>10, <2>4
  <2> HIDE DEF x
  <2>9. /\ count \in Nat \ {0} /\ d + x \in 0 .. count - 1 /\ c \in Nat
        /\ index \in Nat /\ count <= index
    <3>1. count \in Nat \ {0} /\ index \in Nat /\ count <= index /\ Channels \in Nat \ {0}
      BY DEF IsRange
    <3> DEFINE n == P[K].len
    <3>2. n \in Nat /\ x \in 0 .. n - 1 /\ d + n <= count /\ d \in 0 .. count - 1
      BY <2>5, <2>6
    <3> HIDE DEF n
    <3> QED
      BY <3>1, <3>2
  <2>10. index - count + (d + x) \in index - count .. index - 1
    BY <2>9
  <2>11. ring0[c][P[K].start + x] = <<c, index - count + (d + x)>>
    <3> HIDE DEF Off
    <3>1. /\ c \in 0 .. Channels - 1 /\ (index - count + (d + x)) % length = P[K].start + x
      BY <2>5, <2>6
    <3> QED
      BY <2>10, <3>1 DEF InPlace
  <2>12. Sample(r, O(a) + j) = <<c, index - count + (d + x)>>
    <3> DEFINE y == d + x
    <3>1. O(a) + j = c * count + y + 1
      <4>1. c * count \in Nat /\ d \in Nat /\ x \in Nat
        BY <2>5, <2>6, <2>9
      <4> QED
        BY <2>5, <2>8, <4>1
    <3>2. r.count = count /\ r.index = index
      OBVIOUS
    <3> HIDE DEF r, y
    <3>3. y \in 0 .. r.count - 1 /\ r.count \in Nat \ {0} /\ O(a) + j = c * r.count + y + 1
      BY <2>9, <3>1, <3>2 DEF y
    <3>4. Sample(r, O(a) + j) = <<c, r.index - r.count + y>>
      BY <2>9, <3>3, SampleIs
    <3> QED
      BY <3>2, <3>4 DEF y
  <2> QED
    BY <2>7, <2>11, <2>12
<1>13. DOMAIN Gather(ring0, Q) = 1 .. T
  BY <1>11
<1> QED
  BY <1>5, <1>9, <1>10, <1>12, <1>13 DEF O, P, Q, T, r

-----------------------------------------------------------------------------
(* The writes of a range.                                                  *)

\* The places of an entry that a write brings.
Extent(w) == OffsetIn(w.pieces, Len(w.pieces) + 1)
Takes(w) == {p \in Samples : p - w.offset \in 1 .. Extent(w)}
Writes(r) == SampleWrites(r.index, r.count)

\* A range that fits into an entry.
Batch(r) == r.count \in 1 .. MaxBatch /\ r.index \in Nat /\ r.count <= r.index

LEMMA BatchIsRange ==
    ASSUME NEW r, Batch(r)
    PROVE  IsRange(r.index, r.count, SourceLength) /\ IsRange(r.index, r.count, TargetLength)
  BY SampleAssumption DEF Batch, IsRange

(* How the pieces of a list are divided into writes.                       *)
LEMMA Divided ==
    ASSUME NEW N \in Nat \ {0}, NEW I \in Nat \ {0}
    PROVE  LET total == N + 1
               n == (total + I - 1) \div I
               a(v) == IF v = 1 THEN 1 ELSE (v - 1) * I
               b(v) == (IF v * I < total THEN v * I ELSE total) - 1
           IN  /\ n \in Nat \ {0} /\ b(n) = N
               /\ \A v \in 1 .. n : /\ a(v) \in Nat \ {0} /\ b(v) \in Nat /\ a(v) <= b(v) + 1 /\ b(v) <= N
                                    /\ v < n => a(v + 1) = b(v) + 1
<1> DEFINE total == N + 1
           n == (total + I - 1) \div I
           a(v) == IF v = 1 THEN 1 ELSE (v - 1) * I
           b(v) == (IF v * I < total THEN v * I ELSE total) - 1
<1>1. n \in Int /\ n * I \in Int /\ total <= n * I /\ n * I < total + I
  <2> DEFINE x == total + I - 1
  <2>1. x \in Nat /\ I \in Nat \ {0} /\ I > 0
    OBVIOUS
  <2> HIDE DEF x
  <2> DEFINE q == x \div I
  <2>2. q \in Int /\ x % I \in 0 .. I - 1 /\ x = I * q + (x % I)
    BY <2>1, Euclid, Remainder
  <2> HIDE DEF q
  <2>3. I * q = q * I /\ q * I \in Int
    BY <2>2
  <2>4. q * I <= x /\ x < q * I + I
    BY <2>1, <2>2, <2>3
  <2> QED
    BY <2>2, <2>3, <2>4 DEF x, q
<1> HIDE DEF n
<1>2. n \in Nat \ {0}
  <2>1. n * I > 0
    BY <1>1
  <2> QED
    BY <1>1, <2>1
<1>3. b(n) = N
  BY <1>1
<1>4. ASSUME NEW v \in 1 .. n, v < n PROVE v * I \in Nat \ {0} /\ v * I < total
  <2>1. n - 1 - v \in Nat
    BY <1>2, <1>4
  <2> DEFINE d == n - 1 - v
  <2>2. n = v + d + 1
    BY <1>2
  <2> HIDE DEF d
  <2>3. d * I \in Nat /\ v * I \in Nat \ {0} /\ d \in Nat
    BY <2>1 DEF d
  <2>4. (v + d + 1) * I = v * I + d * I + I
    BY <2>3
  <2> QED
    BY <1>1, <2>2, <2>3, <2>4
<1>5. ASSUME NEW v \in 1 .. n
      PROVE  /\ a(v) \in Nat \ {0} /\ b(v) \in Nat /\ a(v) <= b(v) + 1 /\ b(v) <= N
             /\ v < n => a(v + 1) = b(v) + 1
  <2>1. v < n => a(v + 1) = v * I /\ b(v) = v * I - 1
    <3> SUFFICES ASSUME v < n PROVE a(v + 1) = v * I /\ b(v) = v * I - 1
      OBVIOUS
    <3>1. v + 1 # 1 /\ (v + 1) - 1 = v
      OBVIOUS
    <3> QED
      BY <1>4, <3>1
  <2>2. v = n => b(v) = N
    BY <1>3
  <2>3. v = n \/ v < n
    BY <1>2
  <2>4. b(v) \in Nat /\ b(v) <= N
    BY <1>4, <2>1, <2>2, <2>3
  <2>5. a(v) \in Nat \ {0} /\ a(v) <= b(v) + 1
    <3>1. CASE v = 1
      BY <2>4, <3>1
    <3>2. CASE v # 1
      <4> DEFINE u == v - 1
      <4>1. u \in 1 .. n /\ u < n
        BY <1>2, <3>2
      <4>2. u * I \in Nat \ {0} /\ u * I < total
        BY <1>4, <4>1
      <4>3. a(v) = u * I
        BY <3>2
      <4>4. v = n => a(v) <= b(v) + 1
        BY <2>2, <4>2, <4>3
      <4>5. v < n => a(v) <= b(v) + 1
        <5>1. v = u + 1
          OBVIOUS
        <5> HIDE DEF u
        <5>2. v * I = u * I + I
          BY <4>1, <5>1
        <5> QED
          BY <2>1, <4>2, <4>3, <5>2
      <4> HIDE DEF a, b, u
      <4> QED
        BY <2>3, <4>2, <4>3, <4>4, <4>5
    <3> QED
      BY <3>1, <3>2
  <2>6. v < n => a(v + 1) = b(v) + 1
    BY <1>4, <2>1
  <2> HIDE DEF a, b
  <2> QED
    BY <2>4, <2>5, <2>6
<1> HIDE DEF a, b
<1> QED
  BY <1>2, <1>3, <1>5 DEF n, a, b

(* The writes of a range: the first brings the header, the last announces  *)
(* the range, and every sample of it is brought by one of them.            *)
LEMMA WritesAre ==
    ASSUME NEW r, r = [index |-> r.index, count |-> r.count], Batch(r)
    PROVE  LET ws == Writes(r)
               n == Len(ws)
           IN  /\ n \in Nat \ {0} /\ DOMAIN ws = 1 .. n
               /\ \A v \in 1 .. n : ws[v].header = (v = 1) /\ ws[v].imm = (v = n)
               /\ \A v \in 1 .. n : /\ ws[v].offset \in Nat
                                    /\ \A ring0 : InPlace(ring0, r.index, r.count, SourceLength) =>
                                          /\ DOMAIN Gather(ring0, ws[v].pieces) = 1 .. Extent(ws[v])
                                          /\ \A j \in 1 .. Extent(ws[v]) :
                                                Gather(ring0, ws[v].pieces)[j] = Sample(r, ws[v].offset + j)
               /\ \A p \in 1 .. Channels * r.count : \E v \in 1 .. n : p \in Takes(ws[v])
<1> DEFINE index == r.index
           count == r.count
           P == Pieces(index, count, SourceLength)
           N == Len(P)
           I == IovLimit
           total == N + 1
           n == (total + I - 1) \div I
           a(v) == IF v = 1 THEN 1 ELSE (v - 1) * I
           b(v) == (IF v * I < total THEN v * I ELSE total) - 1
           O(k) == Off(index, count, SourceLength, k)
           ws == Writes(r)
<1>1. IsRange(index, count, SourceLength)
  BY BatchIsRange
<1>2. N \in Nat \ {0} /\ O(1) = 0 /\ O(N + 1) = Channels * count /\ \A k \in 1 .. N + 1 : O(k) \in Nat
  BY <1>1, PiecesAre
<1>3. I \in Nat \ {0}
  BY SampleAssumption
<1>4. ws = [v \in 1 .. n |-> [header |-> v = 1,
                              offset |-> OffsetIn(P, a(v)),
                              pieces |-> SubSeq(P, a(v), b(v)),
                              imm    |-> v = n]]
  BY DEF Writes, SampleWrites
<1> HIDE DEF ws, N
<1>5. /\ n \in Nat \ {0} /\ b(n) = N
      /\ \A v \in 1 .. n : /\ a(v) \in Nat \ {0} /\ b(v) \in Nat /\ a(v) <= b(v) + 1 /\ b(v) <= N
                           /\ v < n => a(v + 1) = b(v) + 1
  BY <1>2, <1>3, Divided
<1>6. a(1) = 1
  OBVIOUS
<1> HIDE DEF n, a, b
<1>7. Len(ws) = n /\ DOMAIN ws = 1 .. n
  BY <1>4, <1>5
<1>8. \A v \in 1 .. n : /\ ws[v].header = (v = 1) /\ ws[v].imm = (v = n) /\ ws[v].offset = O(a(v))
                        /\ ws[v].pieces = SubSeq(P, a(v), b(v))
  BY <1>4 DEF Off
<1>9. ASSUME NEW v \in 1 .. n
      PROVE  /\ Extent(ws[v]) = O(b(v) + 1) - O(a(v)) /\ O(a(v)) \in Nat /\ O(b(v) + 1) \in Nat
             /\ \A ring0 : InPlace(ring0, r.index, r.count, SourceLength) =>
                   /\ DOMAIN Gather(ring0, ws[v].pieces) = 1 .. Extent(ws[v])
                   /\ \A j \in 1 .. Extent(ws[v]) :
                         Gather(ring0, ws[v].pieces)[j] = Sample(r, ws[v].offset + j)
  <2>1. a(v) \in 1 .. N + 1 /\ b(v) + 1 \in 1 .. N + 1
    BY <1>2, <1>5
  <2>2. O(a(v)) \in Nat /\ O(b(v) + 1) \in Nat
    BY <1>2, <2>1
  <2>3. ASSUME NEW ring0, InPlace(ring0, index, count, SourceLength)
        PROVE  /\ Extent(ws[v]) = O(b(v) + 1) - O(a(v))
               /\ DOMAIN Gather(ring0, ws[v].pieces) = 1 .. Extent(ws[v])
               /\ \A j \in 1 .. Extent(ws[v]) :
                     Gather(ring0, ws[v].pieces)[j] = Sample(r, ws[v].offset + j)
    <3>2. a(v) \in Nat /\ b(v) \in Nat /\ 1 <= a(v) /\ a(v) <= b(v) + 1 /\ b(v) <= Len(P)
      BY <1>5 DEF N
    <3> DEFINE A == a(v)
               B == b(v)
               Q == SubSeq(P, A, B)
               T == OffsetIn(Q, Len(Q) + 1)
    <3> HIDE DEF I, total, A, B, index, count
    <3>3. /\ T = O(B + 1) - O(A)
          /\ DOMAIN Gather(ring0, Q) = 1 .. T
          /\ \A j \in 1 .. T : Gather(ring0, Q)[j] = Sample([index |-> index, count |-> count], O(A) + j)
      <4>1. A \in Nat /\ B \in Nat /\ 1 <= A /\ A <= B + 1 /\ B <= Len(P)
        BY <3>2 DEF A, B
      <4> QED
        BY <1>1, <2>3, <4>1, Gathered
    <3>4. T = Extent(ws[v]) /\ ws[v].pieces = Q /\ ws[v].offset = O(a(v))
      BY <1>8 DEF Extent, A, B
    <3>5. r = [index |-> index, count |-> count]
      BY DEF index, count
    <3> HIDE DEF T, Q, O
    <3> QED
      BY <3>3, <3>4, <3>5 DEF A, B
  <2>4. \E ring0 : InPlace(ring0, index, count, SourceLength)
    <3> DEFINE g == [c \in 0 .. Channels - 1 |-> [o \in 0 .. SourceLength - 1 |->
                       <<c, CHOOSE i \in index - count .. index - 1 : i % SourceLength = o>>]]
    <3>1. SourceLength \in Nat \ {0} /\ count \in 1 .. SourceLength - 1 /\ index \in Nat /\ count <= index
      BY <1>1 DEF IsRange
    <3>2. ASSUME NEW c \in 0 .. Channels - 1, NEW i \in index - count .. index - 1
          PROVE  g[c][i % SourceLength] = <<c, i>>
      <4>1. i \in Nat
        BY <3>1
      <4>2. i % SourceLength \in 0 .. SourceLength - 1
        BY <3>1, <4>1, Remainder
      <4> DEFINE x == CHOOSE x \in index - count .. index - 1 : x % SourceLength = i % SourceLength
      <4>3. x \in index - count .. index - 1 /\ x % SourceLength = i % SourceLength
        OBVIOUS
      <4> HIDE DEF x
      <4>4. x \in Nat /\ x - i < SourceLength /\ i - x < SourceLength
        BY <3>1, <4>3
      <4>5. x = i
        BY <3>1, <4>1, <4>3, <4>4, SameSlot
      <4> QED
        BY <4>2, <4>5 DEF x
    <3> QED
      BY <3>2 DEF InPlace
  <2> QED
    BY <2>2, <2>3, <2>4
<1>10. ASSUME NEW p \in 1 .. Channels * count PROVE \E v \in 1 .. n : p \in Takes(ws[v])
  <2> DEFINE f == [v \in 1 .. n + 1 |-> IF v = n + 1 THEN O(N + 1) ELSE O(a(v))]
  <2>1. \A v \in 1 .. n : f[v] = O(a(v)) /\ f[v + 1] = O(b(v) + 1)
    <3> TAKE v \in 1 .. n
    <3>1. v \in 1 .. n + 1 /\ v + 1 \in 1 .. n + 1 /\ v # n + 1
      BY <1>5
    <3>2. CASE v = n
      BY <1>5, <3>1, <3>2
    <3>3. CASE v # n
      <4>1. v < n /\ v + 1 # n + 1
        BY <1>5, <3>3
      <4> QED
        BY <1>5, <3>1, <4>1
    <3> QED
      BY <3>2, <3>3
  <2>2. f[1] = 0 /\ f[n + 1] = Channels * count
    <3>1. 1 \in 1 .. n /\ n + 1 \in 1 .. n + 1
      BY <1>5
    <3> QED
      BY <1>2, <1>6, <2>1, <3>1
  <2>3. \A v \in 1 .. n + 1 : f[v] \in Int
    <3> TAKE v \in 1 .. n + 1
    <3>1. N + 1 \in 1 .. N + 1
      BY <1>2
    <3>2. v = n + 1 \/ v \in 1 .. n
      BY <1>5
    <3> QED
      BY <1>2, <1>9, <3>1, <3>2
  <2> HIDE DEF f
  <2>4. Channels * count \in Nat
    BY <1>1 DEF IsRange
  <2>5. p - 1 \in Int /\ f[1] <= p - 1 /\ p - 1 < f[n + 1]
    BY <2>2, <2>4
  <2>6. PICK v \in 1 .. n : f[v] <= p - 1 /\ p - 1 < f[v + 1]
    BY <1>5, <2>3, <2>5, Covering
  <2>7. p - ws[v].offset \in 1 .. Extent(ws[v])
    <3>1. /\ f[v] = O(a(v)) /\ f[v + 1] = O(b(v) + 1) /\ ws[v].offset = O(a(v))
          /\ Extent(ws[v]) = O(b(v) + 1) - O(a(v)) /\ O(a(v)) \in Nat /\ O(b(v) + 1) \in Nat
      BY <1>8, <1>9, <2>1
    <3> HIDE DEF O
    <3> QED
      BY <2>4, <2>6, <3>1
  <2>8. p \in Samples
    <3>1. Channels * count <= Channels * MaxBatch /\ Channels * MaxBatch \in Nat
      <4>1. Channels \in Nat /\ MaxBatch \in Nat /\ count \in 1 .. MaxBatch
        BY SampleAssumption DEF Batch
      <4> DEFINE d == MaxBatch - count
      <4>2. d \in Nat /\ MaxBatch = count + d
        BY <4>1
      <4> HIDE DEF d
      <4>3. Channels * (count + d) = Channels * count + Channels * d /\ Channels * d \in Nat
        BY <4>1, <4>2
      <4> QED
        BY <2>4, <4>1, <4>2, <4>3
    <3> QED
      BY <2>4, <3>1 DEF Samples
  <2> QED
    BY <2>7, <2>8 DEF Takes
<1> HIDE DEF O
<1>11. \A v \in 1 .. n : ws[v].offset \in Nat
  BY <1>8, <1>9
<1> QED
  BY <1>5, <1>7, <1>8, <1>9, <1>10, <1>11 DEF ws

-----------------------------------------------------------------------------
(* The rings.                                                              *)

(* What was produced less than a ring ago is in the ring of the source.    *)
LEMMA SourceHolds ==
    ASSUME TypeInv, NEW r, Batch(r), r.index <= produced.newest,
           produced.newest <= r.index - r.count + SourceLength
    PROVE  InPlace(SourceRing, r.index, r.count, SourceLength)
<1> DEFINE L == SourceLength
           N == produced.newest
<1>1. L \in Nat \ {0} /\ N \in Nat
  BY SampleAssumption DEF TypeInv, SourceTyped
<1>2. r.count \in Nat /\ r.index \in Nat /\ r.count <= r.index
  BY SampleAssumption DEF Batch
<1> SUFFICES ASSUME NEW c \in 0 .. Channels - 1, NEW i \in r.index - r.count .. r.index - 1
             PROVE  SourceRing[c][i % L] = <<c, i>>
  BY DEF InPlace
<1>3. SourceRing = [ch \in 0 .. Channels - 1 |-> [o \in 0 .. L - 1 |->
                      <<ch, N - 1 - ((N - 1 - o) % L)>>]]
  BY DEF SourceRing
<1>4. i \in Nat /\ i <= N - 1 /\ N - 1 - i <= L - 1
  BY <1>1, <1>2
<1> HIDE DEF L, N
<1>5. i % L \in 0 .. L - 1 /\ i \div L \in Int /\ i = L * (i \div L) + (i % L)
  BY <1>1, <1>4, Euclid, Remainder
<1> DEFINE q == i \div L
           o == i % L
<1> HIDE DEF q, o
<1>6. N - 1 - o = L * q + (N - 1 - i)
  <2>1. L * q \in Int /\ o \in Int /\ i = L * q + o
    BY <1>1, <1>5 DEF q, o
  <2> QED
    BY <1>1, <1>4, <2>1
<1>7. (N - 1 - o) % L = N - 1 - i
  <2>1. q \in Int /\ N - 1 - i \in 0 .. L - 1
    BY <1>1, <1>4, <1>5 DEF q
  <2> QED
    BY <1>1, <1>6, <2>1, RemainderIs
<1>8. SourceRing[c][o] = <<c, N - 1 - ((N - 1 - o) % L)>>
  <2>1. o \in 0 .. L - 1
    BY <1>5 DEF o
  <2> QED
    BY <1>3, <2>1
<1>9. N - 1 - (N - 1 - i) = i
  BY <1>1, <1>4
<1> QED
  BY <1>7, <1>8, <1>9 DEF o

(* A write of a range brings the samples it takes, and no others.          *)
LEMMA WrittenEntryIs ==
    ASSUME NEW r, r = [index |-> r.index, count |-> r.count], Batch(r),
           InPlace(SourceRing, r.index, r.count, SourceLength),
           NEW v \in DOMAIN Writes(r), NEW w, w.write = Writes(r)[v], NEW entry, NEW header
    PROVE  LET new == WrittenEntry(w, entry, header)
           IN  /\ DOMAIN new.samples = Samples
               /\ \A p \in Takes(Writes(r)[v]) : new.samples[p] = Sample(r, p)
               /\ \A p \in Samples : new.samples[p] = Sample(r, p) \/ new.samples[p] = entry.samples[p]
               /\ new.header = (IF v = 1 THEN header ELSE entry.header)
<1> DEFINE u == Writes(r)[v]
           data == Gather(SourceRing, u.pieces)
           new == WrittenEntry(w, entry, header)
<1>1. /\ u.header = (v = 1) /\ u.offset \in Nat /\ DOMAIN data = 1 .. Extent(u)
      /\ \A j \in 1 .. Extent(u) : data[j] = Sample(r, u.offset + j)
  <2> DEFINE ws == Writes(r)
  <2>1. /\ Len(ws) \in Nat \ {0} /\ DOMAIN ws = 1 .. Len(ws)
        /\ \A x \in 1 .. Len(ws) : ws[x].header = (x = 1) /\ ws[x].imm = (x = Len(ws))
        /\ \A x \in 1 .. Len(ws) : /\ ws[x].offset \in Nat
              /\ \A ring0 : InPlace(ring0, r.index, r.count, SourceLength) =>
                    /\ DOMAIN Gather(ring0, ws[x].pieces) = 1 .. Extent(ws[x])
                    /\ \A j \in 1 .. Extent(ws[x]) :
                          Gather(ring0, ws[x].pieces)[j] = Sample(r, ws[x].offset + j)
    BY WritesAre, Zenon
  <2>2. v \in 1 .. Len(ws)
    BY <2>1
  <2> HIDE DEF ws
  <2>3. /\ DOMAIN Gather(SourceRing, ws[v].pieces) = 1 .. Extent(ws[v])
        /\ \A j \in 1 .. Extent(ws[v]) :
              Gather(SourceRing, ws[v].pieces)[j] = Sample(r, ws[v].offset + j)
    BY <2>1, <2>2
  <2> QED
    BY <2>1, <2>2, <2>3 DEF ws
<1> HIDE DEF u, data
<1>2. new = [header  |-> IF u.header THEN header ELSE entry.header,
             samples |-> [k \in Samples |->
                            IF k - u.offset \in DOMAIN data THEN data[k - u.offset]
                            ELSE entry.samples[k]]]
  BY DEF WrittenEntry, u, data
<1> HIDE DEF new
<1>3. ASSUME NEW p \in Samples
      PROVE  /\ p - u.offset \in 1 .. Extent(u) => new.samples[p] = Sample(r, p)
             /\ p - u.offset \notin 1 .. Extent(u) => new.samples[p] = entry.samples[p]
  <2>1. p \in Int /\ u.offset + (p - u.offset) = p
    BY <1>1 DEF Samples
  <2>2. new.samples[p] = IF p - u.offset \in 1 .. Extent(u) THEN data[p - u.offset]
                         ELSE entry.samples[p]
    BY <1>1, <1>2
  <2>3. p - u.offset \in 1 .. Extent(u) => data[p - u.offset] = Sample(r, p)
    BY <1>1, <2>1
  <2> QED
    BY <2>2, <2>3
<1>4. DOMAIN new.samples = Samples /\ new.header = (IF v = 1 THEN header ELSE entry.header)
  BY <1>1, <1>2
<1> QED
  BY <1>3, <1>4 DEF Takes, u, new

\* The ring of a target has its channels and its length.
RingTyped(ring0) ==
    DOMAIN ring0 = 0 .. Channels - 1 /\ \A c \in 0 .. Channels - 1 : DOMAIN ring0[c] = 0 .. TargetLength - 1
(* A range that is complete in an entry goes to its places in the ring.    *)
LEMMA Unpacked ==
    ASSUME NEW r, Batch(r), NEW ring0, RingTyped(ring0), NEW samples, DOMAIN samples = Samples,
           \A p \in 1 .. Channels * r.count : samples[p] = Sample(r, p)
    PROVE  InPlace(Unpack(ring0, r, samples), r.index, r.count, TargetLength)
<1> DEFINE index == r.index
           count == r.count
           L == TargetLength
           P == Pieces(index, count, L)
           N == Len(P)
           O(k) == Off(index, count, L, k)
           new == Unpack(ring0, r, samples)
<1>1. IsRange(index, count, L)
  BY BatchIsRange
<1> HIDE DEF index, count, L
<1>2. /\ N \in Nat \ {0} /\ DOMAIN P = 1 .. N
      /\ \A k \in 1 .. N + 1 : O(k) \in Nat
      /\ O(1) = 0 /\ O(N + 1) = Channels * count
      /\ \A k \in 1 .. N :
            /\ O(k + 1) = O(k) + P[k].len /\ P[k].len \in Nat \ {0}
            /\ \E c \in 0 .. Channels - 1, d \in 0 .. count - 1 :
                  /\ P[k].channel = c /\ O(k) = c * count + d /\ d + P[k].len <= count
                  /\ P[k].start \in Nat /\ P[k].start + P[k].len <= L
                  /\ \A x \in 0 .. P[k].len - 1 :
                        (index - count + (d + x)) % L = P[k].start + x
  BY <1>1, PiecesAre
<1>3. /\ L \in Nat \ {0} /\ count \in 1 .. L - 1 /\ index \in Nat /\ count <= index
      /\ Channels \in Nat \ {0}
  BY <1>1 DEF IsRange
<1> SUFFICES ASSUME NEW ch \in 0 .. Channels - 1, NEW i \in index - count .. index - 1
             PROVE  new[ch][i % L] = <<ch, i>>
  BY DEF InPlace, index, count, L
<1> DEFINE o == i % L
           d == i - (index - count)
           hits == {k \in DOMAIN P : P[k].channel = ch /\ o \in P[k].start .. P[k].start + P[k].len - 1}
           At(k) == O(k) + o - P[k].start + 1
<1>4. i \in Nat /\ d \in 0 .. count - 1 /\ index - count + d = i
  BY <1>3
<1>5. o \in 0 .. L - 1
  BY <1>3, <1>4, Remainder
<1>6. new[ch][o] = IF hits = {} THEN ring0[ch][o]
                   ELSE LET k == CHOOSE k \in hits : TRUE
                            j == At(k)
                        IN  IF j \in DOMAIN samples THEN samples[j] ELSE Beyond
  BY <1>5 DEF Unpack, RingTyped, Off, index, count, L
<1> HIDE DEF d, o, P, N, O, new
<1>7. ASSUME NEW k \in hits PROVE At(k) = ch * count + d + 1
  <2>1. k \in 1 .. N /\ P[k].channel = ch /\ o \in P[k].start .. P[k].start + P[k].len - 1
    BY <1>2
  <2>2. PICK c \in 0 .. Channels - 1, e \in 0 .. count - 1 :
           /\ P[k].channel = c /\ O(k) = c * count + e /\ e + P[k].len <= count
           /\ P[k].start \in Nat
           /\ \A x \in 0 .. P[k].len - 1 : (index - count + (e + x)) % L = P[k].start + x
    BY <1>2, <2>1
  <2> DEFINE x == o - P[k].start
             n == P[k].len
  <2>3. x \in 0 .. n - 1 /\ n \in Nat /\ P[k].start + x = o
    <3>1. n \in Nat /\ P[k].start \in Nat /\ o \in P[k].start .. P[k].start + n - 1 /\ o \in Nat
      <4>1. P[k].len \in Nat /\ o \in Nat /\ P[k].start \in Nat
        BY <1>2, <1>3, <1>5, <2>1, <2>2
      <4> QED
        BY <2>1, <4>1
    <3> HIDE DEF n
    <3> QED
      BY <3>1
  <2>4. (index - count + (e + x)) % L = o
    BY <2>2, <2>3
  <2> HIDE DEF x, n
  <2>5. e + x \in 0 .. count - 1
    <3>1. e + n <= count
      BY <2>2 DEF n
    <3> QED
      BY <1>3, <2>3, <3>1
  <2>6. index - count + (e + x) = i
    <3> DEFINE y == index - count + (e + x)
    <3>1. y \in Nat /\ y - i < L /\ i - y < L
      BY <1>3, <1>4, <2>5
    <3>2. y % L = i % L
      BY <2>4 DEF o
    <3> HIDE DEF y
    <3>3. y = i
      BY <1>3, <1>4, <3>1, <3>2, SameSlot
    <3> QED
      BY <3>3 DEF y
  <2>7. e + x = d
    <3> DEFINE b == index - count
    <3>1. b \in Nat /\ b + d = i /\ b + (e + x) = i /\ d \in Int /\ e + x \in Int
      BY <1>3, <1>4, <2>5, <2>6
    <3> HIDE DEF b
    <3> QED
      BY <3>1
  <2>8. ch * count \in Nat /\ O(k) = ch * count + e
    BY <1>3, <2>1, <2>2
  <2>9. At(k) = O(k) + x + 1
    <3>1. O(k) \in Nat /\ o \in Nat /\ P[k].start \in Nat
      BY <1>5, <2>2, <2>8
    <3> QED
      BY <3>1 DEF x
  <2> QED
    BY <2>3, <2>7, <2>8, <2>9
<1>8. hits # {}
  <2> DEFINE p == ch * count + d
  <2>1. p \in Nat /\ p < Channels * count
    <3>1. ch * count \in Nat
      BY <1>3
    <3> DEFINE b == Channels - 1 - ch
    <3>2. b \in Nat /\ Channels = ch + b + 1
      BY <1>3
    <3> HIDE DEF b
    <3>3. (ch + b + 1) * count = ch * count + b * count + count /\ b * count \in Nat
      BY <1>3, <3>2
    <3> QED
      BY <1>3, <1>4, <3>1, <3>2, <3>3
  <2>2. p = ch * count + d
    OBVIOUS
  <2> HIDE DEF p
  <2>3. PICK q \in 1 .. N : O(q) <= p /\ p < O(q + 1)
    <3>1. \A k \in 1 .. N + 1 : O(k) \in Int
      BY <1>2
    <3>2. p \in Int /\ O(1) <= p /\ p < O(N + 1)
      BY <1>2, <2>1
    <3> DEFINE f == [k \in 1 .. N + 1 |-> O(k)]
    <3>3. \A k \in 1 .. N + 1 : f[k] = O(k)
      OBVIOUS
    <3>4. 1 \in 1 .. N + 1 /\ N + 1 \in 1 .. N + 1 /\ \A k \in 1 .. N : k \in 1 .. N + 1 /\ k + 1 \in 1 .. N + 1
      BY <1>2
    <3> HIDE DEF f
    <3>5. \A k \in 1 .. N + 1 : f[k] \in Int
      BY <3>1, <3>3
    <3>6. f[1] <= p /\ p < f[N + 1]
      BY <3>2, <3>3, <3>4
    <3>7. \E q \in 1 .. N : f[q] <= p /\ p < f[q + 1]
      BY <1>2, <3>2, <3>5, <3>6, Covering
    <3> QED
      BY <3>3, <3>4, <3>7
  <2>4. PICK c \in 0 .. Channels - 1, e \in 0 .. count - 1 :
           /\ P[q].channel = c /\ O(q) = c * count + e /\ e + P[q].len <= count
           /\ P[q].start \in Nat
           /\ \A x \in 0 .. P[q].len - 1 : (index - count + (e + x)) % L = P[q].start + x
    BY <1>2
  <2> DEFINE x == p - O(q)
             n == P[q].len
  <2>5. x \in 0 .. n - 1 /\ n \in Nat /\ O(q) \in Nat /\ p = O(q) + x
    <3>1. O(q + 1) = O(q) + n /\ n \in Nat
      BY <1>2
    <3>2. O(q) \in Nat
      <4>1. q \in 1 .. N + 1
        BY <1>2
      <4> QED
        BY <1>2, <4>1
    <3> HIDE DEF n
    <3> QED
      BY <2>1, <2>3, <3>1, <3>2
  <2>6. (index - count + (e + x)) % L = P[q].start + x
    BY <2>4, <2>5
  <2>7. P[q].start + n - 1 \in Int /\ P[q].start + x \in P[q].start .. P[q].start + n - 1
    BY <2>4, <2>5
  <2> HIDE DEF x
  <2>8. e + x \in 0 .. count - 1
    <3>1. e + n <= count
      BY <2>4
    <3> HIDE DEF n
    <3> QED
      BY <1>3, <2>5, <3>1
  <2>9. c = ch /\ e + x = d
    <3> DEFINE y == e + x
    <3>1. c * count = count * c /\ ch * count = count * ch /\ count * c \in Int /\ count * ch \in Int
      BY <1>3
    <3>2. count * c + y = count * ch + d
      <4>1. O(q) = count * c + e
        BY <2>4, <3>1
      <4> HIDE DEF n
      <4> QED
        BY <2>2, <2>5, <3>1, <4>1
    <3>3. y \in 0 .. count - 1 /\ count \in Nat \ {0} /\ c \in Int /\ ch \in Int
      BY <1>3, <2>8
    <3> HIDE DEF y
    <3>4. (count * c + y) % count = y /\ (count * c + y) \div count = c
      BY <3>3, RemainderIs
    <3>5. (count * ch + d) % count = d /\ (count * ch + d) \div count = ch
      BY <1>4, <3>3, RemainderIs
    <3> QED
      BY <3>2, <3>4, <3>5 DEF y
  <2>10. P[q].start + x = o
    BY <1>4, <2>6, <2>9 DEF o
  <2>11. q \in hits
    BY <1>2, <2>4, <2>7, <2>9, <2>10
  <2> QED
    BY <2>11
<1>9. new[ch][o] = samples[ch * count + d + 1]
  <2>1. PICK k \in hits : k = CHOOSE h \in hits : TRUE
    <3> HIDE DEF hits
    <3> QED
      BY <1>8
  <2>2. ch * count + d + 1 \in Samples
    <3>1. ch * count \in Nat /\ d \in 0 .. count - 1 /\ Channels * MaxBatch \in Nat
      BY <1>3, <1>4, SampleAssumption
    <3>2. ch * count + count <= Channels * MaxBatch
      <4>1. ch * count + count = (ch + 1) * count
        BY <1>3
      <4> DEFINE b == Channels - 1 - ch
                 e == MaxBatch - count
      <4>2. b \in Nat /\ Channels = (ch + 1) + b /\ e \in Nat /\ MaxBatch = count + e
        BY <1>3, SampleAssumption DEF Batch, count
      <4> HIDE DEF b, e
      <4>3. ((ch + 1) + b) * (count + e) = (ch + 1) * count + (ch + 1) * e + b * count + b * e
        BY <1>3, <4>2
      <4>4. (ch + 1) * e \in Nat /\ b * count \in Nat /\ b * e \in Nat /\ (ch + 1) * count \in Nat
        BY <1>3, <4>2
      <4> QED
        BY <4>1, <4>2, <4>3, <4>4
    <3> QED
      BY <1>3, <3>1, <3>2 DEF Samples
  <2>3. new[ch][o] = IF At(k) \in DOMAIN samples THEN samples[At(k)] ELSE Beyond
    <3> HIDE DEF hits, At
    <3> QED
      BY <1>6, <1>8, <2>1
  <2>4. At(k) = ch * count + d + 1
    BY <1>7
  <2> HIDE DEF At
  <2> QED
    BY <2>2, <2>3, <2>4
<1>10. ch * count + d + 1 \in 1 .. Channels * count
  <2>1. ch * count \in Nat /\ Channels * count \in Nat
    BY <1>3
  <2> DEFINE b == Channels - 1 - ch
  <2>2. b \in Nat /\ Channels = ch + b + 1
    BY <1>3
  <2> HIDE DEF b
  <2>3. (ch + b + 1) * count = ch * count + b * count + count /\ b * count \in Nat
    BY <1>3, <2>2
  <2> QED
    BY <1>3, <1>4, <2>1, <2>2, <2>3
<1>11. Sample(r, ch * count + d + 1) = <<ch, i>>
  <2>1. r.count \in Nat \ {0} /\ ch \in Nat /\ d \in 0 .. r.count - 1
    BY <1>3, <1>4 DEF count
  <2>2. Sample(r, ch * count + d + 1) = <<ch, r.index - r.count + d>>
    <3>1. ch * count + d + 1 = ch * r.count + d + 1
      BY DEF count
    <3> QED
      BY <2>1, <3>1, SampleIs
  <2> QED
    BY <1>4, <2>2 DEF index, count
<1>12. samples[ch * count + d + 1] = Sample(r, ch * count + d + 1)
  BY <1>10 DEF count
<1> QED
  BY <1>9, <1>11, <1>12 DEF o

LEMMA UnpackTyped ==
    ASSUME NEW ring0, RingTyped(ring0), NEW header, NEW samples
    PROVE  RingTyped(Unpack(ring0, header, samples))
  BY DEF RingTyped, Unpack

-----------------------------------------------------------------------------
(* What of a range has arrived.                                            *)

\* A write that is under way is write v of the range that w announces.
Brings(u, w, v) == u.slot = w.slot /\ u.imm = w.imm /\ u.write = Writes(w.imm)[v]

\* Write v of a range has reached the entry.
Landed(t, e, r, v) ==
    /\ v = 1 => mem[t][e].header = r
    /\ \A p \in Takes(Writes(r)[v]) : mem[t][e].samples[p] = Sample(r, p)

Roomy(t) == \A e \in 0 .. EntryCount - 1 : DOMAIN mem[t][e].samples = Samples

\* What is under way was posted for the target as it is known.
Current(t) == \A k \in DOMAIN wire[t] : st[t] # "Absent" /\ wire[t][k].token = token[t]

\* The source still has what is under way, all of it before the range that is
\* next, unless that was posted in part.
Supplied(t) ==
    \A k \in DOMAIN wire[t] :
       LET w == wire[t][k]
       IN  /\ w.imm.count \in 1 .. MaxBatch /\ w.imm.index = w.first + w.imm.count
           /\ w.imm.index <= produced.newest /\ produced.newest <= w.first + SourceLength
           /\ w.first <= at /\ (~jammed => w.first < at)

\* Before a write that announces a range lie the other writes of it, or they
\* have landed; the header they bring is the one of the range; and nothing
\* behind it goes to the entry.
Blocks(t) ==
    \A k \in DOMAIN wire[t] : wire[t][k].write.imm =>
       LET w == wire[t][k]
           n == Len(Writes(w.imm))
       IN  /\ w.slot = bounce[t].entry => w.first < at
           /\ \A l \in DOMAIN wire[t] : k < l => wire[t][l].slot # w.slot
           /\ \A v \in 1 .. n : IF k - n + v >= 1 THEN Brings(wire[t][k - n + v], w, v)
                                ELSE Landed(t, w.slot, w.imm, v)
           /\ k >= n => bounce[t].headers[w.slot] = w.imm

\* A range that is announced is complete, and nothing goes to its entry.
Queued(t) ==
    \A k \in DOMAIN notices[t] :
       LET r == notices[t][k].imm
           entry == mem[t][notices[t][k].slot]
       IN  /\ Batch(r) /\ entry.header = r
           /\ \A p \in 1 .. Channels * r.count : entry.samples[p] = Sample(r, p)
           /\ \A l \in DOMAIN wire[t] : wire[t][l].slot # notices[t][k].slot

\* What is so for one target.
Whereabouts(t) == Roomy(t) /\ Current(t) /\ Supplied(t) /\ Blocks(t) /\ Queued(t)

SampleInv ==
    (format = "samples" /\ ~lost) =>
       produced.newest <= at + SourceLength /\ \A t \in Targets : Whereabouts(t)

RingsTyped == DOMAIN ring = Targets /\ \A t \in Targets : RingTyped(ring[t])

LEMMA SampleTypes ==
    ASSUME TypeInv, format = "samples", NEW t \in Targets
    PROVE  /\ Len(wire[t]) \in Nat /\ DOMAIN wire[t] = 1 .. Len(wire[t])
           /\ \A k \in DOMAIN wire[t] :
                 /\ wire[t][k] \in SampleEntry
                 /\ wire[t][k].first \in Nat /\ wire[t][k].slot \in 0 .. EntryCount - 1
                 /\ wire[t][k].imm.index \in Nat /\ wire[t][k].imm.count \in Nat
                 /\ wire[t][k].imm = [index |-> wire[t][k].imm.index, count |-> wire[t][k].imm.count]
           /\ Len(notices[t]) \in Nat /\ DOMAIN notices[t] = 1 .. Len(notices[t])
           /\ \A k \in DOMAIN notices[t] : notices[t][k].slot \in 0 .. EntryCount - 1
           /\ bounce[t].entry \in 0 .. EntryCount - 1
           /\ DOMAIN bounce[t].headers = 0 .. EntryCount - 1
           /\ at \in Nat /\ produced.newest \in Nat
           /\ SourceLength \in Nat /\ MaxBatch \in Nat /\ EntryCount \in Nat
<1> USE Sizes
<1>1. wire[t] \in Seq(SampleEntry)
  BY DEF TypeInv, WireTyped, Entry
<1>2. /\ Len(wire[t]) \in Nat /\ DOMAIN wire[t] = 1 .. Len(wire[t])
      /\ \A k \in DOMAIN wire[t] : wire[t][k] \in SampleEntry
  BY <1>1
<1>3. \A e \in SampleEntry : /\ e.first \in Nat /\ e.slot \in 0 .. EntryCount - 1
                             /\ e.imm.index \in Nat /\ e.imm.count \in Nat
                             /\ e.imm = [index |-> e.imm.index, count |-> e.imm.count]
  BY DEF SampleEntry, SampleRange
<1> DEFINE N == [slot : 0 .. EntryCount - 1, imm : SampleRange, first : 0 .. MaxSample]
<1>4. notices[t] \in Seq(N)
  BY DEF TypeInv, WireTyped, Notice
<1>5. \A e \in N : e.slot \in 0 .. EntryCount - 1
  OBVIOUS
<1> HIDE DEF N
<1>6. /\ Len(notices[t]) \in Nat /\ DOMAIN notices[t] = 1 .. Len(notices[t])
      /\ \A k \in DOMAIN notices[t] : notices[t][k] \in N
  BY <1>4
<1>7. bounce[t].entry \in 0 .. EntryCount - 1 /\ DOMAIN bounce[t].headers = 0 .. EntryCount - 1
  BY DEF TypeInv, TargetsTyped
<1>8. at \in Nat /\ produced.newest \in Nat
  BY DEF TypeInv, SourceTyped
<1>9. SourceLength \in Nat
  BY SampleAssumption
<1> QED
  BY <1>2, <1>3, <1>5, <1>6, <1>7, <1>8, <1>9

(* Where nothing of a target changes but the source and the transfer go on. *)
LEMMA SameWhereabouts ==
    ASSUME TypeInv, format = "samples", NEW t \in Targets, Whereabouts(t),
           wire'[t] = wire[t], mem'[t] = mem[t], bounce'[t] = bounce[t], token'[t] = token[t],
           st[t] # "Absent" => st'[t] # "Absent",
           notices'[t] = notices[t], at' \in Nat, at <= at', jammed => jammed',
           produced'.newest \in Nat, produced.newest <= produced'.newest,
           \A k \in DOMAIN wire[t] : produced'.newest <= wire[t][k].first + SourceLength
    PROVE  Whereabouts(t)'
<1> USE DEF Whereabouts
<1>1. Roomy(t)'
  BY DEF Roomy
<1>2. Current(t)'
  BY DEF Current
<1>3. Supplied(t)'
  <2> SUFFICES ASSUME NEW k \in DOMAIN wire[t]
               PROVE  LET w == wire[t][k]
                      IN  /\ w.imm.count \in 1 .. MaxBatch /\ w.imm.index = w.first + w.imm.count
                          /\ w.imm.index <= produced'.newest
                          /\ produced'.newest <= w.first + SourceLength
                          /\ w.first <= at' /\ (~jammed' => w.first < at')
    BY DEF Supplied
  <2> DEFINE w == wire[t][k]
  <2>1. /\ w.imm.count \in 1 .. MaxBatch /\ w.imm.index = w.first + w.imm.count
        /\ w.imm.index <= produced.newest
        /\ w.first <= at /\ (~jammed => w.first < at)
    BY DEF Supplied
  <2>2. w.first \in Nat /\ w.imm.index \in Nat /\ at \in Nat /\ produced.newest \in Nat
    BY SampleTypes
  <2> HIDE DEF w
  <2>3. w.imm.index <= produced'.newest /\ w.first <= at' /\ (~jammed' => w.first < at')
    BY <2>1, <2>2
  <2> QED
    BY <2>1, <2>3 DEF w
<1>4. \A e, r, v : Landed(t, e, r, v)' <=> Landed(t, e, r, v)
  BY DEF Landed
<1>5. Blocks(t)'
  <2> SUFFICES ASSUME NEW k \in DOMAIN wire[t], wire[t][k].write.imm
               PROVE  LET w == wire[t][k]
                          n == Len(Writes(w.imm))
                      IN  /\ w.slot = bounce[t].entry => w.first < at'
                          /\ \A l \in DOMAIN wire[t] : k < l => wire[t][l].slot # w.slot
                          /\ \A v \in 1 .. n : IF k - n + v >= 1 THEN Brings(wire[t][k - n + v], w, v)
                                               ELSE Landed(t, w.slot, w.imm, v)'
                          /\ k >= n => bounce[t].headers[w.slot] = w.imm
    BY DEF Blocks
  <2> DEFINE w == wire[t][k]
             n == Len(Writes(w.imm))
  <2>1. /\ w.slot = bounce[t].entry => w.first < at
        /\ \A l \in DOMAIN wire[t] : k < l => wire[t][l].slot # w.slot
        /\ \A v \in 1 .. n : IF k - n + v >= 1 THEN Brings(wire[t][k - n + v], w, v)
                             ELSE Landed(t, w.slot, w.imm, v)
        /\ k >= n => bounce[t].headers[w.slot] = w.imm
    BY DEF Blocks
  <2>2. w.first \in Nat /\ at \in Nat
    BY SampleTypes
  <2> HIDE DEF w, n
  <2>3. w.slot = bounce[t].entry => w.first < at'
    BY <2>1, <2>2
  <2> QED
    BY <1>4, <2>1, <2>3 DEF w, n
<1>6. Queued(t)'
  BY DEF Queued
<1> QED
  BY <1>1, <1>2, <1>3, <1>5, <1>6

(* The source does not overtake what is under way.                         *)
LEMMA ProduceWhereabouts ==
    ASSUME TypeInv, format = "samples", produced.newest <= at + SourceLength,
           \A u \in Targets : Whereabouts(u), Produce
    PROVE  (produced.newest <= at + SourceLength)' /\ \A t \in Targets : Whereabouts(t)'
<1>1. /\ MoreSamples
      /\ UNCHANGED <<at, st, token, bounce, wire, mem, notices, jammed>>
  BY DEF Produce, CommitSlices, NextGrain
<1>2. /\ produced' = [produced EXCEPT !.newest = @ + 1]
      /\ \A first \in Needed : produced.newest < first + SourceLength
  BY <1>1 DEF MoreSamples
<1>3. produced'.newest = produced.newest + 1
  BY <1>2 DEF TypeInv, SourceTyped
<1>4. at \in Nat /\ produced.newest \in Nat /\ SourceLength \in Nat
  BY SampleAssumption DEF TypeInv, SourceTyped
<1>5. at \in Needed
  BY DEF Needed
<1>6. produced'.newest <= at + SourceLength
  BY <1>2, <1>3, <1>4, <1>5
<1>7. ASSUME NEW t \in Targets PROVE Whereabouts(t)'
  <2>1. ASSUME NEW k \in DOMAIN wire[t] PROVE produced'.newest <= wire[t][k].first + SourceLength
    <3>1. wire[t][k].first \in Needed
      BY DEF Needed
    <3>2. wire[t][k].first \in Nat
      BY SampleTypes
    <3> QED
      BY <1>2, <1>3, <1>4, <3>1, <3>2
  <2>2. at' = at /\ at' \in Nat /\ produced'.newest \in Nat /\ produced.newest <= produced'.newest
    BY <1>1, <1>3, <1>4
  <2>3. /\ wire'[t] = wire[t] /\ mem'[t] = mem[t] /\ bounce'[t] = bounce[t] /\ token'[t] = token[t]
        /\ st'[t] = st[t] /\ notices'[t] = notices[t] /\ jammed' = jammed
    BY <1>1
  <2> QED
    BY <1>4, <2>1, <2>2, <2>3, SameWhereabouts
<1> QED
  BY <1>1, <1>6, <1>7

(* Where neither the source nor the transfer goes on.                      *)
LEMMA StillWhereabouts ==
    ASSUME TypeInv, format = "samples", NEW t \in Targets, Whereabouts(t),
           wire'[t] = wire[t], mem'[t] = mem[t], bounce'[t] = bounce[t], token'[t] = token[t],
           st[t] # "Absent" => st'[t] # "Absent",
           notices'[t] = notices[t], UNCHANGED <<produced, at, jammed>>
    PROVE  Whereabouts(t)'
<1>1. at' \in Nat /\ at <= at' /\ produced'.newest \in Nat /\ produced.newest <= produced'.newest
  BY DEF TypeInv, SourceTyped
<1>2. \A k \in DOMAIN wire[t] : produced'.newest <= wire[t][k].first + SourceLength
  BY DEF Whereabouts, Supplied
<1> QED
  BY <1>1, <1>2, SameWhereabouts

(* A target that is not known has nothing under way: it is only forgotten  *)
(* when nothing is, unless the application removes it before that.         *)
LEMMA TargetsChangeWhereabouts ==
    ASSUME "samples" \notin BusyRemovals, CountInv, format = "samples", ~lost,
           NEW t \in Targets, Whereabouts(t),
           MakeProgress \/ \E u \in Targets : AddTarget(u) \/ RemoveTarget(u)
    PROVE  Whereabouts(t)'
<1>0. TypeInv
  BY DEF CountInv
<1>1. ASSUME DOMAIN wire[t] = {}, UNCHANGED <<wire, mem, notices>> PROVE Whereabouts(t)'
  <2>1. DOMAIN wire'[t] = {}
    BY <1>1
  <2>2. Roomy(t)'
    BY <1>1 DEF Whereabouts, Roomy
  <2>3. Current(t)' /\ Supplied(t)' /\ Blocks(t)'
    BY <2>1 DEF Current, Supplied, Blocks
  <2>4. Queued(t)'
    BY <1>1 DEF Whereabouts, Queued
  <2> QED
    BY <2>2, <2>3, <2>4 DEF Whereabouts
<1>2. CASE MakeProgress
  <2>1. /\ st'[t] = IF st[t] = "Idle" THEN "Activated" ELSE st[t]
        /\ UNCHANGED <<produced, at, token, bounce, wire, mem, notices, jammed>>
    BY <1>2 DEF MakeProgress
  <2> QED
    BY <1>0, <2>1, StillWhereabouts
<1>3. ASSUME NEW u \in Targets, AddTarget(u) PROVE Whereabouts(t)'
  <2>1. /\ st[u] = "Absent" /\ st' = [st EXCEPT ![u] = "Idle"]
        /\ token' = [token EXCEPT ![u] = tokens + 1] /\ bounce' = [bounce EXCEPT ![u] = Fresh]
        /\ UNCHANGED <<produced, at, wire, mem, notices, jammed>>
    BY <1>3 DEF AddTarget
  <2>2. CASE t = u
    <3>1. DOMAIN wire[t] = {}
      BY <2>1, <2>2 DEF Whereabouts, Current
    <3> QED
      BY <1>1, <2>1, <3>1
  <2>3. CASE t # u
    <3>1. st'[t] = st[t] /\ token'[t] = token[t] /\ bounce'[t] = bounce[t]
      BY <1>0, <2>1, <2>3 DEF TypeInv, TargetsTyped
    <3> QED
      BY <1>0, <2>1, <3>1, StillWhereabouts
  <2> QED
    BY <2>2, <2>3
<1>4. ASSUME NEW u \in Targets, RemoveTarget(u) PROVE Whereabouts(t)'
  <2>1. /\ st[u] # "Absent" /\ pending[u] = 0 /\ ~jammed /\ st' = [st EXCEPT ![u] = "Absent"]
        /\ UNCHANGED <<produced, at, token, bounce, wire, mem, notices, jammed>>
    BY <1>4 DEF RemoveTarget
  <2>2. CASE t = u
    <3>1. Own(t) = 0
      BY <2>1, <2>2 DEF CountInv, OwnCounted
    <3>2. Count(wire[t], token[t]) = 0
      <4>1. Count(wire[t], token[t]) \in Nat /\ Count(cq, token[t]) \in Nat
        BY <1>0, CountTypes
      <4> QED
        BY <3>1, <4>1 DEF Own
    <3>3. wire[t] \in Seq(Entry)
      BY <1>0 DEF TypeInv, WireTyped
    <3>4. Bearing(wire[t], token[t]) = {}
      <4>1. IsFiniteSet(Bearing(wire[t], token[t]))
        BY <3>3, CountIs
      <4> QED
        BY <3>2, <4>1, FS_EmptySet DEF Count
    <3>5. DOMAIN wire[t] = {}
      BY <3>4 DEF Bearing, Whereabouts, Current
    <3> QED
      BY <1>1, <2>1, <3>5
  <2>3. CASE t # u
    <3>1. st'[t] = st[t]
      BY <1>0, <2>1, <2>3 DEF TypeInv, TargetsTyped
    <3> QED
      BY <1>0, <2>1, <3>1, StillWhereabouts
  <2> QED
    BY <2>2, <2>3
<1> QED
  BY <1>2, <1>3, <1>4

(* What is read has been queued.                                           *)
LEMMA ReadWhereabouts ==
    ASSUME TypeInv, format = "samples", NEW t \in Targets, Whereabouts(t),
           NEW u \in Targets, ReadTarget(u) \/ CommitTarget(u)
    PROVE  Whereabouts(t)'
<1>1. CASE CommitTarget(u)
  <2>1. UNCHANGED <<produced, at, st, token, bounce, wire, mem, notices, jammed>>
    BY <1>1 DEF CommitTarget
  <2> QED
    BY <2>1, StillWhereabouts
<1>2. CASE ReadTarget(u)
  <2>1. /\ notices' = [notices EXCEPT ![u] = Tail(@)] /\ mem' = mem
        /\ Len(notices[u]) \in Nat \ {0} /\ DOMAIN notices[u] = 1 .. Len(notices[u])
        /\ DOMAIN Tail(notices[u]) = 1 .. Len(notices[u]) - 1
        /\ \A k \in 1 .. Len(notices[u]) - 1 : Tail(notices[u])[k] = notices[u][k + 1]
        /\ UNCHANGED <<produced, at, st, token, bounce, wire, jammed>>
    BY <1>2, ReadTargetIs
  <2>2. DOMAIN notices = Targets
    BY DEF TypeInv, WireTyped
  <2>3. CASE t # u
    <3>1. notices'[t] = notices[t]
      BY <2>1, <2>2, <2>3
    <3> QED
      BY <2>1, <3>1, StillWhereabouts
  <2>4. CASE t = u
    <3>1. \A k \in DOMAIN notices'[t] : k + 1 \in DOMAIN notices[t] /\ notices'[t][k] = notices[t][k + 1]
      BY <2>1, <2>2, <2>4
    <3>2. Queued(t)'
      <4> SUFFICES ASSUME NEW k \in DOMAIN notices'[t]
                   PROVE  LET r == notices'[t][k].imm
                              entry == mem[t][notices'[t][k].slot]
                          IN  /\ Batch(r) /\ entry.header = r
                              /\ \A p \in 1 .. Channels * r.count : entry.samples[p] = Sample(r, p)
                              /\ \A l \in DOMAIN wire[t] : wire[t][l].slot # notices'[t][k].slot
        BY <2>1 DEF Queued
      <4> QED
        BY <3>1 DEF Whereabouts, Queued
    <3>3. Roomy(t)' /\ Current(t)' /\ Supplied(t)'
      BY <2>1 DEF Whereabouts, Roomy, Current, Supplied
    <3>4. Blocks(t)'
      <4>1. \A e, r, v : Landed(t, e, r, v)' <=> Landed(t, e, r, v)
        BY <2>1 DEF Landed
      <4> QED
        BY <2>1, <4>1 DEF Whereabouts, Blocks
    <3> QED
      BY <3>2, <3>3, <3>4 DEF Whereabouts
  <2> QED
    BY <2>3, <2>4
<1> QED
  BY <1>1, <1>2

(* The range that is reported, and where its samples are then.             *)
LEMMA ReadIsInPlace ==
    ASSUME TypeInv, format = "samples", RingsTyped, NEW t \in Targets, Whereabouts(t), ReadTarget(t)
    PROVE  LET range == Head(notices[t]).imm
           IN  /\ reported'[t] = range.index
               /\ InPlace(ring'[t], range.index, range.count, TargetLength)
<1> DEFINE n == notices[t][1]
           entry == mem[t][n.slot]
           r == n.imm
<1>1. /\ 1 \in DOMAIN notices[t] /\ Head(notices[t]) = n
  <2>1. /\ Head(notices[t]) = n /\ Len(notices[t]) \in Nat \ {0}
        /\ DOMAIN notices[t] = 1 .. Len(notices[t])
    BY ReadTargetIs
  <2> QED
    BY <2>1
<1>2. /\ Batch(r) /\ entry.header = r
      /\ \A p \in 1 .. Channels * r.count : entry.samples[p] = Sample(r, p)
  BY <1>1 DEF Whereabouts, Queued
<1>3. DOMAIN entry.samples = Samples
  <2>1. n.slot \in 0 .. EntryCount - 1
    BY <1>1, SampleTypes
  <2> QED
    BY <2>1 DEF Whereabouts, Roomy
<1>4. /\ ring' = [ring EXCEPT ![t] = Unpack(@, entry.header, entry.samples)]
      /\ reported' = [reported EXCEPT ![t] = entry.header.index]
  <2>1. ReadSamples(t)
    BY DEF ReadTarget, ReadGrain
  <2>2. ~(entry.header.count > MaxBatch)
    BY <1>2, SampleAssumption DEF Batch
  <2> QED
    BY <1>1, <2>1, <2>2 DEF ReadSamples
<1> HIDE DEF n, entry, r
<1>5. ring'[t] = Unpack(ring[t], r, entry.samples) /\ RingTyped(ring[t])
  BY <1>2, <1>4 DEF RingsTyped
<1>6. InPlace(ring'[t], r.index, r.count, TargetLength)
  BY <1>2, <1>3, <1>5, Unpacked
<1>7. reported'[t] = r.index
  BY <1>2, <1>4 DEF TypeInv, MemoryTyped, ReadersTyped
<1> QED
  BY <1>1, <1>6, <1>7 DEF r

LEMMA StepRings ==
    ASSUME RingsTyped, [Next]_vars
    PROVE  RingsTyped'
<1>1. ASSUME NEW t \in Targets, ReadTarget(t) PROVE RingsTyped'
  <2>1. \/ ring' = ring
        \/ \E header, samples : ring' = [ring EXCEPT ![t] = Unpack(@, header, samples)]
    BY <1>1 DEF ReadTarget, ReadGrain, ReadSamples
  <2>2. CASE ring' = ring
    BY <2>2 DEF RingsTyped
  <2>3. CASE \E header, samples : ring' = [ring EXCEPT ![t] = Unpack(@, header, samples)]
    <3>1. PICK header, samples : ring' = [ring EXCEPT ![t] = Unpack(@, header, samples)]
      BY <2>3
    <3>2. RingTyped(Unpack(ring[t], header, samples))
      BY UnpackTyped DEF RingsTyped
    <3>3. \A u \in Targets : RingTyped(ring'[u])
      <4> TAKE u \in Targets
      <4>1. CASE u = t
        BY <3>1, <3>2, <4>1 DEF RingsTyped
      <4>2. CASE u # t
        BY <3>1, <4>2 DEF RingsTyped
      <4> QED
        BY <4>1, <4>2
    <3> QED
      BY <3>1, <3>3 DEF RingsTyped
  <2> QED
    BY <2>1, <2>2, <2>3
<1>2. ASSUME ring' = ring PROVE RingsTyped'
  BY <1>2 DEF RingsTyped
<1>3. CASE Produce
  BY <1>2, <1>3 DEF Produce
<1>4. CASE TransferGrain
  BY <1>2, <1>4 DEF TransferGrain
<1>5. CASE MakeProgress
  BY <1>2, <1>5 DEF MakeProgress
<1>6. ASSUME NEW count \in 1 .. MaxBatch, TransferSamples(count) PROVE RingsTyped'
  BY <1>2, <1>6 DEF TransferSamples
<1>7. ASSUME NEW u \in Targets, AddTarget(u) PROVE RingsTyped'
  BY <1>2, <1>7 DEF AddTarget
<1>8. ASSUME NEW u \in Targets, RemoveTarget(u) PROVE RingsTyped'
  BY <1>2, <1>8 DEF RemoveTarget
<1>9. ASSUME NEW u \in Targets, CommitTarget(u) PROVE RingsTyped'
  BY <1>2, <1>9 DEF CommitTarget
<1>10. ASSUME NEW u \in Targets, NEW ok \in BOOLEAN, Complete(u, ok) PROVE RingsTyped'
  BY <1>2, <1>10 DEF Complete
<1>11. CASE UNCHANGED vars
  BY <1>2, <1>11 DEF vars
<1> QED
  BY <1>1, <1>3, <1>4, <1>5, <1>6, <1>7, <1>8, <1>9, <1>10, <1>11 DEF Next

\* The oldest write to a target is carried out.
Carried(t) ==
    LET w == wire[t][1]
    IN  /\ Len(wire[t]) \in Nat \ {0} /\ w.slot \in 0 .. EntryCount - 1
        /\ DOMAIN wire'[t] = 1 .. Len(wire[t]) - 1
        /\ \A k \in 1 .. Len(wire[t]) - 1 : wire'[t][k] = wire[t][k + 1]
        /\ mem'[t][w.slot] = WrittenEntry(w, mem[t][w.slot], bounce[t].headers[w.slot])
        /\ \A e \in 0 .. EntryCount - 1 : e # w.slot => mem'[t][e] = mem[t][e]
        /\ notices'[t] = IF w.write.imm
                         THEN Append(notices[t], [slot |-> w.slot, imm |-> w.imm, first |-> w.first])
                         ELSE notices[t]

LEMMA CompleteCarries ==
    ASSUME TypeInv, format = "samples", NEW t \in Targets, Whereabouts(t), Complete(t, TRUE)
    PROVE  Carried(t)
<1> DEFINE w == wire[t][1]
<1>1. /\ wire' = [wire EXCEPT ![t] = Tail(@)]
      /\ Len(wire[t]) \in Nat \ {0} /\ DOMAIN wire[t] = 1 .. Len(wire[t])
      /\ DOMAIN Tail(wire[t]) = 1 .. Len(wire[t]) - 1
      /\ \A k \in 1 .. Len(wire[t]) - 1 : Tail(wire[t])[k] = wire[t][k + 1]
      /\ \E header \in HeaderRead(t, w) : mem' = [mem EXCEPT ![t][w.slot] = WrittenEntry(w, @, header)]
      /\ w.write.imm =>
            notices' = [notices EXCEPT ![t] = Append(@, [slot |-> w.slot, imm |-> w.imm, first |-> w.first])]
      /\ ~w.write.imm => notices' = notices
  BY CompleteIs
<1>2. 1 \in DOMAIN wire[t]
  BY <1>1
<1>3. HeaderRead(t, w) = {bounce[t].headers[w.slot]}
  BY <1>2 DEF Whereabouts, Current, HeaderRead
<1>4. w.slot \in 0 .. EntryCount - 1
  BY <1>2, SampleTypes
<1> HIDE DEF w
<1>5. mem' = [mem EXCEPT ![t][w.slot] = WrittenEntry(w, @, bounce[t].headers[w.slot])]
  BY <1>1, <1>3
<1>6. mem = [u \in Targets |-> [e \in 0 .. EntryCount - 1 |-> mem[u][e]]]
  BY DEF TypeInv, MemoryTyped, EntriesTyped
<1>7. /\ mem'[t][w.slot] = WrittenEntry(w, mem[t][w.slot], bounce[t].headers[w.slot])
      /\ \A e \in 0 .. EntryCount - 1 : e # w.slot => mem'[t][e] = mem[t][e]
  BY <1>4, <1>5, <1>6
<1>8. /\ wire'[t] = Tail(wire[t])
      /\ notices'[t] = IF w.write.imm
                       THEN Append(notices[t], [slot |-> w.slot, imm |-> w.imm, first |-> w.first])
                       ELSE notices[t]
  BY <1>1 DEF TypeInv, WireTyped
<1> QED
  BY <1>1, <1>4, <1>7, <1>8 DEF Carried, w

(* The range of a write under way can still be read from the source.       *)
LEMMA SuppliedIs ==
    ASSUME TypeInv, format = "samples", NEW t \in Targets, Whereabouts(t), NEW k \in DOMAIN wire[t]
    PROVE  LET r == wire[t][k].imm
           IN  /\ r = [index |-> r.index, count |-> r.count] /\ Batch(r)
               /\ InPlace(SourceRing, r.index, r.count, SourceLength)
<1> DEFINE w == wire[t][k]
           r == w.imm
<1>1. /\ w.first \in Nat /\ r.index \in Nat /\ r.count \in Nat
      /\ r = [index |-> r.index, count |-> r.count]
  BY SampleTypes
<1>2. /\ r.count \in 1 .. MaxBatch /\ r.index = w.first + r.count
      /\ r.index <= produced.newest /\ produced.newest <= w.first + SourceLength
  BY DEF Whereabouts, Supplied
<1> HIDE DEF r, w
<1>3. Batch(r)
  BY <1>1, <1>2 DEF Batch
<1>4. r.index - r.count = w.first
  BY <1>1, <1>2
<1>5. InPlace(SourceRing, r.index, r.count, SourceLength)
  BY <1>2, <1>3, <1>4, SourceHolds
<1> QED
  BY <1>1, <1>3, <1>5 DEF r, w

(* The writes of a range land in order, and what has landed of it stays.   *)
LEMMA BlockLands ==
    ASSUME TypeInv, format = "samples", NEW t \in Targets, Whereabouts(t), Carried(t),
           NEW K \in DOMAIN wire[t], wire[t][K].write.imm,
           NEW slot, slot = wire[t][K].slot, NEW r, r = wire[t][K].imm,
           NEW v \in 1 .. Len(Writes(r)), K - Len(Writes(r)) + v <= 1
    PROVE  Landed(t, slot, r, v)'
<1> DEFINE w == wire[t][1]
           b == wire[t][K]
           n == Len(Writes(r))
           u == 1 - K + n
           old == mem[t][w.slot]
           header == bounce[t].headers[w.slot]
           new == WrittenEntry(w, old, header)
<1>1. /\ r = [index |-> r.index, count |-> r.count] /\ Batch(r)
      /\ InPlace(SourceRing, r.index, r.count, SourceLength)
  BY SuppliedIs
<1>2. DOMAIN wire[t] = 1 .. Len(wire[t]) /\ Len(wire[t]) \in Nat
  BY SampleTypes
<1>3. n \in Nat \ {0} /\ DOMAIN Writes(r) = 1 .. n
  BY <1>1, WritesAre, Zenon
<1>4. /\ \A x \in 1 .. n : IF K - n + x >= 1 THEN Brings(wire[t][K - n + x], b, x)
                           ELSE Landed(t, slot, r, x)
      /\ K >= n => bounce[t].headers[slot] = r
  BY DEF Whereabouts, Blocks
<1>5. v \in 1 .. n /\ K - n + v <= 1
  OBVIOUS
<1> HIDE DEF w, b, n
<1>6. K \in Nat \ {0} /\ u \in 1 .. n /\ K - n + u = 1 /\ v <= u
  <2>1. K \in Nat \ {0}
    BY <1>2
  <2> QED
    BY <1>3, <1>5, <2>1
<1>7. Brings(w, b, u)
  BY <1>4, <1>6 DEF w
<1>8. w.slot = slot /\ w.write = Writes(r)[u]
  BY <1>7 DEF Brings, b
<1> HIDE DEF u, header, old
<1>9. /\ \A p \in Takes(Writes(r)[u]) : new.samples[p] = Sample(r, p)
      /\ \A p \in Samples : new.samples[p] = Sample(r, p) \/ new.samples[p] = old.samples[p]
      /\ new.header = (IF u = 1 THEN header ELSE old.header)
  <2>1. u \in DOMAIN Writes(r)
    BY <1>3, <1>6
  <2> QED
    BY <1>1, <1>8, <2>1, WrittenEntryIs
<1>10. mem'[t][slot] = new
  BY <1>8 DEF Carried, w, old, header
<1> HIDE DEF new
<1>11. ASSUME v # u PROVE Landed(t, slot, r, v)
  <2>1. ~(K - n + v >= 1)
    BY <1>3, <1>5, <1>6, <1>11 DEF u
  <2> QED
    BY <1>4, <1>5, <2>1
<1>12. ASSUME v = 1 PROVE new.header = r
  <2>1. CASE u = 1
    <3>1. K >= n
      BY <1>2, <1>3, <2>1 DEF u
    <3> QED
      BY <1>4, <1>8, <1>9, <2>1, <3>1 DEF header
  <2>2. CASE u # 1
    BY <1>8, <1>9, <1>11, <1>12, <2>2 DEF Landed, old
  <2> QED
    BY <2>1, <2>2
<1>13. ASSUME NEW p \in Takes(Writes(r)[v]) PROVE new.samples[p] = Sample(r, p)
  <2>1. CASE v = u
    BY <1>9, <2>1
  <2>2. CASE v # u
    <3>1. p \in Samples
      BY DEF Takes
    <3>2. old.samples[p] = Sample(r, p)
      BY <1>8, <1>11, <2>2 DEF Landed, old
    <3> QED
      BY <1>9, <3>1, <3>2
  <2> QED
    BY <2>1, <2>2
<1> QED
  BY <1>10, <1>12, <1>13 DEF Landed

(* What is under way moves up, and a range that is announced is complete.  *)
LEMMA CompleteWhereabouts ==
    ASSUME TypeInv, format = "samples", NEW t \in Targets, Whereabouts(t),
           NEW u \in Targets, Complete(u, TRUE), Whereabouts(u)
    PROVE  Whereabouts(t)'
<1>1. /\ wire' = [wire EXCEPT ![u] = Tail(@)]
      /\ \/ notices' = notices
         \/ \E n : notices' = [notices EXCEPT ![u] = Append(@, n)]
      /\ \E x, e : mem' = [mem EXCEPT ![u][x] = e]
      /\ UNCHANGED <<produced, at, st, token, bounce, jammed>>
  <2> DEFINE w == wire[u][1]
  <2>1. /\ wire' = [wire EXCEPT ![u] = Tail(@)]
        /\ w.write.imm =>
              notices' = [notices EXCEPT ![u] = Append(@, [slot |-> w.slot, imm |-> w.imm, first |-> w.first])]
        /\ ~w.write.imm => notices' = notices
        /\ \E header \in HeaderRead(u, w) : mem' = [mem EXCEPT ![u][w.slot] = WrittenEntry(w, @, header)]
        /\ UNCHANGED <<produced, at, st, token, bounce, jammed>>
    BY CompleteIs
  <2> HIDE DEF w
  <2>2. \/ notices' = notices
        \/ \E n : notices' = [notices EXCEPT ![u] = Append(@, n)]
    BY <2>1
  <2>3. \E x, e : mem' = [mem EXCEPT ![u][x] = e]
    BY <2>1
  <2> QED
    BY <2>1, <2>2, <2>3
<1>2. CASE t # u
  <2>1. wire'[t] = wire[t] /\ notices'[t] = notices[t]
    BY <1>1, <1>2 DEF TypeInv, WireTyped
  <2>2. mem'[t] = mem[t]
    BY <1>1, <1>2 DEF TypeInv, MemoryTyped, EntriesTyped
  <2> QED
    BY <1>1, <2>1, <2>2, StillWhereabouts
<1>3. CASE t = u
  <2> DEFINE w == wire[t][1]
             L == Len(wire[t])
             new == WrittenEntry(w, mem[t][w.slot], bounce[t].headers[w.slot])
  <2>1. Carried(t)
    BY <1>3, CompleteCarries
  <2>2. /\ L \in Nat \ {0} /\ DOMAIN wire[t] = 1 .. L /\ w.slot \in 0 .. EntryCount - 1
        /\ DOMAIN wire'[t] = 1 .. L - 1
        /\ \A k \in 1 .. L - 1 : wire'[t][k] = wire[t][k + 1]
        /\ mem'[t][w.slot] = new
        /\ \A e \in 0 .. EntryCount - 1 : e # w.slot => mem'[t][e] = mem[t][e]
        /\ notices'[t] = IF w.write.imm
                         THEN Append(notices[t], [slot |-> w.slot, imm |-> w.imm, first |-> w.first])
                         ELSE notices[t]
    BY <2>1, SampleTypes DEF Carried
  <2>3. 1 \in DOMAIN wire[t] /\ \A k \in DOMAIN wire'[t] : k + 1 \in DOMAIN wire[t] /\ wire'[t][k] = wire[t][k + 1]
    BY <2>2
  <2>4. /\ st'[t] = st[t] /\ token'[t] = token[t] /\ bounce'[t] = bounce[t]
        /\ UNCHANGED <<produced, at, jammed>>
    BY <1>1
  <2>5. Roomy(t)'
    <3>1. DOMAIN new.samples = Samples
      BY DEF WrittenEntry
    <3> HIDE DEF new, w
    <3>2. \A e \in 0 .. EntryCount - 1 : DOMAIN mem'[t][e].samples = Samples
      BY <2>2, <3>1 DEF Whereabouts, Roomy
    <3> QED
      BY <3>2 DEF Roomy
  <2>6. Current(t)'
    BY <2>3, <2>4 DEF Whereabouts, Current
  <2>7. Supplied(t)'
    BY <2>3, <2>4 DEF Whereabouts, Supplied
  <2>8. Blocks(t)'
    <3> SUFFICES ASSUME NEW k \in DOMAIN wire'[t], wire'[t][k].write.imm,
                        NEW r, r = wire'[t][k].imm, NEW slot, slot = wire'[t][k].slot
                 PROVE  /\ slot = bounce'[t].entry => wire'[t][k].first < at'
                        /\ \A l \in DOMAIN wire'[t] : k < l => wire'[t][l].slot # slot
                        /\ \A v \in 1 .. Len(Writes(r)) :
                              IF k - Len(Writes(r)) + v >= 1
                              THEN Brings(wire'[t][k - Len(Writes(r)) + v], wire'[t][k], v)
                              ELSE Landed(t, slot, r, v)'
                        /\ k >= Len(Writes(r)) => bounce'[t].headers[slot] = r
      BY DEF Blocks
    <3> DEFINE K == k + 1
               b == wire[t][K]
               n == Len(Writes(r))
    <3>1. K \in DOMAIN wire[t] /\ wire'[t][k] = b /\ b.write.imm /\ r = b.imm /\ slot = b.slot
      BY <2>3
    <3>2. /\ b.slot = bounce[t].entry => b.first < at
          /\ \A l \in DOMAIN wire[t] : K < l => wire[t][l].slot # b.slot
          /\ \A v \in 1 .. n : IF K - n + v >= 1 THEN Brings(wire[t][K - n + v], b, v)
                               ELSE Landed(t, slot, r, v)
          /\ K >= n => bounce[t].headers[slot] = r
      BY <3>1 DEF Whereabouts, Blocks
    <3>3. k \in 1 .. L - 1 /\ K = k + 1
      BY <2>2
    <3>4. n \in Nat \ {0}
      <4>1. r = [index |-> r.index, count |-> r.count] /\ Batch(r)
        BY <3>1, SuppliedIs
      <4> QED
        BY <4>1, WritesAre, Zenon
    <3> HIDE DEF n, K, b
    <3>5. \A l \in DOMAIN wire'[t] : k < l => wire'[t][l].slot # slot
      <4> SUFFICES ASSUME NEW l \in DOMAIN wire'[t], k < l PROVE wire'[t][l].slot # slot
        OBVIOUS
      <4>1. l \in 1 .. L - 1
        BY <2>2
      <4>2. K < l + 1 /\ l + 1 \in DOMAIN wire[t] /\ wire'[t][l] = wire[t][l + 1]
        BY <2>2, <2>3, <3>3, <4>1
      <4> QED
        BY <3>1, <3>2, <4>2
    <3>6. k >= n => bounce'[t].headers[slot] = r
      BY <2>2, <2>4, <3>2, <3>3, <3>4
    <3>7. ASSUME NEW v \in 1 .. n, k - n + v >= 1 PROVE Brings(wire'[t][k - n + v], wire'[t][k], v)
      <4>1. /\ k - n + v \in 1 .. L - 1 /\ (k - n + v) + 1 = K - n + v /\ K - n + v >= 1
        <5>1. L \in Nat
          BY <2>2
        <5> HIDE DEF L
        <5> QED
          BY <3>3, <3>4, <3>7, <5>1
      <4>2. wire'[t][k - n + v] = wire[t][K - n + v]
        BY <2>2, <4>1
      <4>3. Brings(wire[t][K - n + v], b, v)
        BY <3>2, <4>1
      <4> QED
        BY <3>1, <4>2, <4>3
    <3>8. ASSUME NEW v \in 1 .. n, ~(k - n + v >= 1) PROVE Landed(t, slot, r, v)'
      <4>1. K - n + v <= 1
        BY <2>2, <3>3, <3>4, <3>8
      <4>2. v \in 1 .. Len(Writes(r)) /\ K - Len(Writes(r)) + v <= 1
        BY <4>1 DEF n
      <4>3. wire[t][K].write.imm /\ slot = wire[t][K].slot /\ r = wire[t][K].imm
        BY <3>1 DEF b
      <4> QED
        BY <2>1, <3>1, <4>2, <4>3, BlockLands
    <3>9. slot = bounce'[t].entry => wire'[t][k].first < at'
      BY <2>4, <3>1, <3>2
    <3> QED
      BY <3>5, <3>6, <3>7, <3>8, <3>9 DEF n
  <2>9. Queued(t)'
    <3> SUFFICES ASSUME NEW k \in DOMAIN notices'[t],
                        NEW r, r = notices'[t][k].imm, NEW slot, slot = notices'[t][k].slot
                 PROVE  /\ Batch(r) /\ mem'[t][slot].header = r
                        /\ \A p \in 1 .. Channels * r.count : mem'[t][slot].samples[p] = Sample(r, p)
                        /\ \A l \in DOMAIN wire'[t] : wire'[t][l].slot # slot
      BY DEF Queued
    <3>1. CASE k \in DOMAIN notices[t] /\ notices'[t][k] = notices[t][k]
      <4>1. /\ Batch(r) /\ mem[t][slot].header = r
            /\ \A p \in 1 .. Channels * r.count : mem[t][slot].samples[p] = Sample(r, p)
            /\ \A l \in DOMAIN wire[t] : wire[t][l].slot # slot
        BY <3>1 DEF Whereabouts, Queued
      <4>2. slot \in 0 .. EntryCount - 1 /\ slot # w.slot
        BY <2>3, <3>1, <4>1, SampleTypes
      <4>3. mem'[t][slot] = mem[t][slot]
        BY <2>2, <4>2
      <4>4. \A l \in DOMAIN wire'[t] : wire'[t][l].slot # slot
        BY <2>3, <4>1
      <4> QED
        BY <4>1, <4>3, <4>4
    <3>2. CASE w.write.imm /\ notices'[t][k] = [slot |-> w.slot, imm |-> w.imm, first |-> w.first]
      <4>1. r = wire[t][1].imm /\ slot = wire[t][1].slot /\ wire[t][1].write.imm
        BY <3>2
      <4>2. r = [index |-> r.index, count |-> r.count] /\ Batch(r)
        BY <2>3, <4>1, SuppliedIs
      <4> DEFINE ws == Writes(r)
                 n == Len(ws)
      <4>3. n \in Nat \ {0} /\ \A p \in 1 .. Channels * r.count : \E v \in 1 .. n : p \in Takes(ws[v])
        BY <4>2, WritesAre, Zenon
      <4>4. \A v \in 1 .. n : Landed(t, slot, r, v)'
        <5> TAKE v \in 1 .. n
        <5>1. n \in Nat \ {0} /\ n = Len(Writes(r))
          BY <4>3
        <5>2. v \in 1 .. Len(Writes(r))
          OBVIOUS
        <5> HIDE DEF n
        <5>3. 1 - n + v <= 1
          BY <5>1
        <5>4. 1 - Len(Writes(r)) + v <= 1
          BY <5>1, <5>3
        <5> QED
          BY <2>1, <2>3, <4>1, <5>2, <5>4, BlockLands
      <4> HIDE DEF n
      <4>5. mem'[t][slot].header = r
        <5>1. 1 \in 1 .. n
          BY <4>3
        <5> QED
          BY <4>4, <5>1 DEF Landed
      <4>6. \A p \in 1 .. Channels * r.count : mem'[t][slot].samples[p] = Sample(r, p)
        BY <4>3, <4>4 DEF Landed
      <4>7. \A l \in DOMAIN wire'[t] : wire'[t][l].slot # slot
        <5> TAKE l \in DOMAIN wire'[t]
        <5>1. l \in 1 .. L - 1
          BY <2>2
        <5>2. l + 1 \in DOMAIN wire[t] /\ 1 < l + 1 /\ wire'[t][l] = wire[t][l + 1]
          BY <2>2, <2>3, <5>1
        <5>3. \A x \in DOMAIN wire[t] : 1 < x => wire[t][x].slot # wire[t][1].slot
          BY <2>3, <4>1 DEF Whereabouts, Blocks
        <5> QED
          BY <4>1, <5>2, <5>3
      <4> QED
        BY <4>2, <4>5, <4>6, <4>7
    <3>3. \/ k \in DOMAIN notices[t] /\ notices'[t][k] = notices[t][k]
          \/ w.write.imm /\ notices'[t][k] = [slot |-> w.slot, imm |-> w.imm, first |-> w.first]
      <4> DEFINE m == [slot |-> w.slot, imm |-> w.imm, first |-> w.first]
                 s == notices[t]
      <4>1. s \in Seq(Notice \cup {m}) /\ m \in Notice \cup {m}
        BY DEF TypeInv, WireTyped
      <4> HIDE DEF m, w, s
      <4>2. /\ Len(s) \in Nat /\ DOMAIN s = 1 .. Len(s) /\ DOMAIN Append(s, m) = 1 .. Len(s) + 1
            /\ \A x \in 1 .. Len(s) : Append(s, m)[x] = s[x]
            /\ Append(s, m)[Len(s) + 1] = m
        BY <4>1, Appended
      <4>3. notices'[t] = IF w.write.imm THEN Append(s, m) ELSE s
        BY <2>2 DEF m, s
      <4>4. CASE w.write.imm
        <5>1. k \in 1 .. Len(s) \/ k = Len(s) + 1
          BY <4>2, <4>3, <4>4
        <5> QED
          BY <4>2, <4>3, <4>4, <5>1 DEF m, s
      <4>5. CASE ~w.write.imm
        BY <4>3, <4>5 DEF s
      <4> QED
        BY <4>4, <4>5
    <3> QED
      BY <3>1, <3>2, <3>3
  <2> QED
    BY <2>5, <2>6, <2>7, <2>8, <2>9 DEF Whereabouts
<1> QED
  BY <1>2, <1>3

\* What a transfer of c samples has done to the writes for t and to its entries,
\* m of the writes of the range being posted.
SentSamples(t, c, m) ==
    LET ws == SampleWrites(at + c, c)
        range == [index |-> at + c, count |-> c]
        entry == bounce[t].entry
    IN  /\ m \in 0 .. Len(ws) /\ (m > 0 => t \in Active)
        /\ DOMAIN wire'[t] = 1 .. Len(wire[t]) + m
        /\ \A k \in 1 .. Len(wire[t]) : wire'[t][k] = wire[t][k]
        /\ \A k \in 1 .. m :
              wire'[t][Len(wire[t]) + k] =
                 [token |-> token[t], first |-> at, write |-> ws[k], slot |-> entry, imm |-> range]
        /\ bounce'[t].entry = (IF m = Len(ws) THEN (entry + 1) % EntryCount ELSE entry)
        /\ \A e \in 0 .. EntryCount - 1 : e # entry => bounce'[t].headers[e] = bounce[t].headers[e]
        /\ m > 0 => bounce'[t].headers[entry] = range
        /\ t \notin Active => bounce'[t] = bounce[t]

LEMMA TransferSendsSamples ==
    ASSUME TypeInv, NEW c \in 1 .. MaxBatch, TransferSamples(c), NEW t \in Targets
    PROVE  /\ \E m : SentSamples(t, c, m)
           /\ format = "samples" /\ at + c <= produced.newest /\ (t \in Active => EntryFree(t))
           /\ \/ at' = at /\ ~jammed /\ jammed'
              \/ at' = at + c /\ (jammed' <=> jammed)
           /\ UNCHANGED <<format, produced, st, token, mem, notices, lost>>
<1> DEFINE ws == SampleWrites(at + c, c)
           each == Len(ws)
           all == each * Cardinality(Active)
           P == [u \in Targets |-> SamplePosts(u, c)]
           range == [index |-> at + c, count |-> c]
           entry == bounce[t].entry
<1>1. /\ format = "samples" /\ \A u \in Active : EntryFree(u)
      /\ at + c <= produced.newest
      /\ UNCHANGED <<format, produced, st, token, mem, notices, lost>>
  BY TransferSamplesIs
<1>2. PICK n \in 0 .. all :
         /\ jammed => n = all
         /\ wire' = [u \in Targets |-> wire[u] \o SubSeq(P[u], 1, Share(u, each, n))]
         /\ bounce' = [u \in Targets |->
              [entry   |-> IF u \in Active /\ Share(u, each, n) = each
                           THEN (bounce[u].entry + 1) % EntryCount ELSE bounce[u].entry,
               headers |-> IF u \in Active /\ n >= each * Cardinality(Before(u))
                           THEN [bounce[u].headers EXCEPT ![bounce[u].entry] = range]
                           ELSE bounce[u].headers]]
         /\ at' = (IF n = all THEN at + c ELSE at)
         /\ jammed' = (jammed \/ n < all)
  BY TransferSamplesIs
<1>3. at \in Nat /\ c \in Nat \ {0} /\ jammed \in BOOLEAN
  BY Sizes DEF TypeInv, SourceTyped, MemoryTyped, ReadersTyped
<1>4. Batch(range) /\ range = [index |-> range.index, count |-> range.count] /\ Writes(range) = ws
  BY <1>3 DEF Batch, Writes
<1>5. each \in Nat \ {0}
  <2> DEFINE vs == Writes(range)
  <2>1. Len(vs) \in Nat \ {0}
    BY <1>4, WritesAre, Zenon
  <2> QED
    BY <1>4, <2>1
<1>6. Cardinality(Active) \in Nat
  BY Shares
<1>7. all \in Nat
  <2> HIDE DEF each
  <2> QED
    BY <1>5, <1>6
<1>8. n \in Nat /\ (n = all \/ n < all) /\ ~(n = all /\ n < all)
  BY <1>7
<1>9. Posted(P, each, n)
  BY <1>2, <1>8, TransferSamplesPosts
<1>10. P[t] = SamplePosts(t, c)
  OBVIOUS
<1> HIDE DEF P
<1> DEFINE m == Share(t, each, n)
<1>11. m \in 0 .. each /\ (t \notin Active => m = 0)
  BY <1>5, <1>8, Shares
<1>12. DOMAIN ws = 1 .. each
  <2>1. at + c \in 0 .. MaxSample
    BY <1>1, <1>3, Sizes DEF TypeInv, SourceTyped, MaxIndex
  <2> QED
    BY <2>1, SampleWritesAre
<1> HIDE DEF each, all
<1>13. /\ DOMAIN wire'[t] = 1 .. Len(wire[t]) + m
       /\ \A k \in 1 .. Len(wire[t]) : wire'[t][k] = wire[t][k]
       /\ \A k \in 1 .. m : wire'[t][Len(wire[t]) + k] = P[t][k]
  BY <1>9, Posting
<1>14. m > 0 => n >= each * Cardinality(Before(t))
  <2> DEFINE b == each * Cardinality(Before(t))
  <2>1. m = (IF t \notin Active \/ n - b <= 0 THEN 0 ELSE IF n - b >= each THEN each ELSE n - b)
    BY DEF Share
  <2>2. b \in Int
    <3>1. Before(t) \in SUBSET Targets
      BY DEF Before, Active
    <3>2. Cardinality(Before(t)) \in Nat
      BY <3>1, Sizes, FS_Subset, FS_CardinalityType
    <3> QED
      BY <1>5, <3>2
  <2> HIDE DEF b, m
  <2>3. m > 0 => ~(n - b <= 0)
    BY <2>1
  <2>4. m > 0 => n >= b
    BY <1>8, <2>2, <2>3
  <2> QED
    BY <2>4 DEF b
<1>15. /\ bounce'[t].entry = (IF t \in Active /\ m = each THEN (entry + 1) % EntryCount ELSE entry)
       /\ bounce'[t].headers = (IF t \in Active /\ n >= each * Cardinality(Before(t))
                                THEN [bounce[t].headers EXCEPT ![entry] = range]
                                ELSE bounce[t].headers)
  BY <1>2
<1>16. t \notin Active => bounce'[t] = bounce[t]
  <2> SUFFICES ASSUME t \notin Active PROVE bounce'[t] = bounce[t]
    OBVIOUS
  <2>1. bounce'[t] = [entry |-> bounce[t].entry, headers |-> bounce[t].headers]
    BY <1>2
  <2>2. bounce[t] \in [entry : 0 .. EntryCount - 1, headers : [0 .. EntryCount - 1 -> SampleRange]]
    BY DEF TypeInv, TargetsTyped
  <2> QED
    BY <2>1, <2>2
<1> HIDE DEF m
<1>17. m > 0 => t \in Active
  BY <1>11
<1>18. /\ entry \in 0 .. EntryCount - 1 /\ DOMAIN bounce[t].headers = 0 .. EntryCount - 1
  BY <1>1, SampleTypes
<1> HIDE DEF range, entry
<1>19. /\ \A e \in 0 .. EntryCount - 1 : e # entry => bounce'[t].headers[e] = bounce[t].headers[e]
       /\ m > 0 => bounce'[t].headers[entry] = range
  BY <1>14, <1>15, <1>17, <1>18
<1>20. bounce'[t].entry = (IF m = each THEN (entry + 1) % EntryCount ELSE entry)
  <2>1. m = each => t \in Active
    BY <1>5, <1>17
  <2> QED
    BY <1>15, <2>1
<1>21. ASSUME NEW k \in 1 .. m
       PROVE  wire'[t][Len(wire[t]) + k] =
                 [token |-> token[t], first |-> at, write |-> ws[k], slot |-> entry, imm |-> range]
  <2>1. k \in 1 .. each
    BY <1>5, <1>11
  <2>2. P[t][k] = [token |-> token[t], first |-> at, write |-> ws[k], slot |-> entry, imm |-> range]
    BY <1>10, <1>12, <2>1 DEF SamplePosts, entry, range
  <2> QED
    BY <1>13, <2>2
<1> HIDE DEF ws
<1>22. SentSamples(t, c, m)
  BY <1>11, <1>13, <1>16, <1>17, <1>19, <1>20, <1>21 DEF SentSamples, ws, each, range, entry
<1>23. \/ at' = at /\ ~jammed /\ jammed'
       \/ at' = at + c /\ (jammed' <=> jammed)
  BY <1>2, <1>3, <1>8
<1> QED
  BY <1>1, <1>22, <1>23

(* There are two entries at least, so that the next is another one.        *)
LEMMA NextEntry ==
    ASSUME NEW e \in 0 .. EntryCount - 1 PROVE (e + 1) % EntryCount # e
<1>1. EntryCount >= 2
  <2> DEFINE m == MaxBatch
             a == TargetLength + MaxBatch - 1
  <2>1. m \in Nat \ {0} /\ a \in Nat /\ m > 0 /\ a >= m + m
    BY SampleAssumption
  <2> HIDE DEF a, m
  <2> DEFINE q == a \div m
  <2>2. q \in Int /\ a % m \in 0 .. m - 1 /\ a = m * q + (a % m)
    BY <2>1, Euclid, Remainder
  <2> HIDE DEF q
  <2>3. m * q > m
    <3>1. m * q \in Int
      BY <2>1, <2>2
    <3> QED
      BY <2>1, <2>2, <3>1
  <2>4. q >= 2
    BY <2>1, <2>2, <2>3
  <2> QED
    BY <2>4 DEF EntryCount, a, m, q
<1>2. EntryCount \in Nat \ {0}
  BY Sizes
<1>3. CASE e + 1 < EntryCount
  BY <1>2, <1>3, SmallRemainder
<1>4. CASE e + 1 = EntryCount
  <2>1. EntryCount = EntryCount * 1 + 0 /\ 0 \in 0 .. EntryCount - 1
    BY <1>2
  <2>2. EntryCount % EntryCount = 0
    BY <1>2, <2>1, RemainderIs
  <2> QED
    BY <1>1, <1>2, <1>4, <2>2
<1> QED
  BY <1>2, <1>3, <1>4

(* A range is posted behind what is under way, to an entry nothing else    *)
(* goes to any more.                                                       *)
LEMMA TransferWhereabouts ==
    ASSUME TypeInv, produced.newest <= at + SourceLength, NEW t \in Targets, Whereabouts(t),
           NEW c \in 1 .. MaxBatch, TransferSamples(c)
    PROVE  Whereabouts(t)' /\ (produced.newest <= at + SourceLength)'
<1> DEFINE range == [index |-> at + c, count |-> c]
           ws == Writes(range)
           N == Len(ws)
           e == bounce[t].entry
           L == Len(wire[t])
           Posts(j) == [token |-> token[t], first |-> at, write |-> ws[j], slot |-> e, imm |-> range]
<1>1. /\ format = "samples" /\ at + c <= produced.newest /\ (t \in Active => EntryFree(t))
      /\ \/ at' = at /\ ~jammed /\ jammed'
         \/ at' = at + c /\ (jammed' <=> jammed)
      /\ UNCHANGED <<produced, st, token, mem, notices>>
  BY TransferSendsSamples
<1>2. at \in Nat /\ c \in Nat \ {0} /\ produced.newest \in Nat /\ SourceLength \in Nat
  BY SampleAssumption DEF TypeInv, SourceTyped
<1>3. at' \in Nat /\ at <= at' /\ produced'.newest <= at' + SourceLength
  BY <1>1, <1>2
<1>4. PICK m : SentSamples(t, c, m)
  BY TransferSendsSamples
<1>5. /\ m \in 0 .. N /\ (m > 0 => t \in Active)
      /\ DOMAIN wire'[t] = 1 .. L + m
      /\ \A k \in 1 .. L : wire'[t][k] = wire[t][k]
      /\ \A k \in 1 .. m : wire'[t][L + k] = Posts(k)
      /\ bounce'[t].entry = (IF m = N THEN (e + 1) % EntryCount ELSE e)
      /\ \A x \in 0 .. EntryCount - 1 : x # e => bounce'[t].headers[x] = bounce[t].headers[x]
      /\ m > 0 => bounce'[t].headers[e] = range
      /\ t \notin Active => bounce'[t] = bounce[t]
  BY <1>4 DEF SentSamples, Writes
<1>6. N \in Nat \ {0} /\ \A v \in 1 .. N : ws[v].imm = (v = N)
  <2>1. Batch(range) /\ range = [index |-> range.index, count |-> range.count]
    BY <1>2 DEF Batch
  <2> HIDE DEF range
  <2>2. /\ N \in Nat \ {0} /\ DOMAIN ws = 1 .. N
        /\ \A v \in 1 .. N : ws[v].header = (v = 1) /\ ws[v].imm = (v = N)
    BY <2>1, WritesAre, Zenon
  <2> QED
    BY <2>2
<1>7. /\ L \in Nat /\ DOMAIN wire[t] = 1 .. L /\ e \in 0 .. EntryCount - 1
      /\ \A k \in DOMAIN wire[t] : /\ wire[t][k].first \in Nat /\ wire[t][k].slot \in 0 .. EntryCount - 1
  BY <1>1, SampleTypes
<1> HIDE DEF range, ws, N, e, L, Posts
<1>8. \A j : /\ Posts(j).token = token[t] /\ Posts(j).first = at /\ Posts(j).write = ws[j]
             /\ Posts(j).slot = e /\ Posts(j).imm = range
  BY DEF Posts
<1>9. \A k \in DOMAIN wire'[t] :
         \/ k \in DOMAIN wire[t] /\ wire'[t][k] = wire[t][k]
         \/ \E j \in 1 .. m : k = L + j /\ wire'[t][k] = Posts(j)
  <2> TAKE k \in DOMAIN wire'[t]
  <2>1. k \in 1 .. L \/ (k - L \in 1 .. m /\ k = L + (k - L))
    BY <1>5, <1>6, <1>7
  <2> QED
    BY <1>5, <1>7, <2>1
<1>10. ASSUME NEW j \in 1 .. m
       PROVE  t \in Active /\ EntryFree(t) /\ j \in 1 .. N
  BY <1>1, <1>5, <1>6
<1>11. ASSUME NEW k \in DOMAIN wire[t]
       PROVE  wire[t][k].first < at' /\ (~jammed' => ~jammed) /\ wire[t][k].first <= at
  <2>1. wire[t][k].first <= at /\ (~jammed => wire[t][k].first < at) /\ wire[t][k].first \in Nat
    BY <1>7 DEF Whereabouts, Supplied
  <2> QED
    BY <1>1, <1>2, <2>1
<1>12. ASSUME t \in Active, NEW k \in DOMAIN wire[t], wire[t][k].write.imm PROVE wire[t][k].slot # e
  <2>1. wire[t][k].slot = e => wire[t][k].first < at
    BY <1>12 DEF Whereabouts, Blocks, e
  <2>2. wire[t][k].slot # e \/ wire[t][k].first >= at
    BY <1>1, <1>12 DEF EntryFree, e
  <2> QED
    BY <1>2, <1>7, <2>1, <2>2
<1>13. Roomy(t)'
  BY <1>1 DEF Whereabouts, Roomy
<1>14. Current(t)'
  <2> SUFFICES ASSUME NEW k \in DOMAIN wire'[t] PROVE st[t] # "Absent" /\ wire'[t][k].token = token[t]
    BY <1>1 DEF Current
  <2>1. CASE k \in DOMAIN wire[t] /\ wire'[t][k] = wire[t][k]
    BY <2>1 DEF Whereabouts, Current
  <2>2. CASE \E j \in 1 .. m : k = L + j /\ wire'[t][k] = Posts(j)
    BY <1>8, <1>10, <2>2 DEF Active
  <2> QED
    BY <1>9, <2>1, <2>2
<1>15. Supplied(t)'
  <2> SUFFICES ASSUME NEW k \in DOMAIN wire'[t], NEW w, w = wire'[t][k]
               PROVE  /\ w.imm.count \in 1 .. MaxBatch /\ w.imm.index = w.first + w.imm.count
                      /\ w.imm.index <= produced.newest /\ produced.newest <= w.first + SourceLength
                      /\ w.first <= at' /\ (~jammed' => w.first < at')
    BY <1>1 DEF Supplied
  <2>1. CASE k \in DOMAIN wire[t] /\ wire'[t][k] = wire[t][k]
    <3>1. /\ w.imm.count \in 1 .. MaxBatch /\ w.imm.index = w.first + w.imm.count
          /\ w.imm.index <= produced.newest /\ produced.newest <= w.first + SourceLength
      BY <2>1 DEF Whereabouts, Supplied
    <3>2. w.first < at' /\ w.first \in Nat
      BY <1>7, <1>11, <2>1
    <3> QED
      BY <1>3, <3>1, <3>2
  <2>2. CASE \E j \in 1 .. m : k = L + j /\ wire'[t][k] = Posts(j)
    <3>1. w.first = at /\ w.imm = range
      BY <1>8, <2>2
    <3>2. w.imm.count = c /\ w.imm.index = at + c
      BY <3>1 DEF range
    <3> QED
      BY <1>1, <1>2, <1>3, <3>1, <3>2
  <2> QED
    BY <1>9, <2>1, <2>2
<1>16. Blocks(t)'
  <2> SUFFICES ASSUME NEW k \in DOMAIN wire'[t], wire'[t][k].write.imm,
                      NEW r, r = wire'[t][k].imm, NEW slot, slot = wire'[t][k].slot
               PROVE  /\ slot = bounce'[t].entry => wire'[t][k].first < at'
                      /\ \A l \in DOMAIN wire'[t] : k < l => wire'[t][l].slot # slot
                      /\ \A v \in 1 .. Len(Writes(r)) :
                            IF k - Len(Writes(r)) + v >= 1
                            THEN Brings(wire'[t][k - Len(Writes(r)) + v], wire'[t][k], v)
                            ELSE Landed(t, slot, r, v)'
                      /\ k >= Len(Writes(r)) => bounce'[t].headers[slot] = r
    BY DEF Blocks
  <2> SUFFICES ASSUME NEW w, w = wire'[t][k], w.slot = slot, w.imm = r, w.write.imm,
                      NEW n, n = Len(Writes(r))
               PROVE  /\ slot = bounce'[t].entry => w.first < at'
                      /\ \A l \in DOMAIN wire'[t] : k < l => wire'[t][l].slot # slot
                      /\ \A v \in 1 .. n : IF k - n + v >= 1 THEN Brings(wire'[t][k - n + v], w, v)
                                           ELSE Landed(t, slot, r, v)'
                      /\ k >= n => bounce'[t].headers[slot] = r
    OBVIOUS
  <2>1. \A x, q, v : Landed(t, x, q, v)' <=> Landed(t, x, q, v)
    BY <1>1 DEF Landed
  <2>2. CASE k \in DOMAIN wire[t] /\ wire'[t][k] = wire[t][k]
    <3>0. /\ k \in DOMAIN wire[t] /\ w = wire[t][k] /\ wire[t][k].write.imm
          /\ slot = wire[t][k].slot /\ r = wire[t][k].imm /\ n = Len(Writes(wire[t][k].imm))
      BY <2>2
    <3>1. /\ \A l \in DOMAIN wire[t] : k < l => wire[t][l].slot # slot
          /\ \A v \in 1 .. n : IF k - n + v >= 1 THEN Brings(wire[t][k - n + v], w, v)
                               ELSE Landed(t, slot, r, v)
          /\ k >= n => bounce[t].headers[slot] = r
      <4>1. Blocks(t)
        BY DEF Whereabouts
      <4>2. /\ \A l \in DOMAIN wire[t] : k < l => wire[t][l].slot # wire[t][k].slot
            /\ \A v \in 1 .. Len(Writes(wire[t][k].imm)) :
                  IF k - Len(Writes(wire[t][k].imm)) + v >= 1
                  THEN Brings(wire[t][k - Len(Writes(wire[t][k].imm)) + v], wire[t][k], v)
                  ELSE Landed(t, wire[t][k].slot, wire[t][k].imm, v)
            /\ k >= Len(Writes(wire[t][k].imm)) => bounce[t].headers[wire[t][k].slot] = wire[t][k].imm
        BY <3>0, <4>1 DEF Blocks
      <4> QED
        BY <3>0, <4>2, Zenon
    <3>2. w.first < at' /\ slot \in 0 .. EntryCount - 1
      BY <1>7, <1>11, <2>2
    <3>3. t \in Active => slot # e
      BY <1>12, <2>2
    <3>4. \A l \in DOMAIN wire'[t] : k < l => wire'[t][l].slot # slot
      <4> SUFFICES ASSUME NEW l \in DOMAIN wire'[t], k < l PROVE wire'[t][l].slot # slot
        OBVIOUS
      <4>1. CASE l \in DOMAIN wire[t] /\ wire'[t][l] = wire[t][l]
        BY <3>1, <4>1
      <4>2. CASE \E j \in 1 .. m : l = L + j /\ wire'[t][l] = Posts(j)
        BY <1>8, <1>10, <3>3, <4>2
      <4> QED
        BY <1>9, <4>1, <4>2
    <3>5. k >= n => bounce'[t].headers[slot] = r
      BY <1>5, <3>1, <3>2, <3>3
    <3>6. \A v \in 1 .. n : IF k - n + v >= 1 THEN Brings(wire'[t][k - n + v], w, v)
                            ELSE Landed(t, slot, r, v)'
      <4>1. n \in Nat
        <5>1. r = [index |-> r.index, count |-> r.count] /\ Batch(r)
          BY <1>1, <2>2, SuppliedIs
        <5>2. Len(Writes(r)) \in Nat \ {0}
          BY <5>1, WritesAre, Zenon
        <5> QED
          BY <5>2
      <4> TAKE v \in 1 .. n
      <4>2. CASE k - n + v >= 1
        <5>1. k - n + v \in 1 .. L
          BY <1>7, <2>2, <4>1, <4>2
        <5> QED
          BY <1>5, <3>1, <4>2, <5>1
      <4>3. CASE ~(k - n + v >= 1)
        BY <2>1, <3>1, <4>3
      <4> QED
        BY <4>2, <4>3
    <3> QED
      BY <3>2, <3>4, <3>5, <3>6
  <2>3. ASSUME NEW j \in 1 .. m, k = L + j, wire'[t][k] = Posts(j)
        PROVE  /\ slot = bounce'[t].entry => w.first < at'
               /\ \A l \in DOMAIN wire'[t] : k < l => wire'[t][l].slot # slot
               /\ \A v \in 1 .. n : IF k - n + v >= 1 THEN Brings(wire'[t][k - n + v], w, v)
                                    ELSE Landed(t, slot, r, v)'
               /\ k >= n => bounce'[t].headers[slot] = r
    <3>1. slot = e /\ r = range /\ w.write = ws[j] /\ n = N
      BY <1>8, <2>3 DEF ws, N
    <3>2. j = N /\ m = N /\ k = L + N
      <4>1. j \in 1 .. N
        BY <1>10
      <4>2. j = N
        BY <1>6, <3>1, <4>1
      <4> QED
        BY <1>5, <1>6, <2>3, <4>2
    <3>3. slot # bounce'[t].entry
      BY <1>5, <1>7, <3>1, <3>2, NextEntry
    <3>4. \A l \in DOMAIN wire'[t] : ~(k < l)
      BY <1>5, <1>6, <1>7, <3>2
    <3>5. \A v \in 1 .. n : k - n + v >= 1 /\ Brings(wire'[t][k - n + v], w, v)
      <4> TAKE v \in 1 .. n
      <4>0. n = N /\ m = N /\ k = L + N /\ N \in Nat /\ L \in Nat /\ v \in 1 .. N
        BY <1>6, <1>7, <3>1, <3>2
      <4>1. k - n + v = L + v /\ L + v >= 1 /\ v \in 1 .. m
        BY <4>0
      <4>2. wire'[t][L + v] = Posts(v)
        BY <1>5, <4>1
      <4> QED
        BY <1>8, <3>1, <4>1, <4>2 DEF Brings, ws
    <3>6. bounce'[t].headers[slot] = r
      <4>1. m > 0
        BY <1>6, <3>2
      <4> QED
        BY <1>5, <3>1, <4>1
    <3> QED
      BY <3>3, <3>4, <3>5, <3>6
  <2> QED
    BY <1>9, <2>2, <2>3
<1>17. Queued(t)'
  <2> SUFFICES ASSUME NEW k \in DOMAIN notices[t], NEW l \in DOMAIN wire'[t]
               PROVE  wire'[t][l].slot # notices[t][k].slot
    BY <1>1 DEF Whereabouts, Queued
  <2>1. CASE l \in DOMAIN wire[t] /\ wire'[t][l] = wire[t][l]
    BY <2>1 DEF Whereabouts, Queued
  <2>2. CASE \E j \in 1 .. m : l = L + j /\ wire'[t][l] = Posts(j)
    BY <1>8, <1>10, <2>2 DEF EntryFree, e
  <2> QED
    BY <1>9, <2>1, <2>2
<1> QED
  BY <1>1, <1>3, <1>13, <1>14, <1>15, <1>16, <1>17 DEF Whereabouts

-----------------------------------------------------------------------------
(* The invariant.                                                          *)

LEMMA InitSamples == Init => SampleInv /\ RingsTyped
<1>1. ASSUME Init, format = "samples", NEW t \in Targets PROVE Whereabouts(t)
  <2>1. /\ wire[t] = <<>> /\ notices[t] = <<>>
        /\ mem[t] = [e \in 0 .. EntryCount - 1 |-> EmptyEntry]
    BY <1>1 DEF Init
  <2>2. DOMAIN wire[t] = {} /\ DOMAIN notices[t] = {}
    BY <2>1
  <2>3. Roomy(t)
    BY <2>1 DEF Roomy, EmptyEntry
  <2>4. Current(t) /\ Supplied(t) /\ Blocks(t) /\ Queued(t)
    BY <2>2 DEF Current, Supplied, Blocks, Queued
  <2> QED
    BY <2>3, <2>4 DEF Whereabouts
<1>2. ASSUME Init, format = "samples" PROVE produced.newest <= at + SourceLength
  BY <1>2, SampleAssumption DEF Init
<1>3. Init => RingsTyped
  BY DEF Init, RingsTyped, RingTyped
<1> QED
  BY <1>1, <1>2, <1>3 DEF SampleInv

LEMMA StepSamples ==
    ASSUME "samples" \notin BusyRemovals, CountInv, SampleInv, [Next]_vars
    PROVE  SampleInv'
<1> SUFFICES ASSUME format' = "samples", ~lost'
             PROVE  (produced.newest <= at + SourceLength)' /\ \A t \in Targets : Whereabouts(t)'
  BY DEF SampleInv
<1>1. format' = format /\ (lost => lost')
  BY FormatStays
<1>2. /\ TypeInv /\ format = "samples" /\ ~lost
      /\ produced.newest <= at + SourceLength /\ \A t \in Targets : Whereabouts(t)
  BY <1>1 DEF SampleInv, CountInv
<1>3. CASE Produce
  BY <1>2, <1>3, ProduceWhereabouts
<1>4. CASE TransferGrain
  BY <1>2, <1>4 DEF TransferGrain
<1>5. ASSUME NEW count \in 1 .. MaxBatch, TransferSamples(count), NEW t \in Targets
      PROVE  (produced.newest <= at + SourceLength)' /\ Whereabouts(t)'
  BY <1>2, <1>5, TransferWhereabouts
<1>6. ASSUME UNCHANGED <<produced, at>> PROVE (produced.newest <= at + SourceLength)'
  BY <1>2, <1>6
<1>7. CASE MakeProgress
  BY <1>2, <1>6, <1>7, TargetsChangeWhereabouts DEF MakeProgress
<1>8. ASSUME NEW u \in Targets, AddTarget(u) \/ RemoveTarget(u), NEW t \in Targets
      PROVE  UNCHANGED <<produced, at>> /\ Whereabouts(t)'
  BY <1>2, <1>8, TargetsChangeWhereabouts DEF AddTarget, RemoveTarget
<1>9. ASSUME NEW u \in Targets, ReadTarget(u) \/ CommitTarget(u), NEW t \in Targets
      PROVE  UNCHANGED <<produced, at>> /\ Whereabouts(t)'
  BY <1>2, <1>9, ReadWhereabouts DEF ReadTarget, CommitTarget
<1>10. ASSUME NEW u \in Targets, NEW ok \in BOOLEAN, Complete(u, ok), NEW t \in Targets
       PROVE  UNCHANGED <<produced, at>> /\ Whereabouts(t)'
  <2>1. ok = TRUE /\ UNCHANGED <<produced, at>>
    BY <1>10 DEF Complete
  <2> QED
    BY <1>2, <1>10, <2>1, CompleteWhereabouts
<1>11. CASE UNCHANGED vars
  <2>1. ASSUME NEW t \in Targets PROVE Whereabouts(t)'
    BY <1>2, <1>11, StillWhereabouts DEF vars
  <2> QED
    BY <1>6, <1>11, <2>1 DEF vars
<1>12. ASSUME NEW count \in 1 .. MaxBatch, TransferSamples(count) PROVE (produced.newest <= at + SourceLength)'
  <2>1. Targets # {}
    BY <1>12 DEF TransferSamples, Active
  <2> QED
    BY <1>5, <1>12, <2>1
<1> QED
  BY <1>3, <1>4, <1>5, <1>6, <1>7, <1>8, <1>9, <1>10, <1>11, <1>12 DEF Next

LEMMA AlwaysSamples ==
    ASSUME "samples" \notin BusyRemovals
    PROVE  Spec => [](CountInv /\ SampleInv /\ RingsTyped)
<1>1. Init => CountInv /\ SampleInv /\ RingsTyped
  BY InitTyped, InitCounted, InitSamples DEF CountInv
<1>2. CountInv /\ SampleInv /\ RingsTyped /\ [Next]_vars => (CountInv /\ SampleInv /\ RingsTyped)'
  BY StepCounted, StepSamples, StepRings
<1> QED
  BY <1>1, <1>2, PTL DEF Spec

(* When a target reports samples (RMASampleIngressProtocol::read), they    *)
(* are the range that was transferred, and every one of them is at its     *)
(* place in the ring of the target, however the rings of the source, the   *)
(* bounce buffer and the target wrap: whatever transfers were refused and  *)
(* repeated, as long as no write failed and the application does not       *)
(* remove a target that is not done.                                       *)
THEOREM SamplesAlwaysArrive == ASSUME "samples" \notin BusyRemovals PROVE Spec => SamplesArrive
<1> DEFINE I == CountInv /\ SampleInv /\ RingsTyped
           A == \A t \in Targets :
                  (ReadTarget(t) /\ format = "samples" /\ ~lost) =>
                     LET range == Head(notices[t]).imm
                     IN  /\ reported'[t] = range.index
                         /\ \A ch \in 0 .. Channels - 1 :
                               \A i \in range.index - range.count .. range.index - 1 :
                                  ring'[t][ch][i % TargetLength] = <<ch, i>>
<1>1. I => A
  <2> SUFFICES ASSUME I, NEW t \in Targets, ReadTarget(t), format = "samples", ~lost
               PROVE  LET range == Head(notices[t]).imm
                      IN  /\ reported'[t] = range.index
                          /\ \A ch \in 0 .. Channels - 1 :
                                \A i \in range.index - range.count .. range.index - 1 :
                                   ring'[t][ch][i % TargetLength] = <<ch, i>>
    OBVIOUS
  <2>1. TypeInv /\ RingsTyped /\ Whereabouts(t)
    BY DEF CountInv, SampleInv
  <2>2. LET range == Head(notices[t]).imm
        IN  reported'[t] = range.index /\ InPlace(ring'[t], range.index, range.count, TargetLength)
    BY <2>1, ReadIsInPlace
  <2> QED
    BY <2>2 DEF InPlace
<1> HIDE DEF A, I
<1>2. I => [A]_vars
  BY <1>1
<1>3. []I => [][A]_vars
  BY <1>2, PTL
<1>4. [][A]_vars <=> SamplesArrive
  BY DEF SamplesArrive, A
<1>5. Spec => []I
  BY AlwaysSamples DEF I
<1> QED
  BY <1>3, <1>4, <1>5, PTL

=============================================================================
