------------------- MODULE FlowSynchronizationGroup_proofs -------------------
(***************************************************************************)
(* Proofs about synchronization groups of any number of flows, at any      *)
(* rates: the list of a group holds its members and nothing else, and a    *)
(* wait that succeeds has seen every one of them, whatever it reorders.    *)
(* Before that, the conversions between indexes and timestamps.            *)
(***************************************************************************)
EXTENDS FlowSynchronizationGroup, SequenceTheorems, TLAPS

-----------------------------------------------------------------------------
(* Indexes and timestamps.  The products of three factors are named first: *)
(* what is left is linear.                                                 *)

(* What the integer division of the code computes.                         *)
LEMMA Division ==
    ASSUME NEW a \in Int, NEW b \in Nat \ {0}
    PROVE  /\ a \div b \in Int
           /\ b * (a \div b) <= a
           /\ a < b * (a \div b) + b
  OBVIOUS

(* A quotient is told by the interval the dividend lies in.                *)
LEMMA QuotientIs ==
    ASSUME NEW a \in Int, NEW b \in Nat \ {0}, NEW q \in Int,
           b * q <= a, a < b * q + b
    PROVE  a \div b = q
  OBVIOUS

(* An index is due at a timestamp that maps back to it, whatever the rate, *)
(* as long as it is below the resolution of the clock: an application that *)
(* asks a group for the due time of its next index asks a flow of its own  *)
(* rate for exactly that index.                                            *)
THEOREM RoundTrip ==
    ASSUME NEW rate \in ValidRates, NEW i \in Nat,
           rate.num < Second * rate.den
    PROVE  TimestampToIndex(rate, IndexToTimestamp(rate, i)) = i
<1> DEFINE N == rate.num
           D == rate.den
           h == Second \div 2
           P == Second * D
           X == i * D * Second
           t == IndexToTimestamp(rate, i)
<1>1. /\ N \in Nat \ {0} /\ D \in Nat \ {0}
      /\ Second \in Nat \ {0} /\ h \in Nat /\ Second = 2 * h
  BY SecondAssumption DEF ValidRates
<1>2. /\ P \in Nat \ {0} /\ P = 2 * (h * D) /\ h * D \in Nat
      /\ X \in Nat /\ X = P * i
  BY <1>1
<1>3. t \in Int /\ N * t <= X + N \div 2 /\ X + N \div 2 < N * t + N
  <2>1. X + N \div 2 \in Int
    BY <1>1, <1>2
  <2>2. t = (X + N \div 2) \div N
    BY DEF IndexToTimestamp
  <2> HIDE DEF t, X, P, N
  <2> QED
    BY <1>1, <2>1, <2>2, Division
<1>4. N \div 2 \in Nat /\ 2 * (N \div 2) <= N /\ N <= 2 * (N \div 2) + 1
  BY <1>1
<1>5. TimestampToIndex(rate, t) = (t * N + h * D) \div P
  BY DEF TimestampToIndex
<1>6. t * N + h * D \in Int /\ t * N = N * t
  BY <1>1, <1>2, <1>3
<1>7. P * i <= t * N + h * D /\ t * N + h * D < P * i + P
  <2>1. N < P
    OBVIOUS
  <2> HIDE DEF t, X, P, N, D, h
  <2> DEFINE Y == N * t
             H == h * D
             M == N \div 2
             Q == P * i
  <2>2. /\ Y \in Int /\ H \in Nat /\ M \in Nat /\ Q \in Nat /\ P \in Nat /\ N \in Nat
        /\ P = 2 * H /\ X = Q
        /\ Y <= Q + M /\ Q + M < Y + N
        /\ 2 * M <= N /\ N <= 2 * M + 1 /\ N < P
    BY <1>1, <1>2, <1>3, <1>4, <2>1, <1>6
  <2> HIDE DEF Y, H, M, Q
  <2>3. Q <= Y + H /\ Y + H < Q + P
    BY <2>2
  <2> QED
    BY <2>3, <1>6 DEF Y, H, Q
<1> HIDE DEF t, X, P, N, D, h
<1> QED
  <2> DEFINE A == t * N + h * D
  <2>1. A \div P = i
    <3>1. A \in Int /\ i \in Int /\ P \in Nat \ {0} /\ P * i <= A /\ A < P * i + P
      BY <1>2, <1>6, <1>7
    <3> HIDE DEF A
    <3> QED
      BY <3>1, QuotientIs
  <2> QED
    BY <1>5, <2>1 DEF t

(* Later points in time never have smaller indexes: a group that has the   *)
(* data of one timestamp has the data of every earlier one.                *)
THEOREM IndexMonotone ==
    ASSUME NEW rate \in ValidRates, NEW s \in Nat, NEW t \in Nat, s <= t
    PROVE  TimestampToIndex(rate, s) <= TimestampToIndex(rate, t)
<1> DEFINE N == rate.num
           H == (Second \div 2) * rate.den
           P == Second * rate.den
           a == s * N + H
           b == t * N + H
<1>1. N \in Nat \ {0} /\ H \in Nat /\ P \in Nat \ {0}
  BY SecondAssumption DEF ValidRates
<1>2. a \in Int /\ b \in Int /\ a <= b
  <2>1. s * N \in Int /\ t * N \in Int /\ s * N <= t * N
    BY <1>1
  <2> QED
    BY <1>1, <2>1
<1>3. a \div P <= b \div P
  <2> HIDE DEF a, b, P, H, N
  <2>1. /\ a \div P \in Int /\ P * (a \div P) <= a
        /\ b \div P \in Int /\ b < P * (b \div P) + P
    BY <1>1, <1>2, Division
  <2> DEFINE x == a \div P
             y == b \div P
  <2>2. x \in Int /\ y \in Int /\ P * x < P * (y + 1)
    BY <1>1, <1>2, <2>1
  <2> HIDE DEF x, y
  <2>3. x < y + 1
    BY <1>1, <2>2
  <2> QED
    BY <2>2, <2>3 DEF x, y
<1> QED
  BY <1>3 DEF TimestampToIndex

-----------------------------------------------------------------------------
(* Lists of readers.                                                       *)

(* A list of readers none of which is in it twice.                         *)
IsList(list) == list \in Seq(Readers) /\ IsInjective(list)

LEMMA ListElements ==
  ASSUME NEW list, IsList(list)
  PROVE  /\ Len(list) \in Nat /\ DOMAIN list = 1..Len(list)
         /\ \A k \in 1..Len(list) : list[k] \in Readers /\ list[k] # BeforeBegin /\ list[k] # End
         /\ \A j, k \in 1..Len(list) : list[j] = list[k] => j = k
         /\ ToSet(list) \subseteq Readers
         /\ \A x : x \in ToSet(list) <=> \E k \in 1..Len(list) : list[k] = x
  BY IteratorAssumption DEF IsList, IsInjective, ToSet

(* The place of an entry is where the entry is.                            *)
LEMMA PositionIs ==
  ASSUME NEW list, IsList(list), NEW k \in 1..Len(list)
  PROVE  Position(list, list[k]) = k
<1>1. list[k] # BeforeBegin
  BY ListElements
<1>2. \A j \in DOMAIN list : list[j] = list[k] <=> j = k
  BY ListElements
<1>3. (CHOOSE j \in DOMAIN list : list[j] = list[k]) = k
  BY <1>2, ListElements
<1> QED
  BY <1>1, <1>3 DEF Position

LEMMA FollowingIs ==
  ASSUME NEW list, IsList(list)
  PROVE  /\ Len(list) > 0 => Following(list, BeforeBegin) = list[1]
         /\ \A k \in 1..Len(list) :
                Following(list, list[k]) = IF k = Len(list) THEN End ELSE list[k + 1]
<1>1. Len(list) > 0 => Following(list, BeforeBegin) = list[1]
  BY ListElements DEF Following, Position
<1>2. ASSUME NEW k \in 1..Len(list)
      PROVE  Following(list, list[k]) = IF k = Len(list) THEN End ELSE list[k + 1]
  BY PositionIs DEF Following
<1> QED
  BY <1>1, <1>2

(* Erasing an entry moves those after it one place ahead.                  *)
LEMMA WithoutEntry ==
  ASSUME NEW list, IsList(list), NEW p \in 1..Len(list)
  PROVE  LET short == Without(list, list[p]) IN
         /\ IsList(short)
         /\ Len(short) = Len(list) - 1
         /\ \A k \in 1..Len(list)-1 : short[k] = IF k < p THEN list[k] ELSE list[k + 1]
         /\ ToSet(short) = ToSet(list) \ {list[p]}
<1> DEFINE short == Without(list, list[p])
           a == SubSeq(list, 1, p - 1)
           b == SubSeq(list, p + 1, Len(list))
<1>1. short = a \o b
  BY PositionIs, ListElements DEF Without, RemoveAt
<1>2. list \in Seq(Readers) /\ Len(list) \in Nat
  BY ListElements DEF IsList
<1>3. a \in Seq(Readers) /\ Len(a) = p - 1 /\ \A k \in 1..p-1 : a[k] = list[k]
  <2>1. \A i \in 1..p-1 : list[i] \in Readers
    BY ListElements
  <2> QED
    BY <1>2, <2>1, SubSeqProperties
<1>4. b \in Seq(Readers) /\ Len(b) = Len(list) - p /\ \A k \in 1..Len(list)-p : b[k] = list[p + k]
  <2>1. \A i \in p+1..Len(list) : list[i] \in Readers
    BY ListElements
  <2> QED
    BY <1>2, <2>1, SubSeqProperties
<1> HIDE DEF a, b
<1>5. short \in Seq(Readers) /\ Len(short) = Len(list) - 1
  BY <1>1, <1>2, <1>3, <1>4, ConcatProperties
<1>6. ASSUME NEW k \in 1..Len(list)-1
      PROVE  short[k] = IF k < p THEN list[k] ELSE list[k + 1]
  <2>1. short[k] = IF k <= p - 1 THEN a[k] ELSE b[k - (p - 1)]
    BY <1>1, <1>2, <1>3, <1>4, ConcatProperties
  <2> QED
    BY <1>2, <1>3, <1>4, <2>1
<1> HIDE DEF short
<1>7. DOMAIN short = 1..Len(list)-1
  BY <1>5, LenProperties
<1>8. IsList(short)
  <2>1. ASSUME NEW j \in 1..Len(list)-1, NEW k \in 1..Len(list)-1, short[j] = short[k] PROVE j = k
    <3>1. ASSUME NEW i \in 1..Len(list)-1
          PROVE  \E u \in 1..Len(list) : short[i] = list[u] /\ i = IF u < p THEN u ELSE u - 1
      <4>1. CASE i < p
        <5>1. i \in 1..Len(list) /\ short[i] = list[i]
          BY <1>2, <1>6, <4>1
        <5> QED
          BY <4>1, <5>1
      <4>2. CASE ~(i < p)
        <5>1. i + 1 \in 1..Len(list) /\ short[i] = list[i + 1] /\ ~(i + 1 < p) /\ i = (i + 1) - 1
          BY <1>2, <1>6, <4>2
        <5> QED
          BY <5>1
      <4> QED
        BY <4>1, <4>2
    <3>2. PICK u \in 1..Len(list) : short[j] = list[u] /\ j = IF u < p THEN u ELSE u - 1
      BY <3>1
    <3>3. PICK v \in 1..Len(list) : short[k] = list[v] /\ k = IF v < p THEN v ELSE v - 1
      BY <3>1
    <3>4. u = v
      <4>1. list[u] = list[v]
        BY <2>1, <3>2, <3>3
      <4> QED
        BY <4>1, ListElements
    <3> QED
      BY <3>2, <3>3, <3>4
  <2> QED
    BY <1>5, <1>7, <2>1 DEF IsList, IsInjective
<1>9. ToSet(short) = ToSet(list) \ {list[p]}
  <2>1. ASSUME NEW x \in ToSet(short) PROVE x \in ToSet(list) \ {list[p]}
    <3>1. PICK k \in 1..Len(list)-1 : short[k] = x
      BY <1>7 DEF ToSet
    <3> QED
      BY <1>2, <1>6, <3>1, ListElements
  <2>2. ASSUME NEW x \in ToSet(list) \ {list[p]} PROVE x \in ToSet(short)
    <3>1. PICK j \in 1..Len(list) : list[j] = x
      BY ListElements
    <3>2. j # p
      BY <3>1
    <3>3. CASE j < p
      <4>1. j \in 1..Len(list)-1 /\ short[j] = x
        BY <1>2, <1>6, <3>1, <3>3
      <4> QED
        BY <1>7, <4>1 DEF ToSet
    <3>4. CASE j > p
      <4>1. j - 1 \in 1..Len(list)-1 /\ short[j - 1] = x
        BY <1>2, <1>6, <3>1, <3>4
      <4> QED
        BY <1>7, <4>1 DEF ToSet
    <3> QED
      BY <1>2, <3>2, <3>3, <3>4
  <2> QED
    BY <2>1, <2>2
<1> QED
  BY <1>5, <1>6, <1>8, <1>9 DEF short

(* removeReader leaves a list without the reader.                          *)
LEMMA WithoutReader ==
  ASSUME NEW list, IsList(list), NEW r
  PROVE  IsList(Without(list, r)) /\ ToSet(Without(list, r)) = ToSet(list) \ {r}
<1>1. CASE r \in ToSet(list)
  <2>1. PICK p \in 1..Len(list) : list[p] = r
    BY <1>1, ListElements
  <2> QED
    BY <2>1, WithoutEntry
<1>2. CASE r \notin ToSet(list)
  BY <1>2 DEF Without
<1> QED
  BY <1>1, <1>2

(* addReader leaves a list with the reader in it.                          *)
LEMMA AddedReader ==
  ASSUME NEW list, IsList(list), NEW r \in Readers
  PROVE  IsList(Added(list, r)) /\ ToSet(Added(list, r)) = ToSet(list) \cup {r}
<1>1. CASE r \in ToSet(list)
  BY <1>1 DEF Added
<1>2. CASE r \notin ToSet(list)
  <2> DEFINE long == Append(list, r)
  <2>1. list \in Seq(Readers) /\ Len(list) \in Nat
    BY ListElements DEF IsList
  <2>2. /\ long \in Seq(Readers) /\ Len(long) = Len(list) + 1
        /\ \A k \in 1..Len(list) : long[k] = list[k]
        /\ long[Len(list) + 1] = r
    BY <2>1, AppendProperties
  <2> HIDE DEF long
  <2>3. DOMAIN long = 1..Len(list)+1
    BY <2>2, LenProperties
  <2>4. \A k \in 1..Len(list) : list[k] # r
    BY <1>2, ListElements
  <2>5. IsList(long)
    BY <2>1, <2>2, <2>3, <2>4, ListElements DEF IsList, IsInjective
  <2>6. \A x : x \in ToSet(long) <=> x \in ToSet(list) \/ x = r
    BY <2>1, <2>2, <2>3, ListElements DEF ToSet
  <2>7. ToSet(long) = ToSet(list) \cup {r}
    BY <2>6
  <2> QED
    BY <1>2, <2>5, <2>7 DEF Added, long
<1> QED
  BY <1>1, <1>2

(* Moving an entry to the front moves those before it one place back.      *)
LEMMA InFrontEntry ==
  ASSUME NEW list, IsList(list), NEW p \in 1..Len(list)
  PROVE  LET new == InFront(list, list[p]) IN
         /\ IsList(new) /\ Len(new) = Len(list) /\ ToSet(new) = ToSet(list)
         /\ new[1] = list[p]
         /\ \A k \in 2..Len(list) : new[k] = IF k <= p THEN list[k - 1] ELSE list[k]
<1> DEFINE x == list[p]
           short == Without(list, x)
           new == <<x>> \o short
<1>1. InFront(list, x) = new
  BY ListElements DEF InFront
<1>2. /\ IsList(short) /\ Len(short) = Len(list) - 1 /\ Len(list) \in Nat
      /\ \A k \in 1..Len(list)-1 : short[k] = IF k < p THEN list[k] ELSE list[k + 1]
      /\ ToSet(short) = ToSet(list) \ {x}
  BY WithoutEntry, ListElements
<1>3. x \in Readers /\ x \in ToSet(list)
  BY ListElements
<1>4. <<x>> \in Seq(Readers) /\ Len(<<x>>) = 1 /\ <<x>>[1] = x
  BY <1>3
<1>5. short \in Seq(Readers)
  BY <1>2 DEF IsList
<1> HIDE DEF short, x
<1>6. /\ new \in Seq(Readers) /\ Len(new) = Len(list)
      /\ new[1] = x /\ \A k \in 2..Len(list) : new[k] = short[k - 1]
  <2>1. /\ new \in Seq(Readers) /\ Len(new) = Len(<<x>>) + Len(short)
        /\ \A i \in 1..Len(<<x>>) + Len(short) :
             new[i] = IF i <= Len(<<x>>) THEN <<x>>[i] ELSE short[i - Len(<<x>>)]
    BY <1>4, <1>5, ConcatProperties
  <2> HIDE DEF new
  <2> QED
    BY <1>2, <1>4, <2>1
<1> HIDE DEF new
<1>7. DOMAIN new = 1..Len(list)
  BY <1>6, LenProperties
<1>8. \A k \in 1..Len(list)-1 : short[k] # x
  BY <1>2, ListElements
<1>9. IsList(new)
  <2>1. ASSUME NEW j \in 1..Len(list), NEW k \in 1..Len(list), new[j] = new[k] PROVE j = k
    <3>1. \A i \in 1..Len(list) : i # 1 => i - 1 \in 1..Len(list)-1 /\ new[i] = short[i - 1] /\ new[i] # x
      BY <1>2, <1>6, <1>8
    <3>2. CASE j = 1 \/ k = 1
      BY <1>6, <2>1, <3>1, <3>2
    <3>3. CASE j # 1 /\ k # 1
      <4>1. j - 1 \in 1..Len(list)-1 /\ k - 1 \in 1..Len(list)-1 /\ short[j - 1] = short[k - 1]
        BY <2>1, <3>1, <3>3
      <4>2. \A a, b \in 1..Len(short) : short[a] = short[b] => a = b
        BY <1>2, ListElements
      <4>3. j - 1 = k - 1
        BY <1>2, <4>1, <4>2
      <4> QED
        BY <4>3
    <3> QED
      BY <3>2, <3>3
  <2> QED
    BY <1>6, <1>7, <2>1 DEF IsList, IsInjective
<1>10. ToSet(new) = ToSet(list)
  <2>1. \A y : y \in ToSet(new) <=> \E k \in 1..Len(list) : new[k] = y
    BY <1>7 DEF ToSet
  <2>2. \A y : y \in ToSet(short) <=> \E k \in 1..Len(list)-1 : short[k] = y
    BY <1>2, ListElements
  <2>3. ASSUME NEW y \in ToSet(new) PROVE y \in ToSet(list)
    <3>1. PICK k \in 1..Len(list) : new[k] = y
      BY <2>1
    <3>2. CASE k = 1
      BY <1>3, <1>6, <3>1, <3>2
    <3>3. CASE k # 1
      <4>1. k - 1 \in 1..Len(list)-1 /\ short[k - 1] = y
        BY <1>2, <1>6, <3>1, <3>3
      <4> QED
        BY <1>2, <2>2, <4>1
    <3> QED
      BY <3>2, <3>3
  <2>4. ASSUME NEW y \in ToSet(list) PROVE y \in ToSet(new)
    <3>1. CASE y = x
      <4>1. 1 \in 1..Len(list)
        BY <1>2
      <4> QED
        BY <1>6, <2>1, <3>1, <4>1
    <3>2. CASE y # x
      <4>1. PICK k \in 1..Len(list)-1 : short[k] = y
        BY <1>2, <2>2, <3>2
      <4>2. k + 1 \in 2..Len(list) /\ new[k + 1] = y
        BY <1>2, <1>6, <4>1
      <4> QED
        BY <1>2, <2>1, <4>2
    <3> QED
      BY <3>1, <3>2
  <2> QED
    BY <2>3, <2>4
<1> QED
  BY <1>1, <1>2, <1>6, <1>9, <1>10 DEF x

-----------------------------------------------------------------------------
(* Points in time.                                                         *)

LEMMA Sizes ==
  /\ Discrete \subseteq Readers /\ OutputRate \in ValidRates /\ \A r \in Readers : Rate[r] \in ValidRates
  /\ TotalSlices \in Nat \ {0} /\ MinSlices \subseteq Nat /\ Timeouts \subseteq Nat
  /\ Depth \in Nat /\ MaxOutput \in Nat /\ MaxIndex \in Nat /\ MaxTime \in Nat /\ MaxReferences \in Nat
  BY GroupAssumption

LEMMA DueTyped ==
  ASSUME NEW rate \in ValidRates, NEW i \in Nat
  PROVE  IndexToTimestamp(rate, i) \in Nat
<1> DEFINE N == rate.num
           a == i * rate.den * Second + rate.num \div 2
<1>1. N \in Nat \ {0} /\ rate.den \in Nat /\ Second \in Nat /\ rate.num \div 2 \in Nat
  BY SecondAssumption DEF ValidRates
<1>2. i * rate.den \in Nat /\ i * rate.den * Second \in Nat
  BY <1>1
<1>3. a \in Nat
  BY <1>1, <1>2
<1> HIDE DEF a, N
<1>4. a \div N \in Nat
  BY <1>1, <1>3
<1> QED
  BY <1>4 DEF a, N, IndexToTimestamp

(* A flow whose head has reached the index of a timestamp is past the      *)
(* grain or sample nearest to it.                                          *)
LEMMA IndexReached ==
  ASSUME NEW rate \in ValidRates, NEW t \in Nat
  PROVE  /\ TimestampToIndex(rate, t) \in Nat
         /\ \A h \in Nat : TimestampToIndex(rate, t) <= h =>
                2 * t * rate.num < (2 * h + 1) * Second * rate.den
<1> DEFINE Y == t * rate.num
           H == (Second \div 2) * rate.den
           P == Second * rate.den
           A == Y + H
           q == A \div P
<1>1. /\ rate.num \in Nat /\ rate.den \in Nat \ {0} /\ Second \in Nat \ {0}
      /\ Second = 2 * (Second \div 2) /\ Second \div 2 \in Nat
  BY SecondAssumption DEF ValidRates
<1>2. Y \in Nat /\ H \in Nat /\ P \in Nat \ {0} /\ P = 2 * H
  BY <1>1
<1>3. TimestampToIndex(rate, t) = q
  BY DEF TimestampToIndex
<1>4. \A h \in Nat : (2 * h + 1) * Second * rate.den = P * (2 * h + 1) /\ 2 * t * rate.num = 2 * Y
  BY <1>1
<1> HIDE DEF Y, H, P
<1>5. q \in Nat /\ Y + H < P * q + P
  <2>1. A \in Nat /\ P \in Nat \ {0}
    BY <1>2
  <2> HIDE DEF A
  <2>2. q \in Nat /\ A < P * q + P
    BY <2>1, Division
  <2> QED
    BY <2>2 DEF A
<1> HIDE DEF q
<1>6. ASSUME NEW h \in Nat, q <= h PROVE 2 * Y < P * (2 * h + 1)
  <2>1. P * q <= P * h /\ P * h \in Nat /\ P * q \in Nat
    BY <1>2, <1>5, <1>6
  <2>2. P * (2 * h + 1) = 2 * (P * h) + P
    BY <1>2
  <2> QED
    BY <1>2, <1>5, <2>1, <2>2
<1> QED
  BY <1>3, <1>4, <1>5, <1>6

LEMMA OriginsAreNat == Origins \subseteq Nat
  BY Sizes, DueTyped DEF Origins

-----------------------------------------------------------------------------
(* The invariant.                                                          *)

WorldTyped ==
    /\ now \in 0..MaxTime
    /\ head \in [Readers -> Indexes]
    /\ slices \in [Readers -> [Indexes -> 0..TotalSlices]]
    /\ references \in [Readers -> 0..MaxReferences]

TablesTyped ==
    /\ minValidSlices \in [Groups -> [Readers -> MinSlices \cup {0, TotalSlices}]]
    /\ maxObservedSourceDelay \in [Groups -> [Readers -> 0..MaxTime]]
    /\ joined \in [Groups -> SUBSET Readers]

Iterators == Readers \cup {BeforeBegin, End}

CallTyped ==
    /\ pc \in {"idle", "check", "wait"}
    /\ call \in [group : Groups, origin : Origins \cup {0}, deadline : 0..MaxTime]
    /\ prev \in Iterators /\ current \in Iterators /\ it \in Iterators
    /\ result \in {"none", "OK", "TOO_EARLY", "TOO_LATE"}

(* The list of a group holds its members, once each.                       *)
Lists ==
    /\ readers \in [Groups -> Seq(Readers)]
    /\ \A g \in Groups : IsList(readers[g]) /\ ToSet(readers[g]) = joined[g]

(* Members are readers the application holds references to.                *)
Alive == \A g \in Groups : \A r \in joined[g] : references[r] > 0

(* The walk is at the k-th entry of the list: its iterators are what they  *)
(* would be had nothing been reordered, and it has seen every entry before *)
(* that one.                                                               *)
At(k) ==
    LET list == readers[call.group] IN
    /\ k \in 1..Len(list) /\ current = list[k]
    /\ prev = IF k = 1 THEN BeforeBegin ELSE list[k - 1]
    /\ it = IF k = Len(list) THEN End ELSE list[k + 1]
    /\ \A j \in 1..k-1 : Expected(list[j]) <= head[list[j]]

Walk == pc # "idle" => \E k \in Nat : At(k)

GroupInv == WorldTyped /\ TablesTyped /\ CallTyped /\ Lists /\ Alive /\ Walk

LEMMA InvTypes == GroupInv => TypeOK
  BY DEF GroupInv, WorldTyped, TablesTyped, CallTyped, Lists, Iterators, IsList, TypeOK

LEMMA CallIs ==
  ASSUME CallTyped
  PROVE  call.group \in Groups /\ call.origin \in Nat
<1>1. call.group \in Groups /\ call.origin \in Origins \cup {0}
  BY DEF CallTyped
<1>2. \A t \in Origins \cup {0} : t \in Nat
  BY OriginsAreNat
<1> QED
  BY <1>1, <1>2

LEMMA NoCallTyped == NoCall \in [group : Groups, origin : Origins \cup {0}, deadline : 0..MaxTime]
<1>1. \E g \in Groups : TRUE
  BY IteratorAssumption
<1>2. (CHOOSE g \in Groups : TRUE) \in Groups
  BY <1>1
<1> QED
  BY <1>2, Sizes DEF NoCall

LEMMA InvInit == Init => GroupInv
<1> SUFFICES ASSUME Init PROVE GroupInv
  OBVIOUS
<1>1. WorldTyped
  BY Sizes DEF Init, WorldTyped, Indexes
<1>2. TablesTyped
  BY Sizes DEF Init, TablesTyped
<1>3. CallTyped /\ Walk
  BY NoCallTyped DEF Init, CallTyped, Walk, Iterators
<1>4. Lists
  <2>1. IsList(<<>>) /\ ToSet(<<>>) = {}
    BY DEF IsList, IsInjective, ToSet
  <2> QED
    BY <2>1 DEF Init, Lists
<1>5. Alive
  BY DEF Init, Alive
<1> QED
  BY <1>1, <1>2, <1>3, <1>4, <1>5 DEF GroupInv

-----------------------------------------------------------------------------
(* Steps outside of a wait.                                                *)

(* While heads only grow and nothing else changes, the walk stays where it *)
(* is.                                                                     *)
LEMMA WalkFrame ==
  ASSUME GroupInv, UNCHANGED <<readers, walk>>, head' \in [Readers -> Indexes],
         \A r \in Readers : head[r] <= head'[r]
  PROVE  Walk'
<1> SUFFICES ASSUME pc # "idle" PROVE \E k \in Nat : At(k)'
  BY DEF Walk, walk
<1>1. PICK k \in Nat : At(k)
  BY DEF GroupInv, Walk
<1> DEFINE list == readers[call.group]
<1>2. IsList(list) /\ call.origin \in Nat
  BY CallIs DEF GroupInv, Lists
<1>3. \A j \in 1..k-1 : Expected(list[j])' <= head'[list[j]]
  <2> SUFFICES ASSUME NEW j \in 1..k-1 PROVE Expected(list[j])' <= head'[list[j]]
    OBVIOUS
  <2>1. k \in 1..Len(list)
    BY <1>1 DEF At
  <2>2. list[j] \in Readers
    BY <1>2, <2>1, ListElements
  <2>3. Expected(list[j])' = Expected(list[j]) /\ Expected(list[j]) \in Nat
    BY <1>2, <2>2, Sizes, IndexReached DEF Expected, walk
  <2>4. Expected(list[j]) <= head[list[j]]
    BY <1>1 DEF At
  <2>5. head[list[j]] \in Nat /\ head'[list[j]] \in Nat /\ head[list[j]] <= head'[list[j]]
    BY <2>2, Sizes DEF GroupInv, WorldTyped, Indexes
  <2> HIDE DEF list
  <2> QED
    BY <2>3, <2>4, <2>5
<1> QED
  BY <1>1, <1>3 DEF At, walk

LEMMA WorldStep ==
  ASSUME GroupInv, Tick \/ \E r \in Readers : Commit(r) \/ GetFlowReader(r)
  PROVE  GroupInv'
<1>1. CASE Tick
  <2>1. WorldTyped'
    BY <1>1, Sizes DEF Tick, GroupInv, WorldTyped, flows
  <2>2. Walk'
    BY <1>1, WalkFrame, Sizes DEF Tick, flows, lists, GroupInv, WorldTyped, Indexes
  <2> QED
    BY <1>1, <2>1, <2>2 DEF Tick, GroupInv, TablesTyped, CallTyped, Lists, Alive, lists, walk, flows
<1>2. ASSUME NEW r \in Readers, Commit(r) PROVE GroupInv'
  <2>1. /\ UNCHANGED <<now, references, lists, walk>>
        /\ head' \in [Readers -> Indexes] /\ \A q \in Readers : head[q] <= head'[q]
        /\ slices' \in [Readers -> [Indexes -> 0..TotalSlices]]
    <3>1. CASE \E i \in {head[r], head[r] + 1} \cap Indexes, n \in 1..TotalSlices :
                  /\ head' = [head EXCEPT ![r] = i] /\ slices' = [slices EXCEPT ![r][i] = n]
                  /\ UNCHANGED <<now, references, lists, walk>>
      <4>1. PICK i \in {head[r], head[r] + 1} \cap Indexes, n \in 1..TotalSlices :
                  /\ head' = [head EXCEPT ![r] = i] /\ slices' = [slices EXCEPT ![r][i] = n]
                  /\ UNCHANGED <<now, references, lists, walk>>
        BY <3>1
      <4>2. i \in Indexes /\ n \in 0..TotalSlices /\ head[r] <= i /\ \A q \in Readers : head[q] \in Nat
        BY Sizes DEF GroupInv, WorldTyped, Indexes
      <4>3. slices' \in [Readers -> [Indexes -> 0..TotalSlices]]
        BY <4>1, <4>2 DEF GroupInv, WorldTyped
      <4>4. head' \in [Readers -> Indexes] /\ \A q \in Readers : head[q] <= head'[q]
        BY <4>1, <4>2 DEF GroupInv, WorldTyped
      <4> QED
        BY <4>1, <4>3, <4>4
    <3>2. CASE /\ head[r] + 1 \in Indexes /\ head' = [head EXCEPT ![r] = @ + 1]
               /\ UNCHANGED <<now, slices, references, lists, walk>>
      <4>1. /\ head \in [Readers -> Indexes] /\ slices \in [Readers -> [Indexes -> 0..TotalSlices]]
            /\ \A q \in Readers : head[q] \in Nat
        BY Sizes DEF GroupInv, WorldTyped, Indexes
      <4>2. head' \in [Readers -> Indexes] /\ \A q \in Readers : head[q] <= head'[q]
        BY <3>2, <4>1
      <4> QED
        BY <3>2, <4>1, <4>2
    <3> QED
      BY <1>2, <3>1, <3>2 DEF Commit
  <2>2. WorldTyped'
    BY <2>1 DEF GroupInv, WorldTyped
  <2>3. Walk'
    BY <2>1, WalkFrame DEF lists
  <2> QED
    BY <2>1, <2>2, <2>3 DEF GroupInv, TablesTyped, CallTyped, Lists, Alive, lists, walk
<1>3. ASSUME NEW r \in Readers, GetFlowReader(r) PROVE GroupInv'
  <2>1. /\ pc = "idle" /\ UNCHANGED <<now, flows, lists, walk>>
        /\ references' = [references EXCEPT ![r] = @ + 1] /\ references[r] < MaxReferences
    BY <1>3 DEF GetFlowReader
  <2>2. /\ references' \in [Readers -> 0..MaxReferences]
        /\ \A q \in Readers : references[q] > 0 => references'[q] > 0
    BY <2>1, Sizes DEF GroupInv, WorldTyped
  <2>3. WorldTyped'
    BY <2>1, <2>2 DEF GroupInv, WorldTyped, flows
  <2>4. Alive'
    <3>1. \A g \in Groups : joined'[g] = joined[g] /\ joined[g] \subseteq Readers
      BY <2>1 DEF GroupInv, TablesTyped, lists
    <3> QED
      BY <2>2, <3>1 DEF GroupInv, Alive
  <2> QED
    BY <2>1, <2>3, <2>4 DEF GroupInv, TablesTyped, CallTyped, Lists, Walk, lists, walk
<1> QED
  BY <1>1, <1>2, <1>3

LEMMA EraseStep ==
  ASSUME GroupInv, NEW r \in Readers, NEW groups \in SUBSET Groups, Erase(r, groups)
  PROVE  /\ readers' \in [Groups -> Seq(Readers)]
         /\ \A g \in Groups :
              /\ IsList(readers'[g])
              /\ ToSet(readers'[g]) = IF g \in groups THEN joined[g] \ {r} ELSE joined[g]
         /\ minValidSlices' \in [Groups -> [Readers -> MinSlices \cup {0, TotalSlices}]]
         /\ maxObservedSourceDelay' \in [Groups -> [Readers -> 0..MaxTime]]
<1>1. \A g \in Groups : IsList(readers[g]) /\ ToSet(readers[g]) = joined[g]
  BY DEF GroupInv, Lists
<1>2. ASSUME NEW g \in Groups
      PROVE  /\ IsList(readers'[g])
             /\ ToSet(readers'[g]) = IF g \in groups THEN joined[g] \ {r} ELSE joined[g]
  <2>1. readers'[g] = IF g \in groups THEN Without(readers[g], r) ELSE readers[g]
    BY DEF Erase
  <2>2. IsList(readers[g]) /\ ToSet(readers[g]) = joined[g]
    BY <1>1
  <2>3. IsList(Without(readers[g], r)) /\ ToSet(Without(readers[g], r)) = joined[g] \ {r}
    BY <2>2, WithoutReader
  <2> QED
    BY <2>1, <2>2, <2>3
<1>3. readers' \in [Groups -> Seq(Readers)]
  <2>1. \A g \in Groups : readers'[g] \in Seq(Readers)
    BY <1>2 DEF IsList
  <2> DEFINE new(g) == IF g \in groups THEN Without(readers[g], r) ELSE readers[g]
  <2>2. readers' = [g \in Groups |-> new(g)]
    BY DEF Erase
  <2>3. \A g \in Groups : new(g) \in Seq(Readers)
    BY <2>1, <2>2
  <2> HIDE DEF new
  <2> QED
    BY <2>2, <2>3
<1>4. minValidSlices' \in [Groups -> [Readers -> MinSlices \cup {0, TotalSlices}]]
  BY DEF Erase, GroupInv, TablesTyped
<1>5. maxObservedSourceDelay' \in [Groups -> [Readers -> 0..MaxTime]]
  BY Sizes DEF Erase, GroupInv, TablesTyped
<1> QED
  BY <1>2, <1>3, <1>4, <1>5

LEMMA ReleaseStep ==
  ASSUME GroupInv, NEW r \in Readers, ReleaseReader(r)
  PROVE  GroupInv'
<1>1. /\ pc = "idle" /\ references[r] > 0 /\ UNCHANGED <<now, flows, walk>>
      /\ references' = [references EXCEPT ![r] = @ - 1]
      /\ Erase(r, GroupsLosing(r))
      /\ joined' = IF references[r] = 1 THEN [g \in Groups |-> joined[g] \ {r}] ELSE joined
  BY DEF ReleaseReader
<1>2. GroupsLosing(r) \in SUBSET Groups
  BY DEF GroupsLosing
<1>3. /\ readers' \in [Groups -> Seq(Readers)]
      /\ \A g \in Groups :
           /\ IsList(readers'[g])
           /\ ToSet(readers'[g]) = IF g \in GroupsLosing(r) THEN joined[g] \ {r} ELSE joined[g]
      /\ minValidSlices' \in [Groups -> [Readers -> MinSlices \cup {0, TotalSlices}]]
      /\ maxObservedSourceDelay' \in [Groups -> [Readers -> 0..MaxTime]]
  BY <1>1, <1>2, EraseStep
<1>4. /\ joined \in [Groups -> SUBSET Readers] /\ joined' \in [Groups -> SUBSET Readers]
      /\ \A g \in Groups : joined'[g] = IF g \in GroupsLosing(r) THEN joined[g] \ {r} ELSE joined[g]
  BY <1>1 DEF GroupInv, TablesTyped, GroupsLosing
<1>5. TablesTyped' /\ Lists'
  BY <1>3, <1>4 DEF TablesTyped, Lists
<1>6. /\ references \in [Readers -> 0..MaxReferences] /\ references' \in [Readers -> 0..MaxReferences]
      /\ \A q \in Readers : references[q] > 0 => references'[q] > 0 \/ (q = r /\ references[r] = 1)
  BY <1>1, Sizes DEF GroupInv, WorldTyped
<1>7. WorldTyped'
  BY <1>1, <1>6 DEF GroupInv, WorldTyped, flows
<1>8. Alive'
  <2> SUFFICES ASSUME NEW g \in Groups, NEW q \in joined'[g] PROVE references'[q] > 0
    BY DEF Alive
  <2>1. q \in joined[g] /\ q \in Readers /\ references[q] > 0
    BY <1>4 DEF GroupInv, Alive
  <2>2. ~(q = r /\ references[r] = 1)
    BY <1>4 DEF GroupsLosing
  <2> QED
    BY <1>6, <2>1, <2>2
<1>9. CallTyped' /\ Walk'
  BY <1>1 DEF GroupInv, CallTyped, Walk, walk
<1> QED
  BY <1>5, <1>7, <1>8, <1>9 DEF GroupInv

LEMMA RemoveStep ==
  ASSUME GroupInv, NEW g \in Groups, NEW r \in Readers, RemoveReader(g, r)
  PROVE  GroupInv'
<1>1. /\ pc = "idle" /\ UNCHANGED <<now, flows, references, walk>>
      /\ Erase(r, {g}) /\ joined' = [joined EXCEPT ![g] = @ \ {r}]
  BY DEF RemoveReader
<1>2. /\ readers' \in [Groups -> Seq(Readers)]
      /\ \A x \in Groups :
           /\ IsList(readers'[x])
           /\ ToSet(readers'[x]) = IF x \in {g} THEN joined[x] \ {r} ELSE joined[x]
      /\ minValidSlices' \in [Groups -> [Readers -> MinSlices \cup {0, TotalSlices}]]
      /\ maxObservedSourceDelay' \in [Groups -> [Readers -> 0..MaxTime]]
  BY <1>1, EraseStep
<1>3. /\ joined \in [Groups -> SUBSET Readers] /\ joined' \in [Groups -> SUBSET Readers]
      /\ \A x \in Groups : joined'[x] = IF x \in {g} THEN joined[x] \ {r} ELSE joined[x]
  BY <1>1 DEF GroupInv, TablesTyped
<1>4. TablesTyped' /\ Lists'
  BY <1>2, <1>3 DEF TablesTyped, Lists
<1>5. WorldTyped' /\ CallTyped' /\ Walk'
  BY <1>1 DEF GroupInv, WorldTyped, CallTyped, Walk, walk, flows
<1>6. Alive'
  BY <1>1, <1>3 DEF GroupInv, Alive
<1> QED
  BY <1>4, <1>5, <1>6 DEF GroupInv

LEMMA AddStep ==
  ASSUME GroupInv, NEW g \in Groups, NEW r \in Readers, NEW n \in MinSlices \cup {TotalSlices},
         AddReader(g, r, n)
  PROVE  GroupInv'
<1>1. /\ pc = "idle" /\ references[r] > 0
      /\ UNCHANGED <<now, flows, references, maxObservedSourceDelay, walk>>
      /\ readers' = [readers EXCEPT ![g] = Added(@, r)]
      /\ minValidSlices' = [minValidSlices EXCEPT ![g][r] = n]
      /\ joined' = [joined EXCEPT ![g] = @ \cup {r}]
  BY DEF AddReader
<1>2. IsList(Added(readers[g], r)) /\ ToSet(Added(readers[g], r)) = joined[g] \cup {r}
  BY AddedReader DEF GroupInv, Lists
<1>3. TablesTyped'
  BY <1>1 DEF GroupInv, TablesTyped
<1>4. Lists'
  <2>1. Added(readers[g], r) \in Seq(Readers)
    BY <1>2 DEF IsList
  <2> QED
    BY <1>1, <1>2, <2>1 DEF GroupInv, Lists, TablesTyped
<1>5. WorldTyped' /\ CallTyped' /\ Walk'
  BY <1>1 DEF GroupInv, WorldTyped, CallTyped, Walk, walk, flows
<1>6. Alive'
  BY <1>1 DEF GroupInv, Alive, TablesTyped
<1> QED
  BY <1>3, <1>4, <1>5, <1>6 DEF GroupInv

-----------------------------------------------------------------------------
(* Steps of a wait.                                                        *)

LEMMA StartStep ==
  ASSUME GroupInv, NEW g \in Groups, NEW t \in Origins, NEW timeout \in Timeouts,
         WaitForDataAt(g, t, timeout)
  PROVE  GroupInv'
<1> DEFINE list == readers[g]
<1>1. /\ list # <<>> /\ now + timeout <= MaxTime
      /\ pc' = "check" /\ result' = "none"
      /\ call' = [group |-> g, origin |-> t, deadline |-> now + timeout]
      /\ prev' = BeforeBegin
      /\ current' = Following(list, BeforeBegin) /\ it' = Following(list, current')
      /\ UNCHANGED <<now, flows, references, lists>>
  BY DEF WaitForDataAt
<1>2. IsList(list)
  BY DEF GroupInv, Lists
<1>3. 1 \in 1..Len(list)
  BY <1>1, <1>2, EmptySeq DEF IsList
<1> HIDE DEF list
<1>4. current' = list[1] /\ it' = IF 1 = Len(list) THEN End ELSE list[2]
  <2>1. current' = list[1]
    BY <1>1, <1>2, <1>3, FollowingIs
  <2>2. Following(list, list[1]) = IF 1 = Len(list) THEN End ELSE list[1 + 1]
    BY <1>2, <1>3, FollowingIs
  <2> QED
    BY <1>1, <2>1, <2>2
<1>5. CallTyped'
  <2>1. now + timeout \in 0..MaxTime
    <3>1. timeout \in Nat /\ now \in Nat /\ MaxTime \in Nat
      BY Sizes DEF GroupInv, WorldTyped
    <3> QED
      BY <1>1, <3>1
  <2>2. list[1] \in Readers /\ it' \in Readers \cup {End}
    <3>1. \A k \in 1..Len(list) : list[k] \in Readers
      BY <1>2, ListElements
    <3>2. 1 # Len(list) => 2 \in 1..Len(list)
      <4>1. Len(list) \in Nat
        BY <1>2, ListElements
      <4>2. \A n \in Nat : 1 \in 1..n /\ 1 # n => 2 \in 1..n
        OBVIOUS
      <4> QED
        BY <1>3, <4>1, <4>2
    <3> QED
      BY <1>3, <1>4, <3>1, <3>2
  <2> QED
    BY <1>1, <1>4, <2>1, <2>2 DEF CallTyped, Iterators
<1>6. At(1)'
  BY <1>1, <1>3, <1>4 DEF At, lists, list
<1>7. Walk'
  BY <1>6 DEF Walk
<1>8. WorldTyped' /\ TablesTyped' /\ Lists' /\ Alive'
  BY <1>1 DEF GroupInv, WorldTyped, TablesTyped, Lists, Alive, flows, lists
<1> QED
  BY <1>5, <1>7, <1>8 DEF GroupInv

(* On to the entry after the k-th one, all up to which have been seen.     *)
LEMMA VisitStep ==
  ASSUME GroupInv, pc # "idle", NEW list, IsList(list), list = readers'[call.group], NEW k \in 1..Len(list),
         Visit(list, list[k], IF k = Len(list) THEN End ELSE list[k + 1]),
         UNCHANGED head, \A j \in 1..k : Expected(list[j]) <= head[list[j]]
  PROVE  /\ CallTyped' /\ Walk'
         /\ pc' = "idle" => k = Len(list) /\ result' = "OK"
         /\ pc' # "idle" => result' = result
<1>1. Len(list) \in Nat /\ \A j \in 1..Len(list) : list[j] \in Readers /\ list[j] # End
  BY ListElements
<1>2. CASE k = Len(list)
  <2>1. Return("OK")
    BY <1>2 DEF Visit
  <2>2. NoCall \in [group : Groups, origin : Origins \cup {0}, deadline : 0..MaxTime]
    BY NoCallTyped
  <2> QED
    BY <1>2, <2>1, <2>2 DEF Return, CallTyped, Iterators, Walk
<1>3. CASE k # Len(list)
  <2>1. k + 1 \in 1..Len(list)
    BY <1>1, <1>3
  <2>2. /\ pc' = "check" /\ prev' = list[k] /\ current' = list[k + 1]
        /\ it' = Following(list, list[k + 1]) /\ UNCHANGED <<call, result>>
    BY <1>1, <1>3, <2>1 DEF Visit
  <2>3. it' = IF k + 1 = Len(list) THEN End ELSE list[k + 1 + 1]
    BY <2>1, <2>2, FollowingIs
  <2>4. At(k + 1)'
    <3>1. \A j \in 1..k+1-1 : Expected(list[j])' <= head'[list[j]]
      BY <2>2 DEF Expected
    <3>2. prev' = IF k + 1 = 1 THEN BeforeBegin ELSE list[k + 1 - 1]
      BY <2>2
    <3> QED
      BY <2>1, <2>2, <2>3, <3>1, <3>2 DEF At
  <2>5. Walk'
    BY <2>1, <2>4 DEF Walk
  <2>6. it' \in Readers \cup {End}
    <3>1. k + 1 # Len(list) => k + 1 + 1 \in 1..Len(list)
      BY <1>1, <2>1
    <3> QED
      BY <1>1, <2>3, <3>1
  <2>7. CallTyped'
    BY <1>1, <2>1, <2>2, <2>6 DEF GroupInv, CallTyped, Iterators
  <2> QED
    BY <2>2, <2>5, <2>7
<1> QED
  BY <1>2, <1>3

(* What the walk is about to rely on.                                      *)
LEMMA WalkIs ==
  ASSUME GroupInv, pc # "idle"
  PROVE  LET list == readers[call.group] IN
         /\ call.group \in Groups /\ IsList(list) /\ ToSet(list) = joined[call.group]
         /\ \E k \in 1..Len(list) :
              /\ At(k) /\ current = list[k] /\ current \in Readers
              /\ it = IF k = Len(list) THEN End ELSE list[k + 1]
         /\ \A r \in Readers : Expected(r) \in Nat /\ head[r] \in Nat
<1> DEFINE list == readers[call.group]
<1>1. call.group \in Groups /\ call.origin \in Nat
  BY CallIs DEF GroupInv
<1>2. IsList(list) /\ ToSet(list) = joined[call.group]
  BY <1>1 DEF GroupInv, Lists
<1>3. PICK k \in Nat : At(k)
  BY DEF GroupInv, Walk
<1>4. /\ k \in 1..Len(list) /\ current = list[k]
      /\ it = IF k = Len(list) THEN End ELSE list[k + 1]
  BY <1>3 DEF At
<1>5. current \in Readers
  BY <1>2, <1>4, ListElements
<1>6. ASSUME NEW r \in Readers PROVE Expected(r) \in Nat /\ head[r] \in Nat
  <2>1. Expected(r) \in Nat
    BY <1>1, Sizes, IndexReached DEF Expected
  <2>2. head[r] \in Nat
    BY Sizes DEF GroupInv, WorldTyped, Indexes
  <2> QED
    BY <2>1, <2>2
<1> QED
  BY <1>1, <1>2, <1>3, <1>4, <1>5, <1>6

LEMMA CheckStep ==
  ASSUME GroupInv, CheckHead
  PROVE  /\ GroupInv'
         /\ pc' = "idle" => \A r \in joined[call.group] : Expected(r) <= head[r]
<1> DEFINE list == readers[call.group]
<1>1. pc = "check" /\ UNCHANGED <<now, flows, references, lists>>
  BY DEF CheckHead
<1>2. /\ call.group \in Groups /\ IsList(list) /\ ToSet(list) = joined[call.group]
      /\ \A r \in Readers : Expected(r) \in Nat /\ head[r] \in Nat
  BY <1>1, WalkIs
<1>3. PICK k \in 1..Len(list) :
        /\ At(k) /\ current = list[k] /\ current \in Readers
        /\ it = IF k = Len(list) THEN End ELSE list[k + 1]
  BY <1>1, WalkIs
<1>4. WorldTyped' /\ TablesTyped' /\ Lists' /\ Alive'
  BY <1>1 DEF GroupInv, WorldTyped, TablesTyped, Lists, Alive, flows, lists
<1>5. CASE pc' = "wait" /\ UNCHANGED <<call, prev, current, it, result>>
  <2>1. At(k)'
    BY <1>1, <1>3, <1>5 DEF At, Expected, flows, lists
  <2>2. CallTyped' /\ Walk'
    BY <1>5, <2>1 DEF GroupInv, CallTyped, Walk
  <2> QED
    BY <1>4, <1>5, <2>2 DEF GroupInv
<1>6. CASE Expected(current) <= head[current] /\ Visit(list, current, it)
  <2>1. \A j \in 1..k : Expected(list[j]) <= head[list[j]]
    BY <1>3, <1>6 DEF At
  <2>2. /\ CallTyped' /\ Walk'
        /\ pc' = "idle" => k = Len(list)
    <3>1. list = readers'[call.group] /\ UNCHANGED head /\ pc # "idle"
      BY <1>1 DEF lists, flows
    <3>2. Visit(list, list[k], IF k = Len(list) THEN End ELSE list[k + 1])
      BY <1>3, <1>6
    <3> HIDE DEF list
    <3> QED
      BY <1>2, <2>1, <3>1, <3>2, VisitStep
  <2>3. pc' = "idle" => \A r \in joined[call.group] : Expected(r) <= head[r]
    <3> SUFFICES ASSUME pc' = "idle", NEW r \in joined[call.group] PROVE Expected(r) <= head[r]
      OBVIOUS
    <3>1. PICK j \in 1..Len(list) : list[j] = r
      BY <1>2, ListElements
    <3> QED
      BY <2>1, <2>2, <3>1
  <2> QED
    BY <1>4, <2>2, <2>3 DEF GroupInv
<1> QED
  BY <1>5, <1>6 DEF CheckHead

LEMMA FailStep ==
  ASSUME GroupInv, WaitFails
  PROVE  GroupInv' /\ result' # "OK"
<1>1. PICK found \in {"TOO_LATE", "TOO_EARLY"} : Return(found)
  BY DEF WaitFails
<1>2. UNCHANGED <<now, flows, references, lists>>
  BY DEF WaitFails
<1>3. CallTyped' /\ Walk' /\ result' # "OK"
  BY <1>1, NoCallTyped DEF Return, CallTyped, Iterators, Walk
<1> QED
  BY <1>2, <1>3 DEF GroupInv, WorldTyped, TablesTyped, Lists, Alive, flows, lists

LEMMA OutcomeOK ==
  ASSUME NEW r, NEW i \in Nat, NEW n, head[r] \in Nat, Outcome(r, i, n) = "OK"
  PROVE  i <= head[r]
  BY DEF Outcome

(* The delay a flow is found to have, and where its entry goes.            *)
Seen == MaxOf(maxObservedSourceDelay[call.group][current],
              now - IndexToTimestamp(Rate[current], Expected(current)))

Moved ==
    LET delay == maxObservedSourceDelay[call.group]
        first == Head(readers[call.group])
    IN  Seen > delay[current] /\ current # first /\ Seen > delay[first]

LEMMA ArrivalIs ==
  ASSUME GroupInv, DataArrived
  PROVE  LET list == readers[call.group]
             new == readers'[call.group]
         IN  /\ pc = "wait" /\ call.group \in Groups /\ IsList(list)
             /\ Seen \in 0..MaxTime /\ Seen >= maxObservedSourceDelay[call.group][current]
             /\ maxObservedSourceDelay' = [maxObservedSourceDelay EXCEPT ![call.group][current] = Seen]
             /\ readers' = [readers EXCEPT ![call.group] = new]
             /\ IsList(new) /\ ToSet(new) = ToSet(list)
             /\ Len(list) >= 1 /\ Len(new) = Len(list) /\ Len(list) \in Nat
             /\ current \in ToSet(list)
             /\ ~Moved => new = list
             /\ Moved => new[1] = current
             /\ CallTyped' /\ Walk'
             /\ pc' = "idle" => \A r \in ToSet(list) : Expected(r) <= head[r]
<1> DEFINE list == readers[call.group]
           new == readers'[call.group]
<1>1. /\ pc = "wait"
      /\ Outcome(current, Expected(current), minValidSlices[call.group][current]) = "OK"
      /\ maxObservedSourceDelay' = [maxObservedSourceDelay EXCEPT ![call.group][current] = Seen]
      /\ readers' = [readers EXCEPT ![call.group] = IF Moved THEN Spliced(list) ELSE list]
      /\ Visit(IF Moved THEN Spliced(list) ELSE list, IF Moved THEN prev ELSE current, it)
      /\ UNCHANGED <<now, flows, references, minValidSlices, joined>>
  BY DEF DataArrived, Moved, Seen
<1>2. /\ call.group \in Groups /\ IsList(list) /\ ToSet(list) = joined[call.group]
      /\ \A r \in Readers : Expected(r) \in Nat /\ head[r] \in Nat
  BY <1>1, WalkIs
<1>3. PICK k \in 1..Len(list) :
        /\ At(k) /\ current = list[k] /\ current \in Readers
        /\ it = IF k = Len(list) THEN End ELSE list[k + 1]
  BY <1>1, WalkIs
<1>4. Seen \in 0..MaxTime /\ Seen >= maxObservedSourceDelay[call.group][current]
  <2> DEFINE due == IndexToTimestamp(Rate[current], Expected(current))
             delay == maxObservedSourceDelay[call.group][current]
  <2>1. due \in Nat
    BY <1>2, <1>3, Sizes, DueTyped
  <2>2. delay \in 0..MaxTime /\ now \in 0..MaxTime /\ MaxTime \in Nat
    BY <1>2, <1>3, Sizes DEF GroupInv, TablesTyped, WorldTyped
  <2> HIDE DEF due, delay
  <2>3. MaxOf(delay, now - due) \in 0..MaxTime /\ MaxOf(delay, now - due) >= delay
    BY <2>1, <2>2 DEF MaxOf
  <2> QED
    BY <2>3 DEF Seen, due, delay
<1>5. readers \in [Groups -> Seq(Readers)]
  BY DEF GroupInv, Lists
<1>6. /\ new = (IF Moved THEN Spliced(list) ELSE list)
      /\ readers' = [readers EXCEPT ![call.group] = new]
  BY <1>1, <1>2, <1>5
<1>7. /\ Len(list) \in Nat /\ Len(list) >= 1 /\ current \in ToSet(list)
      /\ Head(list) = list[1]
  <2>1. Len(list) \in Nat /\ Len(list) >= 1 /\ current \in ToSet(list)
    BY <1>2, <1>3, ListElements
  <2> QED
    BY <2>1
<1>8. \A j \in 1..k : Expected(list[j]) <= head[list[j]]
  <2>1. Expected(current) <= head[current]
    BY <1>1, <1>2, <1>3, OutcomeOK
  <2> QED
    BY <1>3, <2>1 DEF At
<1>9. CASE ~Moved
  <2>1. new = list /\ Visit(list, list[k], IF k = Len(list) THEN End ELSE list[k + 1])
    BY <1>1, <1>3, <1>6, <1>9
  <2>2. /\ CallTyped' /\ Walk'
        /\ pc' = "idle" => k = Len(list)
    <3>1. list = readers'[call.group] /\ UNCHANGED head /\ pc # "idle"
      BY <1>1, <2>1 DEF flows
    <3> HIDE DEF list, new
    <3> QED
      BY <1>2, <1>8, <2>1, <3>1, VisitStep
  <2>3. pc' = "idle" => \A r \in ToSet(list) : Expected(r) <= head[r]
    <3> SUFFICES ASSUME pc' = "idle", NEW r \in ToSet(list) PROVE Expected(r) <= head[r]
      OBVIOUS
    <3>1. PICK j \in 1..Len(list) : list[j] = r
      BY <1>2, ListElements
    <3> QED
      BY <1>8, <2>2, <3>1
  <2> QED
    BY <1>1, <1>2, <1>4, <1>6, <1>7, <1>9, <2>1, <2>2, <2>3
<1>10. CASE Moved
  <2>1. k # 1 /\ prev = list[k - 1]
    BY <1>3, <1>7, <1>10 DEF Moved, At
  <2>2. k - 1 \in 1..Len(list) /\ k - 1 # Len(list) /\ Len(list) \in Nat
    BY <1>7, <2>1
  <2>3. Following(list, prev) = list[k]
    BY <1>2, <2>1, <2>2, FollowingIs
  <2>4. new = InFront(list, list[k])
    BY <1>6, <1>10, <2>3 DEF Spliced
  <2>5. /\ IsList(new) /\ Len(new) = Len(list) /\ ToSet(new) = ToSet(list)
        /\ new[1] = list[k]
        /\ \A j \in 2..Len(list) : new[j] = IF j <= k THEN list[j - 1] ELSE list[j]
    BY <1>2, <2>4, InFrontEntry
  <2>6. new[k] = prev /\ k \in 1..Len(new)
    BY <1>7, <2>1, <2>2, <2>5
  <2>7. it = IF k = Len(new) THEN End ELSE new[k + 1]
    <3>1. k # Len(list) => k + 1 \in 2..Len(list) /\ ~(k + 1 <= k)
      BY <1>7
    <3>2. k # Len(list) => new[k + 1] = list[k + 1]
      BY <2>5, <3>1
    <3> QED
      BY <1>3, <2>5, <3>2
  <2>8. \A j \in 1..k : Expected(new[j]) <= head[new[j]]
    <3> SUFFICES ASSUME NEW j \in 1..k PROVE Expected(new[j]) <= head[new[j]]
      OBVIOUS
    <3>1. CASE j = 1
      BY <1>7, <1>8, <2>1, <2>5, <3>1
    <3>2. CASE j # 1
      <4>1. j \in 2..Len(list) /\ j <= k /\ j - 1 \in 1..k
        BY <1>7, <3>2
      <4>2. new[j] = list[j - 1]
        BY <2>5, <4>1
      <4> QED
        BY <1>8, <4>1, <4>2
    <3> QED
      BY <3>1, <3>2
  <2>9. Visit(new, new[k], IF k = Len(new) THEN End ELSE new[k + 1])
    BY <1>1, <1>6, <1>10, <2>6, <2>7
  <2>10. /\ CallTyped' /\ Walk'
         /\ pc' = "idle" => k = Len(new)
    <3>1. new = readers'[call.group] /\ UNCHANGED head /\ pc # "idle"
      BY <1>1 DEF flows
    <3> HIDE DEF list, new
    <3> QED
      BY <2>5, <2>6, <2>8, <2>9, <3>1, VisitStep
  <2>11. pc' = "idle" => \A r \in ToSet(list) : Expected(r) <= head[r]
    <3> SUFFICES ASSUME pc' = "idle", NEW r \in ToSet(new) PROVE Expected(r) <= head[r]
      BY <2>5
    <3>1. PICK j \in 1..Len(new) : new[j] = r
      BY <2>5, ListElements
    <3> QED
      BY <2>8, <2>10, <3>1
  <2> QED
    BY <1>1, <1>2, <1>3, <1>4, <1>6, <1>7, <1>10, <2>5, <2>10, <2>11
<1> QED
  BY <1>9, <1>10

LEMMA ArrivalStep ==
  ASSUME GroupInv, DataArrived
  PROVE  /\ GroupInv'
         /\ pc' = "idle" => \A r \in joined[call.group] : Expected(r) <= head[r]
<1> DEFINE g == call.group
           new == readers'[g]
<1>1. /\ g \in Groups /\ IsList(new) /\ ToSet(new) = ToSet(readers[g]) /\ Seen \in 0..MaxTime
      /\ maxObservedSourceDelay' = [maxObservedSourceDelay EXCEPT ![g][current] = Seen]
      /\ readers' = [readers EXCEPT ![g] = new]
      /\ CallTyped' /\ Walk'
      /\ pc' = "idle" => \A r \in ToSet(readers[g]) : Expected(r) <= head[r]
  BY ArrivalIs
<1>2. UNCHANGED <<now, flows, references, minValidSlices, joined>>
  BY DEF DataArrived
<1> HIDE DEF g, new
<1>3. Lists'
  <2>1. new \in Seq(Readers)
    BY <1>1 DEF IsList
  <2> QED
    BY <1>1, <1>2, <2>1 DEF GroupInv, Lists
<1>4. TablesTyped'
  BY <1>1, <1>2 DEF GroupInv, TablesTyped
<1>5. WorldTyped' /\ Alive'
  BY <1>2 DEF GroupInv, WorldTyped, Alive, flows
<1>6. ToSet(readers[g]) = joined[g]
  BY <1>1 DEF GroupInv, Lists
<1> QED
  BY <1>1, <1>3, <1>4, <1>5, <1>6 DEF GroupInv, g

LEMMA GroupStep ==
  ASSUME GroupInv, [Next]_vars
  PROVE  GroupInv'
<1>1. CASE UNCHANGED vars
  BY <1>1 DEF vars, flows, lists, walk, GroupInv, WorldTyped, TablesTyped, CallTyped, Lists, Alive, Walk, At, Expected
<1>2. CASE Tick \/ \E r \in Readers : Commit(r) \/ GetFlowReader(r)
  BY <1>2, WorldStep
<1>3. CASE \E r \in Readers : ReleaseReader(r)
  BY <1>3, ReleaseStep
<1>4. CASE \E g \in Groups, r \in Readers : RemoveReader(g, r)
  BY <1>4, RemoveStep
<1>5. CASE \E g \in Groups, r \in Readers, n \in MinSlices \cup {TotalSlices} : AddReader(g, r, n)
  BY <1>5, AddStep
<1>6. CASE \E g \in Groups, t \in Origins, timeout \in Timeouts : WaitForDataAt(g, t, timeout)
  BY <1>6, StartStep
<1>7. CASE Wait
  BY <1>7, CheckStep, ArrivalStep, FailStep DEF Wait
<1> QED
  BY <1>1, <1>2, <1>3, <1>4, <1>5, <1>6, <1>7 DEF Next

LEMMA Inductive == Spec => []GroupInv
  BY InvInit, GroupStep, PTL DEF Spec

-----------------------------------------------------------------------------
(* Every variable of the groups, the readers and a wait keeps its type,    *)
(* and no reader is ever in a list twice.                                  *)
THEOREM TypeCorrect == Spec => []TypeOK
  BY Inductive, InvTypes, PTL

(* releaseReader: the last release takes a reader out of every group, so   *)
(* no group points at a reader that was destroyed.                         *)
THEOREM GroupsNeverDangle == Spec => []NoDanglingReader
<1>1. GroupInv => NoDanglingReader
  BY DEF GroupInv, Lists, Alive, NoDanglingReader
<1> QED
  BY <1>1, Inductive, PTL

(* waitForDataAt: a wait that succeeds has met every member of the group,  *)
(* for any flows, rates and timestamps, although it moves entries of the   *)
(* list it walks.                                                          *)
THEOREM WaitLeavesNobodyBehind == Spec => DataAvailable
<1> DEFINE Available ==
        Succeeds =>
            \A r \in joined[call.group] :
                2 * call.origin * Rate[r].num < (2 * head[r] + 1) * Second * Rate[r].den
<1>1. GroupInv /\ [Next]_vars => [Available]_vars
  <2> SUFFICES ASSUME GroupInv, Next, Succeeds, NEW r \in joined[call.group]
               PROVE  2 * call.origin * Rate[r].num < (2 * head[r] + 1) * Second * Rate[r].den
    OBVIOUS
  <2>1. Wait
    BY DEF Next, Succeeds, Tick, Commit, GetFlowReader, ReleaseReader, RemoveReader, AddReader,
           WaitForDataAt, walk
  <2>2. Expected(r) <= head[r]
    BY <2>1, CheckStep, ArrivalStep, FailStep DEF Wait, Succeeds
  <2>3. call.group \in Groups /\ call.origin \in Nat /\ r \in Readers
    BY CallIs DEF GroupInv, TablesTyped
  <2>4. Rate[r] \in ValidRates /\ head[r] \in Nat
    BY <2>3, Sizes DEF GroupInv, WorldTyped, Indexes
  <2> QED
    BY <2>2, <2>3, <2>4, IndexReached DEF Expected
<1> QED
  BY <1>1, Inductive, PTL DEF Spec, DataAvailable

(* waitForDataAt: a step of a wait loses no member of the list and keeps   *)
(* the flow with the greatest delay in front, once it is there.            *)
THEOREM SlowestStaysFirst == Spec => ReorderingKeepsOrder
<1> DEFINE Kept(g) ==
        pc = "wait" =>
            /\ ToSet(readers'[g]) = ToSet(readers[g])
            /\ SlowestFirst(g) => SlowestFirst(g)'
<1>1. ASSUME GroupInv, [Next]_vars PROVE [\A g \in Groups : Kept(g)]_vars
  <2> SUFFICES ASSUME Next, pc = "wait", NEW g \in Groups PROVE Kept(g)
    BY <1>1
  <2> DEFINE list == readers[g]
             new == readers'[g]
             delay == maxObservedSourceDelay[g]
             later == maxObservedSourceDelay'[g]
  <2>1. CASE DataArrived /\ g = call.group
    <3>1. /\ IsList(list) /\ IsList(new) /\ ToSet(new) = ToSet(list)
          /\ Seen \in 0..MaxTime /\ Seen >= delay[current]
          /\ maxObservedSourceDelay' = [maxObservedSourceDelay EXCEPT ![g][current] = Seen]
          /\ Len(list) >= 1 /\ Len(new) = Len(list) /\ Len(list) \in Nat /\ current \in ToSet(list)
          /\ ~Moved => new = list
          /\ Moved => new[1] = current
      BY <1>1, <2>1, ArrivalIs
    <3>2. Head(list) = list[1] /\ Head(new) = new[1] /\ list[1] \in ToSet(list) /\ new[1] \in ToSet(list)
      BY <3>1, ListElements
    <3>3. ToSet(list) \subseteq Readers
      BY <3>1, ListElements
    <3>4. /\ \A r \in Readers : delay[r] \in 0..MaxTime /\ MaxTime \in Nat
          /\ \A r \in Readers : later[r] = IF r = current THEN Seen ELSE delay[r]
      BY <1>1, <3>1, <3>3, Sizes DEF GroupInv, TablesTyped
    <3>5. Moved <=> Seen > delay[current] /\ current # list[1] /\ Seen > delay[list[1]]
      BY <2>1, <3>2 DEF Moved
    <3> HIDE DEF list, new, delay, later
    <3>6. ASSUME \A r \in ToSet(list) : delay[r] <= delay[list[1]], NEW r \in ToSet(new)
          PROVE  later[r] <= later[new[1]]
      <4>1. r \in ToSet(list) /\ r \in Readers /\ delay[r] <= delay[list[1]]
        BY <3>1, <3>3, <3>6
      <4>2. CASE Moved
        BY <3>1, <3>2, <3>3, <3>4, <3>5, <4>1, <4>2
      <4>3. CASE ~Moved
        BY <3>1, <3>2, <3>3, <3>4, <3>5, <4>1, <4>3
      <4> QED
        BY <4>2, <4>3
    <3> QED
      BY <3>1, <3>2, <3>6 DEF SlowestFirst, list, new, delay, later
  <2>2. CASE UNCHANGED <<readers[g], maxObservedSourceDelay[g]>>
    BY <2>2 DEF SlowestFirst
  <2>3. \/ DataArrived /\ g = call.group
        \/ UNCHANGED <<readers[g], maxObservedSourceDelay[g]>>
    <3>1. Tick \/ Wait \/ \E r \in Readers : Commit(r)
      BY DEF Next, GetFlowReader, ReleaseReader, RemoveReader, AddReader, WaitForDataAt
    <3>2. Tick \/ CheckHead \/ WaitFails => UNCHANGED <<readers, maxObservedSourceDelay>>
      BY DEF Tick, CheckHead, WaitFails, lists
    <3>3. ASSUME NEW r \in Readers, Commit(r) PROVE UNCHANGED <<readers, maxObservedSourceDelay>>
      BY <3>3 DEF Commit, lists
    <3>4. ASSUME DataArrived, g # call.group PROVE UNCHANGED <<readers[g], maxObservedSourceDelay[g]>>
      <4>1. /\ readers' = [readers EXCEPT ![call.group] = readers'[call.group]]
            /\ maxObservedSourceDelay' = [maxObservedSourceDelay EXCEPT ![call.group][current] = Seen]
        BY <1>1, <3>4, ArrivalIs
      <4> QED
        BY <1>1, <3>4, <4>1 DEF GroupInv, Lists, TablesTyped
    <3> QED
      BY <3>1, <3>2, <3>3, <3>4 DEF Wait
  <2> QED
    BY <2>1, <2>2, <2>3
<1> QED
  BY <1>1, Inductive, PTL DEF Spec, ReorderingKeepsOrder

=============================================================================
