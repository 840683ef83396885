------------------------ MODULE RCConnection_proofs ------------------------
(***************************************************************************)
(* What the write counters of a connected initiator promise, for any       *)
(* number of targets, endpoints, planes and failed connections.            *)
(***************************************************************************)
EXTENDS RCConnection, FiniteSetTheorems, TLAPS

-----------------------------------------------------------------------------
(* Queues: the entries that stay when endpoints are closed, and the        *)
(* completions of an endpoint that carry data.                             *)

Rank(left, i) == Cardinality({j \in left : j <= i})

LEMMA RankInjective ==
  ASSUME NEW n \in Nat, NEW left \in SUBSET (1..n)
  PROVE  /\ Cardinality(left) \in Nat
         /\ [i \in left |-> Rank(left, i)] \in Bijection(left, 1..Cardinality(left))
<1> DEFINE upto(i) == {j \in left : j <= i}
           f == [i \in left |-> Rank(left, i)]
<1>1. IsFiniteSet(left) /\ Cardinality(left) \in Nat
  <2>1. IsFiniteSet(1..n)
    BY FS_Interval
  <2>2. IsFiniteSet(left)
    BY <2>1, FS_Subset
  <2> QED
    BY <2>2, FS_CardinalityType
<1>2. ASSUME NEW i \in left
      PROVE  /\ IsFiniteSet(upto(i)) /\ Cardinality(upto(i)) \in 1..Cardinality(left)
  <2>1. IsFiniteSet(upto(i)) /\ Cardinality(upto(i)) <= Cardinality(left)
    BY <1>1, FS_Subset
  <2>2. i \in upto(i)
    OBVIOUS
  <2>3. Cardinality(upto(i)) \in Nat /\ Cardinality(upto(i)) # 0
    BY <2>1, <2>2, FS_CardinalityType, FS_EmptySet
  <2> QED
    BY <1>1, <2>1, <2>3
<1>3. ASSUME NEW i \in left, NEW k \in left, i < k
      PROVE  Rank(left, i) # Rank(left, k)
  <2>1. upto(i) \in SUBSET upto(k)
    <3>1. \A j \in left : j \in Nat /\ i \in Nat /\ k \in Nat
      OBVIOUS
    <3>2. \A j \in left : j <= i => j <= k
      BY <3>1, <1>3
    <3> QED
      BY <3>2
  <2>2. k \in upto(k) /\ k \notin upto(i)
    BY <1>3
  <2> QED
    BY <1>2, <2>1, <2>2, FS_Subset DEF Rank
<1>4. f \in Injection(left, 1..Cardinality(left))
  <2>1. f \in [left -> 1..Cardinality(left)]
    BY <1>2 DEF Rank
  <2>2. \A i, k \in left : f[i] = f[k] => i = k
    <3> SUFFICES ASSUME NEW i \in left, NEW k \in left, i # k PROVE f[i] # f[k]
      OBVIOUS
    <3>1. i < k \/ k < i
      OBVIOUS
    <3> QED
      BY <3>1, <1>3
  <2> QED
    BY <2>1, <2>2 DEF Injection, IsInjective
<1>5. Cardinality(1..Cardinality(left)) = Cardinality(left) /\ IsFiniteSet(1..Cardinality(left))
  BY <1>1, FS_Interval
<1>6. f \in Surjection(left, 1..Cardinality(left))
  BY <1>4, <1>5, FS_Injection
<1> QED
  BY <1>1, <1>4, <1>6 DEF Bijection

(* Without(q, closed) has the entries of the other endpoints, once each.   *)
LEMMA WithoutIsPart ==
  ASSUME NEW T, NEW q \in Seq(T), NEW closed
  PROVE  LET w == Without(q, closed)
         IN  /\ w \in Seq(T)
             /\ \E f \in [DOMAIN w -> DOMAIN q] :
                   /\ \A k \in DOMAIN w : w[k] = q[f[k]] /\ q[f[k]].id \notin closed
                   /\ \A k, l \in DOMAIN w : f[k] = f[l] => k = l
                   /\ \A i \in DOMAIN q : q[i].id \notin closed => \E k \in DOMAIN w : f[k] = i
<1> DEFINE left == {i \in DOMAIN q : q[i].id \notin closed}
           n == Cardinality(left)
           r == [i \in left |-> Rank(left, i)]
           at(k) == CHOOSE i \in left : Cardinality({j \in left : j <= i}) = k
           f == [k \in 1..n |-> at(k)]
           w == Without(q, closed)
<1>1. Len(q) \in Nat /\ DOMAIN q = 1..Len(q) /\ left \in SUBSET (1..Len(q))
  OBVIOUS
<1> HIDE DEF left
<1>2. n \in Nat /\ r \in Bijection(left, 1..n)
  BY <1>1, RankInjective
<1>3. \A k \in 1..n : at(k) \in left /\ Rank(left, at(k)) = k
  <2>1. \A k \in 1..n : \E i \in left : Rank(left, i) = k
    BY <1>2 DEF Bijection, Surjection
  <2> QED
    BY <2>1 DEF Rank
<1>4. \A i \in left : Rank(left, i) \in 1..n /\ at(Rank(left, i)) = i
  <2>1. \A i, k \in left : Rank(left, i) = Rank(left, k) => i = k
    BY <1>2 DEF Bijection, Injection, IsInjective
  <2>2. \A i \in left : Rank(left, i) \in 1..n
    BY <1>2 DEF Bijection, Injection
  <2>3. \A i \in left : at(Rank(left, i)) \in left /\ Rank(left, at(Rank(left, i))) = Rank(left, i)
    <3> HIDE DEF at
    <3> QED
      BY <2>2, <1>3
  <2> HIDE DEF at
  <2> QED
    BY <2>1, <2>2, <2>3
<1>5. w = [k \in 1..n |-> q[at(k)]]
  BY DEF Without, left
<1> HIDE DEF at, w
<1>6. w \in Seq(T) /\ DOMAIN w = 1..n
  <2>1. \A k \in 1..n : q[at(k)] \in T
    <3>1. \A i \in left : q[i] \in T
      BY <1>1
    <3> QED
      BY <3>1, <1>3
  <2> QED
    BY <1>2, <1>5, <2>1
<1>7. f \in [DOMAIN w -> DOMAIN q]
  BY <1>1, <1>3, <1>6
<1>8. \A k \in DOMAIN w : w[k] = q[f[k]] /\ q[f[k]].id \notin closed
  BY <1>3, <1>5, <1>6 DEF left
<1>9. \A k, l \in DOMAIN w : f[k] = f[l] => k = l
  BY <1>3, <1>6
<1>10. \A i \in DOMAIN q : q[i].id \notin closed => \E k \in DOMAIN w : f[k] = i
  BY <1>4, <1>6 DEF left
<1> QED
  BY <1>6, <1>7, <1>8, <1>9, <1>10 DEF w

(* The completions in a queue that an endpoint has to count.               *)
DataOf(q, id) == {i \in DOMAIN q : q[i].id = id /\ q[i].ok}

Data(q, id) == Cardinality(DataOf(q, id))

LEMMA DataTyped ==
  ASSUME NEW T, NEW q \in Seq(T), NEW id
  PROVE  IsFiniteSet(DataOf(q, id)) /\ Data(q, id) \in Nat
<1>1. IsFiniteSet(1..Len(q))
  BY FS_Interval
<1>2. DataOf(q, id) \in SUBSET (1..Len(q))
  BY DEF DataOf
<1> QED
  BY <1>1, <1>2, FS_Subset, FS_CardinalityType DEF Data

LEMMA DataEmpty ==
  ASSUME NEW id
  PROVE  Data(<<>>, id) = 0
<1>1. DataOf(<<>>, id) = {}
  BY DEF DataOf
<1> QED
  BY <1>1, FS_EmptySet DEF Data

LEMMA DataAppend ==
  ASSUME NEW T, NEW q \in Seq(T), NEW c \in T, NEW id
  PROVE  Data(Append(q, c), id) = IF c.id = id /\ c.ok THEN Data(q, id) + 1 ELSE Data(q, id)
<1> DEFINE n == Len(q) + 1
<1>1. /\ Append(q, c) \in Seq(T) /\ DOMAIN Append(q, c) = 1..n
      /\ Append(q, c)[n] = c /\ \A i \in 1..Len(q) : Append(q, c)[i] = q[i]
  OBVIOUS
<1>2. IsFiniteSet(DataOf(q, id)) /\ n \notin DataOf(q, id)
  <2>1. n \notin DataOf(q, id)
    BY DEF DataOf
  <2> QED
    BY <2>1, DataTyped
<1>3. CASE c.id = id /\ c.ok
  <2>1. DataOf(Append(q, c), id) = DataOf(q, id) \cup {n}
    BY <1>1, <1>3 DEF DataOf
  <2>2. Cardinality(DataOf(q, id) \cup {n}) = Cardinality(DataOf(q, id)) + 1
    <3> HIDE DEF n
    <3> QED
      BY <1>2, FS_AddElement
  <2> QED
    BY <1>3, <2>1, <2>2 DEF Data
<1>4. CASE ~(c.id = id /\ c.ok)
  <2>1. DataOf(Append(q, c), id) = DataOf(q, id)
    BY <1>1, <1>4 DEF DataOf
  <2> QED
    BY <1>4, <2>1 DEF Data
<1> QED
  BY <1>3, <1>4

LEMMA DataTail ==
  ASSUME NEW T, NEW q \in Seq(T), q # <<>>, NEW id
  PROVE  Data(q, id) = IF Head(q).id = id /\ Head(q).ok THEN Data(Tail(q), id) + 1 ELSE Data(Tail(q), id)
<1> DEFINE rest == DataOf(q, id) \ {1}
           shift == [i \in DataOf(Tail(q), id) |-> i + 1]
<1>1. /\ Tail(q) \in Seq(T) /\ Len(q) \in Nat \ {0} /\ DOMAIN q = 1..Len(q)
      /\ DOMAIN Tail(q) = 1..(Len(q) - 1) /\ Head(q) = q[1]
      /\ \A i \in 1..(Len(q) - 1) : Tail(q)[i] = q[i + 1]
  OBVIOUS
<1>2. shift \in Bijection(DataOf(Tail(q), id), rest)
  <2>1. \A i \in DataOf(Tail(q), id) : i \in Nat \ {0} /\ i + 1 \in rest
    BY <1>1 DEF DataOf
  <2>2. \A i \in rest : i - 1 \in DataOf(Tail(q), id) /\ (i - 1) + 1 = i
    BY <1>1 DEF DataOf
  <2>3. shift \in Injection(DataOf(Tail(q), id), rest)
    BY <2>1 DEF Injection, IsInjective
  <2>4. \A i \in rest : \E k \in DataOf(Tail(q), id) : shift[k] = i
    BY <2>2
  <2> QED
    BY <2>3, <2>4 DEF Bijection, Surjection, Injection
<1>3. IsFiniteSet(DataOf(q, id)) /\ IsFiniteSet(DataOf(Tail(q), id)) /\ Data(q, id) \in Nat
  BY <1>1, DataTyped
<1>4. Cardinality(rest) = Data(Tail(q), id)
  BY <1>2, <1>3, FS_Bijection DEF Data, ExistsBijection
<1>5. 1 \in DataOf(q, id) <=> Head(q).id = id /\ Head(q).ok
  BY <1>1 DEF DataOf
<1>6. Cardinality(rest) = IF 1 \in DataOf(q, id) THEN Data(q, id) - 1 ELSE Data(q, id)
  BY <1>3, FS_RemoveElement DEF Data
<1> QED
  BY <1>3, <1>4, <1>5, <1>6

LEMMA DataWithout ==
  ASSUME NEW T, NEW q \in Seq(T), NEW closed, NEW id
  PROVE  Data(Without(q, closed), id) = IF id \in closed THEN 0 ELSE Data(q, id)
<1> DEFINE w == Without(q, closed)
<1>1. PICK f \in [DOMAIN w -> DOMAIN q] :
         /\ \A k \in DOMAIN w : w[k] = q[f[k]] /\ q[f[k]].id \notin closed
         /\ \A k, l \in DOMAIN w : f[k] = f[l] => k = l
         /\ \A i \in DOMAIN q : q[i].id \notin closed => \E k \in DOMAIN w : f[k] = i
  BY WithoutIsPart
<1>2. w \in Seq(T)
  BY WithoutIsPart
<1> HIDE DEF w
<1>3. CASE id \in closed
  <2>1. DataOf(w, id) = {}
    BY <1>1, <1>3 DEF DataOf
  <2> QED
    BY <1>3, <2>1, FS_EmptySet DEF Data, w
<1>4. CASE id \notin closed
  <2> DEFINE g == [k \in DataOf(w, id) |-> f[k]]
  <2>1. \A k \in DataOf(w, id) : f[k] \in DataOf(q, id)
    BY <1>1 DEF DataOf
  <2>2. \A i \in DataOf(q, id) : \E k \in DataOf(w, id) : f[k] = i
    BY <1>1, <1>4 DEF DataOf
  <2>3. \A k, l \in DataOf(w, id) : f[k] = f[l] => k = l
    BY <1>1 DEF DataOf
  <2>4. g \in Bijection(DataOf(w, id), DataOf(q, id))
    BY <2>1, <2>2, <2>3 DEF Bijection, Surjection, Injection, IsInjective
  <2>5. IsFiniteSet(DataOf(w, id))
    BY <1>2, DataTyped
  <2> QED
    BY <1>4, <2>4, <2>5, FS_Bijection DEF Data, ExistsBijection, w
<1> QED
  BY <1>3, <1>4

(* What the initiator waits for is counted in its own queue.               *)
LEMMA OutstandingIs == \A id : Outstanding(id) = Len(wire[id]) + Data(cq, id)
  BY DEF Outstanding, Data, DataOf

(* The entries of w are entries of q, each at most once.                   *)
PartOf(w, q) ==
    \E f \in [DOMAIN w -> DOMAIN q] :
        /\ \A k \in DOMAIN w : w[k] = q[f[k]]
        /\ \A k, l \in DOMAIN w : f[k] = f[l] => k = l

LEMMA PartOfItself == ASSUME NEW q PROVE PartOf(q, q)
<1> DEFINE f == [k \in DOMAIN q |-> k]
<1>1. f \in [DOMAIN q -> DOMAIN q]
  OBVIOUS
<1>2. \A k \in DOMAIN q : q[k] = q[f[k]]
  OBVIOUS
<1>3. \A k, l \in DOMAIN q : f[k] = f[l] => k = l
  OBVIOUS
<1> QED
  BY <1>1, <1>2, <1>3 DEF PartOf

LEMMA PartOfTail ==
  ASSUME NEW T, NEW q \in Seq(T), q # <<>>
  PROVE  /\ PartOf(Tail(q), q) /\ Tail(q) \in Seq(T)
         /\ Head(q) \in T /\ 1 \in DOMAIN q /\ Head(q) = q[1]
         /\ \A k \in DOMAIN Tail(q) : k + 1 \in DOMAIN q /\ k + 1 # 1 /\ Tail(q)[k] = q[k + 1]
<1>1. /\ Tail(q) \in Seq(T) /\ Head(q) \in T /\ 1 \in DOMAIN q /\ Head(q) = q[1]
      /\ \A k \in DOMAIN Tail(q) : k \in Nat /\ k + 1 \in DOMAIN q /\ k + 1 # 1 /\ Tail(q)[k] = q[k + 1]
  OBVIOUS
<1> DEFINE f == [k \in DOMAIN Tail(q) |-> k + 1]
<1>2. f \in [DOMAIN Tail(q) -> DOMAIN q]
  BY <1>1
<1>3. \A k \in DOMAIN Tail(q) : Tail(q)[k] = q[f[k]]
  BY <1>1
<1>4. \A k, l \in DOMAIN Tail(q) : f[k] = f[l] => k = l
  BY <1>1
<1> QED
  BY <1>1, <1>2, <1>3, <1>4 DEF PartOf

LEMMA PartOfWithout ==
  ASSUME NEW T, NEW q \in Seq(T), NEW v \in Seq(T), PartOf(v, q), NEW closed
  PROVE  /\ PartOf(Without(v, closed), q)
         /\ Without(v, closed) \in Seq(T)
         /\ \A k \in DOMAIN Without(v, closed) : Without(v, closed)[k].id \notin closed
<1> DEFINE w == Without(v, closed)
<1>1. PICK f \in [DOMAIN w -> DOMAIN v] :
         /\ \A k \in DOMAIN w : w[k] = v[f[k]] /\ v[f[k]].id \notin closed
         /\ \A k, l \in DOMAIN w : f[k] = f[l] => k = l
  BY WithoutIsPart
<1>2. w \in Seq(T)
  BY WithoutIsPart
<1>3. PICK g \in [DOMAIN v -> DOMAIN q] :
         /\ \A k \in DOMAIN v : v[k] = q[g[k]]
         /\ \A k, l \in DOMAIN v : g[k] = g[l] => k = l
  BY DEF PartOf
<1> HIDE DEF w
<1> DEFINE h == [k \in DOMAIN w |-> g[f[k]]]
<1>4. h \in [DOMAIN w -> DOMAIN q]
  BY <1>1, <1>3
<1>5. \A k \in DOMAIN w : w[k] = q[h[k]]
  BY <1>1, <1>3
<1>6. \A k, l \in DOMAIN w : h[k] = h[l] => k = l
  BY <1>1, <1>3
<1>7. PartOf(w, q)
  BY <1>4, <1>5, <1>6 DEF PartOf
<1> QED
  BY <1>1, <1>2, <1>7 DEF w

(* Is there an entry of the endpoint?                                      *)
Mentions(q, id) == \E i \in DOMAIN q : q[i].id = id

LEMMA MentionsPart ==
  ASSUME NEW q, NEW w, PartOf(w, q), NEW id, Mentions(w, id)
  PROVE  Mentions(q, id)
  BY DEF PartOf, Mentions

LEMMA UnmentionedHasNoData ==
  ASSUME NEW q, NEW id, ~Mentions(q, id)
  PROVE  Data(q, id) = 0
<1>1. DataOf(q, id) = {}
  BY DEF DataOf, Mentions
<1> QED
  BY <1>1, FS_EmptySet DEF Data

-----------------------------------------------------------------------------
(* The inductive invariant.                                                *)

Endpoint   == [st : States, rested : BOOLEAN, pending : 0..MaxPending]
Completion == [id : Ids, ok : BOOLEAN]
Event      == [id : Ids, event : Events]
Target     == [st : {"Listening", "Waiting", "Connected"}, peer : Ids \cup {NoPeer},
               eq : Seq([id : Ids, event : Events \cup {"Request"}]), cq : 0..TargetDepth]
Links      == {"none", "requested", "queued", "accepted", "up", "closing", "down"}
Pcs        == {"app", "activate", "cq", "eq", "sleep", "crashed"}

InitiatorTyped ==
    /\ ep \in [Ids -> Endpoint] /\ info \in [Ids -> Peers] /\ unused \in SUBSET Ids
    /\ pc \in Pcs /\ mode \in Modes \cup {"poll"}

QueuesTyped == cq \in Seq(Completion) /\ eq \in Seq(Event)

FabricTyped ==
    link \in [Ids -> Links] /\ wire \in [Ids -> Seq(BOOLEAN)] /\ failures \in 0..MaxFailures

TargetsTyped == target \in [Peers -> Target]

TypeInv == InitiatorTyped /\ QueuesTyped /\ FabricTyped /\ TargetsTyped

(* An endpoint that does not exist has no connection and writes nothing.   *)
Quiet == \A id \in Ids : ~HasEndpoint(ep[id]) => wire[id] = <<>> /\ link[id] = "none"

(* Only the initiator shuts connections down, and then it flushes.         *)
Closing == \A id \in Ids : link[id] = "closing" => ep[id].st = "Flushing"

(* Unless a connection failed, one is down because it was shut down.       *)
Steady == failures = 0 => \A id \in Ids : link[id] = "down" => ep[id].st = "Flushing"

(* The end of a connection is reported when it is down, and once.          *)
Ends(x) == x.event # "Connected"

EndsAreDown == \A i \in DOMAIN eq : Ends(eq[i]) => link[eq[i].id] = "down"

EndsOnce == \A i, k \in DOMAIN eq : i # k /\ Ends(eq[i]) /\ Ends(eq[k]) => eq[i].id # eq[k].id

(* While events are drained an endpoint flushes only because the end of    *)
(* its connection was among them.                                          *)
Ended(id, v) == link[id] = "down" /\ \A i \in DOMAIN v : v[i].id = id => ~Ends(v[i])

FlushedByEnd == pc = "eq" => \A id \in Ids : ep[id].st = "Flushing" => Ended(id, eq)

(* No completion is left of an endpoint that is gone, or about to be       *)
(* evicted.                                                                *)
Forgotten == \A id \in Ids : ep[id].st = "Absent" => ~Mentions(cq, id)

DoneDrained == pc = "eq" => \A id \in Ids : ep[id].st = "Done" => ~Mentions(cq, id)

UnusedAbsent == \A id \in unused : ep[id].st = "Absent"

(* What the protocol of endpoint e waits for, when n writes are            *)
(* outstanding: one that did not fail is not idle with writes to wait for. *)
Counts(e) == e.st \in {"Idle", "Connecting", "Connected"}

Covers(e, n, failed) ==
    Counts(e) => /\ e.pending >= n
                 /\ failed = 0 => e.pending = n
                 /\ failed = 0 /\ e.st # "Connected" => e.pending = 0

Account == \A id \in Ids : Covers(ep[id], Len(wire[id]) + Data(cq, id), failures)

LinkInv == Quiet /\ Closing /\ Steady /\ EndsAreDown /\ EndsOnce

PassInv == FlushedByEnd /\ DoneDrained

ConnInv == TypeInv /\ LinkInv /\ PassInv /\ Forgotten /\ UnusedAbsent /\ Account

LEMMA Bounds ==
  /\ MaxPending \in Nat /\ TargetDepth \in Nat /\ MaxFailures \in Nat /\ Planes \in Nat \ {0}
  /\ 0 \in 0..MaxPending /\ 0 \in 0..TargetDepth /\ 0 \in 0..MaxFailures
<1>1. /\ MaxPending \in Nat /\ TargetDepth \in Nat \ {0} /\ MaxFailures \in Nat
      /\ Planes \in Nat \ {0}
  BY RCAssumption
<1> QED
  BY <1>1

LEMMA RecordsTyped ==
  /\ Absent \in Endpoint /\ FreshEndpoint \in Endpoint /\ Listener \in Target
  /\ \A id \in Ids : Accepted(id) \in Target
  BY Bounds DEF Absent, FreshEndpoint, Listener, Accepted, Endpoint, Target, States

LEMMA ConnInvInit == Init => ConnInv
<1> SUFFICES ASSUME Init PROVE ConnInv
  OBVIOUS
<1>1. TypeInv
  <2>1. (CHOOSE p \in Peers : TRUE) \in Peers
    BY RCAssumption
  <2>2. <<>> \in Seq(Completion) /\ <<>> \in Seq(Event) /\ <<>> \in Seq(BOOLEAN)
    OBVIOUS
  <2> QED
    BY <2>1, <2>2, Bounds, RecordsTyped
    DEF Init, TypeInv, InitiatorTyped, QueuesTyped, FabricTyped, TargetsTyped, Links, Pcs
<1>2. LinkInv
  BY DEF Init, LinkInv, Quiet, Closing, Steady, EndsAreDown, EndsOnce
<1>3. PassInv /\ Forgotten /\ UnusedAbsent
  BY DEF Init, PassInv, FlushedByEnd, DoneDrained, Forgotten, UnusedAbsent, Mentions, Absent
<1>4. Account
  BY DEF Init, Account, Covers, Counts, Absent
<1> QED
  BY <1>1, <1>2, <1>3, <1>4 DEF ConnInv

-----------------------------------------------------------------------------
(* What a step of the initiator's thread does to its endpoints, and what   *)
(* the fabric makes of it.                                                 *)

(* The states an endpoint may go to.                                       *)
Moves(a, b) ==
    /\ a.st = "Absent" => b.st = "Absent"
    /\ a.st = "Flushing" => b.st \in {"Flushing", "Done"}
    /\ HasEndpoint(b) => HasEndpoint(a) \/ (a.st = "Idle" /\ b.st = "Connecting")

(* The writes that go on when the endpoints become e.                      *)
Remaining(id, e) == IF id \in Closed(e) THEN 0 ELSE Len(wire[id])

(* The endpoints may become e when q and v is left of the queues.          *)
Legal(e, q, v) ==
    /\ \A id \in Ids : Moves(ep[id], e[id])
    /\ \A id \in Ids : e[id].st = "Absent" => ~Mentions(q, id)
    /\ \A id \in Ids : Covers(e[id], Remaining(id, e) + Data(q, id), failures)
    /\ pc' = "eq" => \A id \in Ids : /\ e[id].st = "Flushing" => Ended(id, v)
                                     /\ e[id].st = "Done" => ~Mentions(q, id)

LEMMA SettleTyped ==
  ASSUME TypeInv, NEW e \in [Ids -> Endpoint], NEW q \in Seq(Completion), NEW v \in Seq(Event),
         PartOf(q, cq), PartOf(v, eq), Settle(e, q, v),
         pc' \in Pcs, mode' \in Modes \cup {"poll"}, unused' = unused
  PROVE  TypeInv'
<1>1. InitiatorTyped'
  BY DEF TypeInv, InitiatorTyped, Settle
<1>2. QueuesTyped'
  <2>1. Without(q, Closed(e)) \in Seq(Completion)
    BY PartOfItself, PartOfWithout
  <2>2. Without(v, Closed(e)) \in Seq(Event)
    BY PartOfItself, PartOfWithout
  <2> QED
    BY <2>1, <2>2 DEF QueuesTyped, Settle
<1>3. FabricTyped'
  <2>1. <<>> \in Seq(BOOLEAN)
    OBVIOUS
  <2> QED
    BY <2>1 DEF TypeInv, FabricTyped, Links, Settle
<1>4. TargetsTyped'
  <2>1. ASSUME NEW p \in Peers, NEW id \in Closed(e) \cup ShutDown(e), Hears(p, id)
        PROVE  Notify(target[p], target[p].peer, "Shutdown") \in Target
    <3>1. target[p] \in Target /\ target[p].peer \in Ids
      BY <2>1 DEF TypeInv, TargetsTyped, Hears, Closed, ShutDown
    <3>2. [id |-> target[p].peer, event |-> "Shutdown"] \in [id : Ids, event : Events \cup {"Request"}]
      BY <3>1 DEF Events
    <3>3. target[p].eq \in Seq([id : Ids, event : Events \cup {"Request"}])
      BY <3>1 DEF Target
    <3>4. Append(target[p].eq, [id |-> target[p].peer, event |-> "Shutdown"])
             \in Seq([id : Ids, event : Events \cup {"Request"}])
      BY <3>2, <3>3
    <3> QED
      BY <3>1, <3>4 DEF Target, Notify
  <2> QED
    BY <2>1 DEF TypeInv, TargetsTyped, Settle
<1> QED
  BY <1>1, <1>2, <1>3, <1>4 DEF TypeInv

(* The connection of an endpoint after the step.                           *)
LEMMA LinkAfter ==
  ASSUME TypeInv, LinkInv, NEW e, NEW q, NEW v, Settle(e, q, v), NEW id \in Ids, Moves(ep[id], e[id])
  PROVE  /\ ep'[id] = e[id]
         /\ link'[id] = "closing" => e[id].st = "Flushing"
         /\ link'[id] = "down" <=> link[id] = "down" /\ id \notin Closed(e)
         /\ ~HasEndpoint(e[id]) => link'[id] = "none" /\ wire'[id] = <<>>
         /\ Len(wire'[id]) = Remaining(id, e)
         /\ id \in Closed(e) <=> HasEndpoint(ep[id]) /\ ~HasEndpoint(e[id])
<1> DEFINE closed == id \in Closed(e)
           shut   == id \in ShutDown(e)
<1>1. closed <=> HasEndpoint(ep[id]) /\ ~HasEndpoint(e[id])
  BY DEF Closed
<1>2. shut => ep[id].st = "Connected" /\ e[id].st = "Flushing" /\ link[id] = "up"
  BY DEF ShutDown
<1>3. /\ ep'[id] = e[id]
      /\ wire'[id] = IF closed THEN <<>> ELSE wire[id]
      /\ link'[id] = CASE closed -> "none" [] shut -> "closing"
                       [] ep[id].st = "Idle" /\ e[id].st = "Connecting" -> "requested"
                       [] OTHER -> link[id]
  BY DEF Settle
<1>4. /\ ~HasEndpoint(ep[id]) => wire[id] = <<>> /\ link[id] = "none"
      /\ link[id] = "closing" => ep[id].st = "Flushing"
  BY DEF LinkInv, Quiet, Closing
<1>5. \A s : s = "Flushing" <=> s \in {"Flushing"}
  OBVIOUS
<1> HIDE DEF closed, shut
<1>6. link'[id] = "closing" => e[id].st = "Flushing"
  BY <1>1, <1>2, <1>3, <1>4 DEF Moves, HasEndpoint
<1>7. link'[id] = "down" <=> link[id] = "down" /\ ~closed
  BY <1>1, <1>2, <1>3, <1>4 DEF Moves, HasEndpoint
<1>8. ~HasEndpoint(e[id]) => link'[id] = "none" /\ wire'[id] = <<>>
  BY <1>1, <1>2, <1>3, <1>4 DEF Moves, HasEndpoint
<1>9. Len(wire'[id]) = IF closed THEN 0 ELSE Len(wire[id])
  BY <1>3
<1> QED
  BY <1>1, <1>3, <1>6, <1>7, <1>8, <1>9 DEF closed, Remaining

(* Ends of connections that stay in the queue stay the only ones.          *)
LEMMA EndsOfPart ==
  ASSUME EndsAreDown, EndsOnce, NEW w, PartOf(w, eq)
  PROVE  /\ \A i \in DOMAIN w : Ends(w[i]) => link[w[i].id] = "down"
         /\ \A i, k \in DOMAIN w : i # k /\ Ends(w[i]) /\ Ends(w[k]) => w[i].id # w[k].id
  BY DEF EndsAreDown, EndsOnce, PartOf

LEMMA SettleKeepsLinks ==
  ASSUME TypeInv, LinkInv, NEW e \in [Ids -> Endpoint], NEW q \in Seq(Completion), NEW v \in Seq(Event),
         PartOf(v, eq), Settle(e, q, v), \A id \in Ids : Moves(ep[id], e[id])
  PROVE  LinkInv'
<1>1. Quiet'
  BY LinkAfter DEF Quiet
<1>2. Closing'
  BY LinkAfter DEF Closing
<1>3. Steady'
  <2> SUFFICES ASSUME failures = 0, NEW id \in Ids, link'[id] = "down" PROVE e[id].st = "Flushing"
    BY LinkAfter DEF Steady, Settle
  <2>1. link[id] = "down" /\ ep[id].st = "Flushing" /\ ~(HasEndpoint(ep[id]) /\ ~HasEndpoint(e[id]))
    BY LinkAfter DEF LinkInv, Steady
  <2> QED
    BY <2>1 DEF HasEndpoint, Moves
<1>4. /\ PartOf(eq', eq) /\ eq' \in Seq(Event)
      /\ \A k \in DOMAIN eq' : eq'[k].id \notin Closed(e)
  <2>1. eq \in Seq(Event)
    BY DEF TypeInv, QueuesTyped
  <2>2. eq' = Without(v, Closed(e))
    BY DEF Settle
  <2> QED
    BY <2>1, <2>2, PartOfWithout
<1>5. \A i \in DOMAIN eq' : eq'[i].id \in Ids
  <2>1. \A i \in DOMAIN eq' : eq'[i] \in Event
    BY <1>4
  <2> QED
    BY <2>1 DEF Event
<1>6. EndsAreDown'
  BY <1>4, <1>5, EndsOfPart, LinkAfter DEF LinkInv, EndsAreDown
<1>7. EndsOnce'
  BY <1>4, EndsOfPart DEF LinkInv, EndsOnce
<1> QED
  BY <1>1, <1>2, <1>3, <1>6, <1>7 DEF LinkInv

LEMMA SettleKeeps ==
  ASSUME ConnInv, NEW e \in [Ids -> Endpoint], NEW q \in Seq(Completion), NEW v \in Seq(Event),
         PartOf(q, cq), PartOf(v, eq), Settle(e, q, v), Legal(e, q, v),
         pc' \in Pcs, mode' \in Modes \cup {"poll"}, unused' = unused
  PROVE  ConnInv'
<1>1. TypeInv /\ LinkInv
  BY DEF ConnInv
<1>2. TypeInv' /\ LinkInv'
  BY <1>1, SettleTyped, SettleKeepsLinks DEF Legal
<1>3. \A id \in Ids : /\ ep'[id] = e[id]
                      /\ link[id] = "down" /\ id \notin Closed(e) => link'[id] = "down"
                      /\ Len(wire'[id]) = Remaining(id, e)
                      /\ id \in Closed(e) <=> HasEndpoint(ep[id]) /\ ~HasEndpoint(e[id])
  BY <1>1, LinkAfter DEF Legal
<1>4. PartOf(cq', q) /\ PartOf(eq', v)
  BY PartOfItself, PartOfWithout DEF Settle
<1>5. \A id \in Ids : ~Mentions(q, id) => ~Mentions(cq', id)
  BY <1>4, MentionsPart
<1>6. FlushedByEnd'
  <2> SUFFICES ASSUME pc' = "eq", NEW id \in Ids, e[id].st = "Flushing" PROVE Ended(id, eq)'
    BY <1>3 DEF FlushedByEnd
  <2>1. Ended(id, v) /\ id \notin Closed(e)
    BY <1>3 DEF Legal, HasEndpoint
  <2>2. link'[id] = "down"
    BY <1>3, <2>1 DEF Ended
  <2>3. \A i \in DOMAIN eq' : eq'[i].id = id => ~Ends(eq'[i])
    BY <1>4, <2>1 DEF Ended, PartOf
  <2> QED
    BY <2>2, <2>3 DEF Ended
<1>7. DoneDrained'
  BY <1>3, <1>5 DEF DoneDrained, Legal
<1>8. Forgotten'
  BY <1>3, <1>5 DEF Forgotten, Legal
<1>9. UnusedAbsent'
  <2>1. unused \in SUBSET Ids
    BY <1>1 DEF TypeInv, InitiatorTyped
  <2> QED
    BY <1>3, <2>1 DEF ConnInv, UnusedAbsent, Legal, Moves
<1>10. Account'
  <2> SUFFICES ASSUME NEW id \in Ids PROVE Covers(e[id], Len(wire'[id]) + Data(cq', id), failures')
    BY <1>3 DEF Account
  <2>1. Covers(e[id], Remaining(id, e) + Data(q, id), failures) /\ failures' = failures
    BY DEF Legal, Settle
  <2>2. Data(cq', id) = Data(q, id) \/ (id \in Closed(e) /\ Data(cq', id) = 0)
    BY DataWithout DEF Settle
  <2>3. e[id].pending \in Nat /\ Data(q, id) \in Nat /\ Data(cq', id) \in Nat
    BY <2>2, DataTyped, Bounds DEF Endpoint
  <2>4. id \in Closed(e) => Remaining(id, e) = 0 /\ e[id].st # "Connected"
    BY DEF Remaining, Closed, HasEndpoint
  <2>5. CASE Data(cq', id) = Data(q, id)
    BY <1>3, <2>1, <2>5 DEF Covers
  <2>6. CASE id \in Closed(e) /\ Data(cq', id) = 0
    BY <1>3, <2>1, <2>3, <2>4, <2>6 DEF Covers
  <2> QED
    BY <2>2, <2>5, <2>6
<1> QED
  BY <1>2, <1>6, <1>7, <1>8, <1>9, <1>10 DEF ConnInv, PassInv

-----------------------------------------------------------------------------
(* The handlers of an endpoint.                                            *)

LEMMA ShutdownEndpointDoes ==
  ASSUME NEW a \in Endpoint
  PROVE  /\ ShutdownEndpoint(a) \in Endpoint /\ Moves(a, ShutdownEndpoint(a))
         /\ ShutdownEndpoint(a).st = "Absent" => a.st = "Absent"
         /\ ~Counts(ShutdownEndpoint(a))
<1>1. a.st \in States /\ Finish(a) \in Endpoint /\ Flush(a) \in Endpoint
  BY Bounds DEF Endpoint, States, Finish, Flush
<1>2. Finish(a).st = "Done" /\ Flush(a).st = "Flushing"
  BY DEF Endpoint, Finish, Flush
<1> QED
  BY <1>1, <1>2 DEF ShutdownEndpoint, Moves, Counts, HasEndpoint, States

LEMMA TerminateDoes ==
  ASSUME NEW a \in Endpoint
  PROVE  /\ Terminate(a) \in Endpoint /\ Moves(a, Terminate(a))
         /\ Terminate(a).st = "Absent" => a.st = "Absent"
         /\ Terminate(a).st # "Flushing"
         /\ Counts(Terminate(a)) => Terminate(a) = a
<1>1. a.st \in States /\ Finish(a) \in Endpoint /\ Finish(a).st = "Done"
  BY DEF Endpoint, States, Finish
<1> QED
  BY <1>1 DEF Terminate, Moves, Counts, HasEndpoint, States

LEMMA ActivateDoes ==
  ASSUME NEW a \in Endpoint
  PROVE  /\ Activate(a) \in Endpoint /\ Moves(a, Activate(a))
         /\ Activate(a).st = "Absent" => a.st = "Absent"
         /\ HasEndpoint(a) => HasEndpoint(Activate(a))
         /\ \A n, failed : Covers(a, n, failed) => Covers(Activate(a), n, failed)
<1>1. CASE a.st = "Idle" /\ a.rested
  <2>1. Activate(a) = [a EXCEPT !.st = "Connecting", !.rested = FALSE]
    BY <1>1 DEF Activate
  <2>2. Activate(a) \in Endpoint /\ Activate(a).st = "Connecting" /\ Activate(a).pending = a.pending
    BY <2>1 DEF Endpoint, States
  <2> QED
    BY <1>1, <2>2 DEF Moves, HasEndpoint, Covers, Counts
<1>2. CASE ~(a.st = "Idle" /\ a.rested)
  BY <1>2 DEF Activate, Moves, HasEndpoint
<1> QED
  BY <1>1, <1>2

LEMMA ConsumeCompletionDoes ==
  ASSUME NEW a \in Endpoint, NEW ok \in BOOLEAN, ok /\ a.st = "Connected" => a.pending > 0
  PROVE  LET b == ConsumeCompletion(a, ok)
         IN  /\ b \in Endpoint /\ b.st = a.st /\ Moves(a, b)
             /\ b.pending = IF ok /\ a.st = "Connected" THEN a.pending - 1 ELSE a.pending
<1>1. CASE ok /\ a.st = "Connected"
  <2>1. a.pending - 1 \in 0..MaxPending
    BY <1>1, Bounds DEF Endpoint
  <2>2. ConsumeCompletion(a, ok) = [a EXCEPT !.pending = a.pending - 1]
    BY <1>1 DEF ConsumeCompletion
  <2> QED
    BY <1>1, <2>1, <2>2 DEF Endpoint, Moves, HasEndpoint
<1>2. CASE ~(ok /\ a.st = "Connected")
  BY <1>2 DEF ConsumeCompletion, Moves, HasEndpoint
<1> QED
  BY <1>1, <1>2

LEMMA ConsumeEventDoes ==
  ASSUME NEW a \in Endpoint, NEW event \in Events
  PROVE  LET b == ConsumeEvent(a, event)
         IN  /\ b \in Endpoint /\ Moves(a, b)
             /\ b.st = "Absent" => a.st = "Absent"
             /\ b.st = "Flushing" => \/ a.st = "Flushing" /\ event # "Error"
                                     \/ a.st = "Connected" /\ event = "Shutdown"
             /\ b.st = "Done" => a.st = "Done" \/ (a.st = "Flushing" /\ event = "Error")
             /\ Counts(b) => /\ Counts(a) /\ b.pending = a.pending
                             /\ \/ event = "Connected" \/ b = a
                                \/ event # "Connected" /\ HasEndpoint(a) /\ ~HasEndpoint(b)
             /\ Counts(b) /\ event = "Connected" => (HasEndpoint(a) => HasEndpoint(b))
             /\ Counts(b) /\ b.st # "Connected" /\ event = "Connected" => b = a
<1>1. a.st \in States /\ event \in {"Connected", "Error", "Shutdown"}
  BY DEF Endpoint, Events
<1>2. /\ Finish(a) \in Endpoint /\ Flush(a) \in Endpoint /\ Restart(a) \in Endpoint
      /\ [a EXCEPT !.st = "Connected"] \in Endpoint
  BY Bounds DEF Endpoint, States, Finish, Flush, Restart
<1>3. /\ Finish(a).st = "Done" /\ Flush(a).st = "Flushing" /\ Restart(a).st = "Idle"
      /\ Restart(a).pending = a.pending
      /\ [a EXCEPT !.st = "Connected"].st = "Connected"
      /\ [a EXCEPT !.st = "Connected"].pending = a.pending
  BY DEF Endpoint, Finish, Flush, Restart
<1>4. CASE a.st = "Connecting" /\ event = "Connected"
  BY <1>2, <1>3, <1>4 DEF ConsumeEvent, Moves, Counts, HasEndpoint
<1>5. CASE a.st \in {"Connecting", "Connected"} /\ event = "Error"
  BY <1>2, <1>3, <1>5 DEF ConsumeEvent, Moves, Counts, HasEndpoint
<1>6. CASE a.st = "Connecting" /\ event = "Shutdown"
  BY <1>2, <1>3, <1>6 DEF ConsumeEvent, Moves, Counts, HasEndpoint
<1>7. CASE a.st = "Connected" /\ event = "Shutdown"
  BY <1>2, <1>3, <1>7 DEF ConsumeEvent, Moves, Counts, HasEndpoint
<1>8. CASE a.st = "Flushing" /\ event = "Error"
  BY <1>2, <1>3, <1>8 DEF ConsumeEvent, Moves, Counts, HasEndpoint
<1>9. CASE \/ a.st \in {"Absent", "Idle", "Done"}
           \/ a.st = "Connected" /\ event = "Connected"
           \/ a.st = "Flushing" /\ event # "Error"
  <2>1. ConsumeEvent(a, event) = a
    BY <1>1, <1>9 DEF ConsumeEvent
  <2> QED
    BY <1>9, <2>1 DEF Moves, Counts, HasEndpoint
<1> QED
  BY <1>1, <1>4, <1>5, <1>6, <1>7, <1>8, <1>9 DEF States

LEMMA PostedDoes ==
  ASSUME NEW a \in Endpoint, NEW n \in Nat, a.st = "Connected" => a.pending + n <= MaxPending
  PROVE  /\ Posted(a, n) \in Endpoint /\ Posted(a, n).st = a.st
         /\ Posted(a, n).pending = IF a.st = "Connected" THEN a.pending + n ELSE a.pending
<1>1. CASE a.st = "Connected"
  <2>1. a.pending + n \in 0..MaxPending
    BY <1>1, Bounds DEF Endpoint
  <2>2. Posted(a, n) = [a EXCEPT !.pending = a.pending + n]
    BY <1>1 DEF Posted
  <2> QED
    BY <1>1, <2>1, <2>2 DEF Endpoint
<1>2. CASE a.st # "Connected"
  BY <1>2 DEF Posted
<1> QED
  BY <1>1, <1>2

-----------------------------------------------------------------------------
(* The steps of the initiator's thread.                                    *)

LEMMA InvGives ==
  ASSUME ConnInv
  PROVE  /\ cq \in Seq(Completion) /\ eq \in Seq(Event)
         /\ pc \in Pcs /\ mode \in Modes \cup {"poll"}
         /\ \A id \in Ids : /\ ep[id] \in Endpoint
                            /\ wire[id] \in Seq(BOOLEAN) /\ Len(wire[id]) \in Nat
                            /\ Data(cq, id) \in Nat
                            /\ ep[id].st = "Absent" => ~Mentions(cq, id)
                            /\ Covers(ep[id], Len(wire[id]) + Data(cq, id), failures)
  BY DataTyped
  DEF ConnInv, TypeInv, InitiatorTyped, QueuesTyped, FabricTyped, Forgotten, Account

LEMMA GotoTyped ==
  ASSUME NEW next \in Pcs, Goto(next), mode \in Modes \cup {"poll"}
  PROVE  pc' \in Pcs /\ mode' \in Modes \cup {"poll"} /\ pc' = next
  BY DEF Goto

(* An endpoint the step leaves alone.                                      *)
LEMMA Untouched ==
  ASSUME NEW e, NEW id \in Ids, e[id] = ep[id]
  PROVE  Moves(ep[id], e[id]) /\ Remaining(id, e) = Len(wire[id])
  BY DEF Moves, Remaining, Closed

(* A step to endpoints that stop counting or are as before, away from the  *)
(* queues.                                                                 *)
LEMMA StopsKeep ==
  ASSUME ConnInv, NEW e \in [Ids -> Endpoint], Settle(e, cq, eq),
         \A id \in Ids : /\ Moves(ep[id], e[id])
                         /\ e[id].st = "Absent" => ~Mentions(cq, id)
                         /\ Counts(e[id]) => e[id] = ep[id],
         pc' = "eq" => \A id \in Ids : /\ e[id].st = "Flushing" => Ended(id, eq)
                                       /\ e[id].st = "Done" => ~Mentions(cq, id),
         pc' \in Pcs, mode' \in Modes \cup {"poll"}, unused' = unused
  PROVE  ConnInv'
<1>1. \A id \in Ids : Covers(e[id], Remaining(id, e) + Data(cq, id), failures)
  <2> SUFFICES ASSUME NEW id \in Ids, Counts(e[id])
               PROVE  Covers(e[id], Remaining(id, e) + Data(cq, id), failures)
    BY DEF Covers
  <2> QED
    BY Untouched, InvGives
<1>2. Legal(e, cq, eq)
  BY <1>1 DEF Legal
<1> QED
  BY <1>2, InvGives, PartOfItself, SettleKeeps

LEMMA RemoveTargetKeeps ==
  ASSUME ConnInv, NEW p \in Peers, RemoveTarget(p)
  PROVE  ConnInv'
<1> DEFINE found == {id \in Present : info[id] = p}
           first == CHOOSE id \in found : \A other \in found : id <= other
           e == [ep EXCEPT ![first] = ShutdownEndpoint(@)]
<1>1. pc = "app" /\ Settle(e, cq, eq) /\ unused' = unused /\ pc' = pc /\ mode' = mode
  BY DEF RemoveTarget
<1>2. ep \in [Ids -> Endpoint]
  BY DEF ConnInv, TypeInv, InitiatorTyped
<1> HIDE DEF first
<1>3. \A id \in Ids : e[id] = IF id = first THEN ShutdownEndpoint(ep[id]) ELSE ep[id]
  BY <1>2
<1>4. \A id \in Ids : /\ e[id] \in Endpoint /\ Moves(ep[id], e[id])
                      /\ e[id].st = "Absent" => ep[id].st = "Absent"
                      /\ Counts(e[id]) => e[id] = ep[id]
  BY <1>2, <1>3, ShutdownEndpointDoes DEF Moves
<1>5. e \in [Ids -> Endpoint]
  BY <1>2, <1>4
<1> HIDE DEF e
<1> QED
  BY <1>1, <1>4, <1>5, InvGives, StopsKeep

LEMMA ActivateIdleKeeps ==
  ASSUME ConnInv, ActivateIdle
  PROVE  ConnInv'
<1> DEFINE e == [id \in Ids |-> Activate(ep[id])]
<1>1. Settle(e, cq, eq) /\ unused' = unused /\ pc' \in {"app", "cq"} /\ mode' \in Modes \cup {"poll"}
  <2>1. CASE pc = "app" /\ Present # {} /\ pc' = "cq" /\ mode' \in Modes
    BY <2>1 DEF ActivateIdle
  <2>2. CASE pc = "activate" /\ Goto(IF Present = {} THEN "app" ELSE "cq")
    BY <2>2, InvGives DEF ActivateIdle, Goto
  <2> QED
    BY <2>1, <2>2 DEF ActivateIdle
<1>2. \A id \in Ids : /\ e[id] \in Endpoint /\ Moves(ep[id], e[id])
                      /\ e[id].st = "Absent" => ep[id].st = "Absent"
                      /\ id \notin Closed(e)
                      /\ \A n, failed : Covers(ep[id], n, failed) => Covers(e[id], n, failed)
  BY InvGives, ActivateDoes DEF Closed
<1>3. e \in [Ids -> Endpoint]
  BY <1>2
<1> HIDE DEF e
<1>4. Legal(e, cq, eq)
  <2>1. \A id \in Ids : Covers(e[id], Remaining(id, e) + Data(cq, id), failures)
    BY <1>2, InvGives DEF Remaining
  <2> QED
    BY <1>1, <1>2, <2>1, InvGives DEF Legal
<1>5. pc' \in Pcs
  BY <1>1 DEF Pcs
<1> QED
  BY <1>1, <1>3, <1>4, <1>5, InvGives, PartOfItself, SettleKeeps

LEMMA TerminateKeeps ==
  ASSUME ConnInv, Settle([id \in Ids |-> Terminate(ep[id])], cq, eq), cq = <<>>,
         pc' \in Pcs, mode' \in Modes \cup {"poll"}, unused' = unused
  PROVE  ConnInv'
<1> DEFINE e == [id \in Ids |-> Terminate(ep[id])]
<1>1. \A id \in Ids : /\ e[id] \in Endpoint /\ Moves(ep[id], e[id])
                      /\ ~Mentions(cq, id) /\ e[id].st # "Flushing"
                      /\ Counts(e[id]) => e[id] = ep[id]
  BY InvGives, TerminateDoes DEF Mentions
<1>2. e \in [Ids -> Endpoint] /\ Settle(e, cq, eq)
  BY <1>1
<1> HIDE DEF e
<1> QED
  BY <1>1, <1>2, StopsKeep

LEMMA CompletionsDrainedKeeps ==
  ASSUME ConnInv, CompletionsDrained
  PROVE  ConnInv'
<1>1. "eq" \in Pcs
  BY DEF Pcs
<1> QED
  BY <1>1, InvGives, TerminateKeeps DEF CompletionsDrained

LEMMA WakesTyped ==
  ASSUME NEW e, Wakes(e), mode \in Modes \cup {"poll"}
  PROVE  pc' \in {"app", "activate"} /\ pc' \in Pcs /\ mode' \in Modes \cup {"poll"}
<1>1. "app" \in Pcs /\ "activate" \in Pcs
  BY DEF Pcs
<1> QED
  BY <1>1, GotoTyped DEF Wakes, Continue

LEMMA SleepTimeoutKeeps ==
  ASSUME ConnInv, SleepTimeout
  PROVE  ConnInv'
  BY InvGives, WakesTyped, TerminateKeeps DEF SleepTimeout

LEMMA EvictDeadKeeps ==
  ASSUME ConnInv, EvictDead
  PROVE  ConnInv'
<1> DEFINE e == [id \in Ids |-> IF CanEvict(ep[id]) THEN Absent ELSE ep[id]]
<1>1. pc = "eq" /\ Settle(e, cq, eq) /\ unused' = unused
  BY DEF EvictDead
<1>2. pc' \in {"app", "sleep"} /\ pc' \in Pcs /\ mode' \in Modes \cup {"poll"}
  <2>1. "app" \in Pcs /\ "sleep" \in Pcs
    BY DEF Pcs
  <2> QED
    BY <2>1, InvGives, GotoTyped DEF EvictDead, Continue
<1>3. \A id \in Ids : /\ e[id] \in Endpoint /\ Moves(ep[id], e[id])
                      /\ e[id].st = "Absent" => ep[id].st \in {"Absent", "Done"}
                      /\ Counts(e[id]) => e[id] = ep[id]
  BY InvGives, RecordsTyped DEF CanEvict, Moves, HasEndpoint, Counts, Absent
<1>4. \A id \in Ids : e[id].st = "Absent" => ~Mentions(cq, id)
  <2>1. \A id \in Ids : ep[id].st \in {"Absent", "Done"} => ~Mentions(cq, id)
    BY <1>1, InvGives DEF ConnInv, PassInv, DoneDrained
  <2> QED
    BY <1>3, <2>1
<1>5. e \in [Ids -> Endpoint]
  BY <1>3
<1> HIDE DEF e
<1> QED
  BY <1>1, <1>2, <1>3, <1>4, <1>5, StopsKeep

(* A completion that is counted is waited for, so that the counter of the  *)
(* protocol stays at zero or above.                                        *)
LEMMA CompletionKeeps ==
  ASSUME ConnInv, cq # <<>>,
         Settle([ep EXCEPT ![Head(cq).id] = ConsumeCompletion(@, Head(cq).ok)], Tail(cq), eq),
         pc' \in Pcs, mode' \in Modes \cup {"poll"}, unused' = unused, pc' # "eq"
  PROVE  ConnInv'
<1> DEFINE c == Head(cq)
           e == [ep EXCEPT ![c.id] = ConsumeCompletion(@, c.ok)]
           q == Tail(cq)
<1>1. /\ cq \in Seq(Completion) /\ eq \in Seq(Event) /\ ep \in [Ids -> Endpoint]
  BY InvGives DEF ConnInv, TypeInv, InitiatorTyped
<1>2. /\ PartOf(q, cq) /\ q \in Seq(Completion) /\ c \in Completion
  BY <1>1, PartOfTail
<1>3. c.id \in Ids /\ c.ok \in BOOLEAN
  BY <1>2 DEF Completion
<1>4. \A id \in Ids : /\ Data(q, id) \in Nat
                      /\ Data(cq, id) = IF c.id = id /\ c.ok THEN Data(q, id) + 1 ELSE Data(q, id)
  BY <1>1, <1>2, DataTail, DataTyped
<1> HIDE DEF c, q
<1>5. ASSUME NEW id \in Ids
      PROVE  /\ e[id] \in Endpoint /\ e[id].st = ep[id].st /\ Moves(ep[id], e[id])
             /\ e[id].pending = IF id = c.id /\ c.ok /\ ep[id].st = "Connected"
                                THEN ep[id].pending - 1 ELSE ep[id].pending
  <2>1. CASE id = c.id
    <3>1. e[id] = ConsumeCompletion(ep[id], c.ok)
      BY <1>1, <2>1
    <3>2. c.ok /\ ep[id].st = "Connected" => ep[id].pending > 0
      <4> SUFFICES ASSUME c.ok, ep[id].st = "Connected" PROVE ep[id].pending > 0
        OBVIOUS
      <4>1. ep[id].pending >= Len(wire[id]) + Data(cq, id) /\ ep[id].pending \in Nat
        BY InvGives, Bounds DEF Covers, Counts, Endpoint
      <4> QED
        BY <2>1, <4>1, <1>4, InvGives
    <3> QED
      BY <2>1, <3>1, <3>2, <1>1, <1>3, ConsumeCompletionDoes
  <2>2. CASE id # c.id
    <3>1. e[id] = ep[id]
      BY <1>1, <2>2
    <3> QED
      BY <2>2, <3>1, <1>1, Untouched
  <2> QED
    BY <2>1, <2>2
<1>6. e \in [Ids -> Endpoint]
  BY <1>1, <1>5
<1> HIDE DEF e
<1>7. \A id \in Ids : Covers(e[id], Remaining(id, e) + Data(q, id), failures)
  <2> SUFFICES ASSUME NEW id \in Ids, Counts(e[id])
               PROVE  Covers(e[id], Remaining(id, e) + Data(q, id), failures)
    BY DEF Covers
  <2>1. Remaining(id, e) = Len(wire[id]) /\ Len(wire[id]) \in Nat
    BY <1>5, InvGives DEF Remaining, Closed, HasEndpoint
  <2>2. Counts(ep[id]) /\ Covers(ep[id], Len(wire[id]) + Data(cq, id), failures)
    BY <1>5, InvGives DEF Counts
  <2>3. ep[id].pending \in Nat /\ e[id].st = ep[id].st
    BY <1>1, <1>5, Bounds DEF Endpoint
  <2>4. Data(q, id) \in Nat
    BY <1>4
  <2>5. CASE c.id = id /\ c.ok
    <3>1. Data(cq, id) = Data(q, id) + 1
      BY <1>4, <2>5
    <3>2. CASE ep[id].st = "Connected"
      <4>1. e[id].pending = ep[id].pending - 1
        BY <1>5, <2>5, <3>2
      <4>2. /\ ep[id].pending >= Len(wire[id]) + (Data(q, id) + 1)
            /\ failures = 0 => ep[id].pending = Len(wire[id]) + (Data(q, id) + 1)
        BY <2>2, <3>1 DEF Covers
      <4>3. /\ e[id].pending >= Remaining(id, e) + Data(q, id)
            /\ failures = 0 => e[id].pending = Remaining(id, e) + Data(q, id)
        <5> DEFINE a == ep[id].pending
                   l == Len(wire[id])
                   d == Data(q, id)
        <5>1. a \in Nat /\ l \in Nat /\ d \in Nat /\ a >= l + (d + 1) /\ (failures = 0 => a = l + (d + 1))
          BY <2>1, <2>3, <2>4, <4>2
        <5>2. e[id].pending = a - 1 /\ Remaining(id, e) = l
          BY <2>1, <4>1
        <5> HIDE DEF a, l, d
        <5>3. a - 1 >= l + d /\ (failures = 0 => a - 1 = l + d)
          BY <5>1
        <5> QED
          BY <5>2, <5>3 DEF d
      <4> QED
        BY <2>3, <3>2, <4>3 DEF Covers
    <3>3. CASE ep[id].st # "Connected"
      <4>1. e[id].pending = ep[id].pending
        BY <1>5, <3>3
      <4> QED
        BY <2>1, <2>2, <2>3, <2>4, <3>1, <3>3, <4>1 DEF Covers
    <3> QED
      BY <3>2, <3>3
  <2>6. CASE ~(c.id = id /\ c.ok)
    <3>1. Data(cq, id) = Data(q, id) /\ e[id].pending = ep[id].pending
      BY <1>4, <1>5, <2>6
    <3> QED
      BY <2>1, <2>2, <2>3, <3>1 DEF Covers
  <2> QED
    BY <2>5, <2>6
<1>8. Legal(e, q, eq)
  BY <1>2, <1>5, <1>7, InvGives, MentionsPart DEF Legal
<1>9. Settle(e, q, eq)
  BY DEF e, q, c
<1> QED
  BY <1>1, <1>2, <1>6, <1>8, <1>9, PartOfItself, SettleKeeps

LEMMA PollCompletionKeeps ==
  ASSUME ConnInv, PollCompletion
  PROVE  ConnInv'
  BY InvGives, CompletionKeeps DEF PollCompletion

(* A completion is of an endpoint that is still there.                     *)
LEMMA HeadIsPresent ==
  ASSUME ConnInv, cq # <<>>
  PROVE  Head(cq).id \in Present
<1>1. Head(cq) \in Completion /\ 1 \in DOMAIN cq /\ Head(cq) = cq[1]
  BY InvGives, PartOfTail
<1>2. Head(cq).id \in Ids /\ Mentions(cq, Head(cq).id)
  BY <1>1 DEF Completion, Mentions
<1> QED
  BY <1>2, InvGives DEF Present

LEMMA TakeCompletionKeeps ==
  ASSUME ConnInv, TakeCompletion
  PROVE  ConnInv' /\ pc' # "crashed"
<1> DEFINE e == [ep EXCEPT ![Head(cq).id] = ConsumeCompletion(@, Head(cq).ok)]
<1>1. cq # <<>> /\ Settle(e, Tail(cq), eq) /\ unused' = unused
  BY DEF TakeCompletion
<1>2. Wakes(e)
  BY <1>1, HeadIsPresent DEF TakeCompletion
<1> HIDE DEF e
<1>3. pc' \in {"app", "activate"} /\ pc' \in Pcs /\ mode' \in Modes \cup {"poll"}
  BY <1>2, InvGives, WakesTyped
<1> QED
  BY <1>1, <1>3, CompletionKeeps DEF e

LEMMA PollEventKeeps ==
  ASSUME ConnInv, PollEvent
  PROVE  ConnInv'
<1> DEFINE x == Head(eq)
           e == [ep EXCEPT ![x.id] = ConsumeEvent(@, x.event)]
           v == Tail(eq)
<1>1. /\ cq \in Seq(Completion) /\ eq \in Seq(Event) /\ ep \in [Ids -> Endpoint]
  BY InvGives DEF ConnInv, TypeInv, InitiatorTyped
<1>2. /\ pc = "eq" /\ pc' = pc /\ mode' = mode /\ unused' = unused /\ eq # <<>>
      /\ Settle(e, cq, v)
  BY DEF PollEvent
<1>3. /\ PartOf(v, eq) /\ v \in Seq(Event) /\ x \in Event /\ 1 \in DOMAIN eq /\ x = eq[1]
      /\ \A k \in DOMAIN v : k + 1 \in DOMAIN eq /\ k + 1 # 1 /\ v[k] = eq[k + 1]
  BY <1>1, <1>2, PartOfTail
<1> HIDE DEF x, v
<1>4. x.id \in Ids /\ x.event \in Events
  BY <1>3 DEF Event
<1>5. \A id \in Ids : e[id] = IF id = x.id THEN ConsumeEvent(ep[id], x.event) ELSE ep[id]
  BY <1>1
<1>6. e[x.id] = ConsumeEvent(ep[x.id], x.event) /\ ep[x.id] \in Endpoint
  BY <1>1, <1>4, <1>5
<1> HIDE DEF e
<1>7. \A id \in Ids : /\ e[id] \in Endpoint /\ Moves(ep[id], e[id])
                      /\ e[id].st = "Absent" => ep[id].st = "Absent"
  BY <1>1, <1>4, <1>5, ConsumeEventDoes, Untouched
<1>8. e \in [Ids -> Endpoint]
  BY <1>1, <1>7 DEF e
<1>9. Ends(x) => link[x.id] = "down" /\ \A k \in DOMAIN v : v[k].id = x.id => ~Ends(v[k])
  BY <1>3 DEF ConnInv, LinkInv, EndsAreDown, EndsOnce
<1>10. \A id \in Ids : /\ ep[id].st = "Flushing" => Ended(id, eq)
                       /\ ep[id].st = "Done" => ~Mentions(cq, id)
  BY <1>2 DEF ConnInv, PassInv, FlushedByEnd, DoneDrained
<1>11. ASSUME NEW id \in Ids
       PROVE  /\ e[id].st = "Flushing" => Ended(id, v)
              /\ e[id].st = "Done" => ~Mentions(cq, id)
  <2>1. ep[id].st = "Flushing" => Ended(id, v)
    BY <1>3, <1>10 DEF Ended
  <2>2. CASE id # x.id
    BY <1>5, <1>10, <2>1, <2>2
  <2>3. CASE id = x.id
    <3>1. e[id].st = "Flushing" => ep[id].st = "Flushing" \/ x.event = "Shutdown"
      BY <1>4, <1>6, <2>3, ConsumeEventDoes
    <3>2. e[id].st = "Done" => ep[id].st = "Done" \/ (ep[id].st = "Flushing" /\ x.event = "Error")
      BY <1>4, <1>6, <2>3, ConsumeEventDoes
    <3>3. x.event = "Shutdown" => Ended(id, v)
      BY <1>9, <2>3 DEF Ends, Ended
    <3>4. ~(ep[id].st = "Flushing" /\ x.event = "Error")
      BY <1>3, <1>10, <2>3 DEF Ends, Ended
    <3> QED
      BY <1>10, <2>1, <3>1, <3>2, <3>3, <3>4
  <2> QED
    BY <2>2, <2>3
<1>12. ASSUME NEW id \in Ids, Counts(e[id])
       PROVE  Covers(e[id], Remaining(id, e) + Data(cq, id), failures)
  <2>1. Covers(ep[id], Len(wire[id]) + Data(cq, id), failures) /\ Len(wire[id]) \in Nat /\ Data(cq, id) \in Nat
    BY InvGives
  <2>2. CASE e[id] = ep[id]
    BY <2>1, <2>2, Untouched
  <2>3. CASE e[id] # ep[id]
    <3>1. id = x.id
      BY <1>5, <2>3
    <3>2. Counts(ep[id]) /\ e[id].pending = ep[id].pending /\ ep[id].pending \in Nat
      BY <1>4, <1>6, <1>12, <3>1, ConsumeEventDoes, Bounds DEF Endpoint
    <3>3. CASE x.event = "Connected"
      <4>1. e[id].st = "Connected" /\ (HasEndpoint(ep[id]) => HasEndpoint(e[id]))
        BY <1>4, <1>6, <1>12, <2>3, <3>1, <3>3, ConsumeEventDoes
      <4>2. Remaining(id, e) = Len(wire[id])
        BY <4>1 DEF Remaining, Closed
      <4> QED
        BY <2>1, <3>2, <4>1, <4>2 DEF Covers
    <3>4. CASE x.event # "Connected"
      <4>1. HasEndpoint(ep[id]) /\ ~HasEndpoint(e[id])
        BY <1>4, <1>6, <1>12, <2>3, <3>1, <3>4, ConsumeEventDoes
      <4>2. Remaining(id, e) = 0
        BY <4>1 DEF Remaining, Closed
      <4>3. failures # 0
        <5>1. link[id] = "down" /\ ep[id].st # "Flushing"
          BY <1>9, <3>1, <3>2, <3>4 DEF Ends, Counts
        <5> QED
          BY <5>1 DEF ConnInv, LinkInv, Steady
      <4> QED
        BY <2>1, <3>2, <4>2, <4>3 DEF Covers
    <3> QED
      BY <3>3, <3>4
  <2> QED
    BY <2>2, <2>3
<1>13. Legal(e, cq, v)
  <2>1. \A id \in Ids : Covers(e[id], Remaining(id, e) + Data(cq, id), failures)
    BY <1>12 DEF Covers
  <2> QED
    BY <1>7, <1>11, <2>1, InvGives DEF Legal
<1>14. Settle(e, cq, v)
  BY <1>2
<1> QED
  BY <1>1, <1>2, <1>3, <1>8, <1>13, <1>14, InvGives, PartOfItself, SettleKeeps

LEMMA AddTargetKeeps ==
  ASSUME ConnInv, NEW p \in Peers, AddTarget(p)
  PROVE  ConnInv'
<1>1. PICK new \in unused : /\ ep' = [ep EXCEPT ![new] = FreshEndpoint]
                            /\ info' = [info EXCEPT ![new] = p]
                            /\ unused' = unused \ {new}
  BY DEF AddTarget
<1>2. UNCHANGED <<pc, mode, cq, eq, link, wire, target, failures>> /\ pc = "app"
  BY DEF AddTarget
<1>3. TypeInv /\ new \in Ids /\ ep[new].st = "Absent" /\ ep \in [Ids -> Endpoint]
  BY DEF ConnInv, TypeInv, InitiatorTyped, UnusedAbsent
<1>4. /\ FreshEndpoint \in Endpoint /\ FreshEndpoint.st = "Idle" /\ FreshEndpoint.pending = 0
  BY RecordsTyped DEF FreshEndpoint
<1>5. \A id \in Ids : ep'[id] = IF id = new THEN FreshEndpoint ELSE ep[id]
  BY <1>1, <1>3
<1>6. TypeInv'
  <2>1. InitiatorTyped'
    BY <1>1, <1>2, <1>3, <1>4 DEF TypeInv, InitiatorTyped
  <2> QED
    BY <1>2, <1>3, <2>1 DEF TypeInv, QueuesTyped, FabricTyped, TargetsTyped
<1>7. wire[new] = <<>> /\ link[new] = "none" /\ Data(cq, new) = 0
  BY <1>3, UnmentionedHasNoData DEF ConnInv, LinkInv, Quiet, HasEndpoint, Forgotten
<1>8. LinkInv'
  <2>1. Quiet' /\ Closing' /\ Steady'
    BY <1>2, <1>5, <1>7 DEF ConnInv, LinkInv, Quiet, Closing, Steady
  <2>2. EndsAreDown' /\ EndsOnce'
    BY <1>2 DEF ConnInv, LinkInv, EndsAreDown, EndsOnce
  <2> QED
    BY <2>1, <2>2 DEF LinkInv
<1>9. PassInv' /\ Forgotten' /\ UnusedAbsent'
  <2>1. \A id \in unused' : id \in Ids /\ id # new /\ id \in unused
    BY <1>1, <1>3 DEF TypeInv, InitiatorTyped
  <2> QED
    BY <1>2, <1>4, <1>5, <2>1
    DEF ConnInv, PassInv, FlushedByEnd, DoneDrained, Forgotten, UnusedAbsent
<1>10. Account'
  <2>1. Covers(FreshEndpoint, 0, failures)
    BY <1>4 DEF Covers
  <2>2. Len(wire[new]) + Data(cq, new) = 0
    BY <1>7
  <2> QED
    BY <1>2, <1>5, <2>1, <2>2 DEF ConnInv, Account
<1> QED
  BY <1>6, <1>8, <1>9, <1>10 DEF ConnInv

LEMMA ShareBounded ==
  ASSUME TypeInv, NEW id \in Ids, NEW n \in Nat
  PROVE  /\ Share(id, n) \in Nat /\ Share(id, n) <= Planes
         /\ ep[id].st # "Connected" => Share(id, n) = 0
<1> DEFINE smaller == {i \in Ids : i < id /\ ep[i].st = "Connected"}
<1>1. Cardinality(smaller) \in Nat
  <2>1. IsFiniteSet(Ids)
    BY RCAssumption
  <2>2. IsFiniteSet(smaller)
    BY <2>1, FS_Subset
  <2> QED
    BY <2>2, FS_CardinalityType
<1> DEFINE left == n - Planes * Cardinality(smaller)
<1> HIDE DEF smaller
<1>2. left \in Int /\ Planes \in Nat \ {0}
  BY <1>1, Bounds
<1>3. Share(id, n) = IF ep[id].st # "Connected" \/ left <= 0 THEN 0
                     ELSE IF left >= Planes THEN Planes ELSE left
  BY DEF Share, smaller
<1> HIDE DEF left
<1> QED
  BY <1>2, <1>3

LEMMA Concatenation ==
  ASSUME NEW S, NEW a \in Seq(S), NEW b \in Seq(S)
  PROVE  a \o b \in Seq(S) /\ Len(a \o b) = Len(a) + Len(b)
  OBVIOUS

LEMMA TransferGrainKeeps ==
  ASSUME ConnInv, TransferGrain
  PROVE  ConnInv'
<1> DEFINE connected == {id \in Ids : ep[id].st = "Connected"}
<1>1. TypeInv /\ ep \in [Ids -> Endpoint] /\ wire \in [Ids -> Seq(BOOLEAN)]
  BY DEF ConnInv, TypeInv, InitiatorTyped, FabricTyped
<1>2. /\ pc = "app" /\ UNCHANGED <<info, unused, pc, mode, cq, eq, link, target, failures>>
      /\ \A id \in connected : ep[id].pending + Planes <= MaxPending
  BY DEF TransferGrain
<1>3. PICK n \in 0 .. Planes * Cardinality(connected) :
         /\ ep' = [id \in Ids |-> Posted(ep[id], Share(id, n))]
         /\ wire' = [id \in Ids |-> wire[id] \o [k \in 1 .. Share(id, n) |-> k = Planes]]
  BY DEF TransferGrain
<1>4. n \in Nat
  <2>1. IsFiniteSet(connected)
    <3>1. IsFiniteSet(Ids)
      BY RCAssumption
    <3> QED
      BY <3>1, FS_Subset
  <2>2. Cardinality(connected) \in Nat
    BY <2>1, FS_CardinalityType
  <2> QED
    BY <2>2, Bounds, <1>3
<1>5. ASSUME NEW id \in Ids
      PROVE  LET s == Share(id, n)
             IN  /\ s \in Nat /\ (ep[id].st # "Connected" => s = 0)
                 /\ ep'[id] \in Endpoint /\ ep'[id].st = ep[id].st
                 /\ ep'[id].pending = IF ep[id].st = "Connected" THEN ep[id].pending + s ELSE ep[id].pending
                 /\ wire'[id] \in Seq(BOOLEAN) /\ Len(wire'[id]) = Len(wire[id]) + s
                 /\ s = 0 => wire'[id] = wire[id]
  <2> DEFINE s == Share(id, n)
             more == [k \in 1..s |-> k = Planes]
  <2>1. s \in Nat /\ s <= Planes /\ (ep[id].st # "Connected" => s = 0)
    BY <1>1, <1>4, ShareBounded
  <2>2. ep'[id] = Posted(ep[id], s) /\ wire'[id] = wire[id] \o more
    BY <1>3
  <2> HIDE DEF s
  <2>3. ep[id].st = "Connected" => ep[id].pending + s <= MaxPending
    <3>1. ep[id].pending \in Nat /\ Planes \in Nat /\ MaxPending \in Nat
      BY <1>1, Bounds DEF Endpoint
    <3> QED
      BY <1>2, <2>1, <3>1
  <2>4. more \in Seq(BOOLEAN) /\ Len(more) = s
    BY <2>1
  <2>5. s = 0 => more = <<>>
    BY <2>4
  <2> HIDE DEF more
  <2>6. wire'[id] \in Seq(BOOLEAN) /\ Len(wire'[id]) = Len(wire[id]) + s
    <3>1. wire[id] \in Seq(BOOLEAN)
      BY <1>1
    <3> QED
      BY <2>2, <2>4, <3>1, Concatenation
  <2>7. s = 0 => wire'[id] = wire[id]
    BY <1>1, <2>2, <2>5
  <2> QED
    BY <1>1, <2>1, <2>2, <2>3, <2>6, <2>7, PostedDoes DEF s
<1>6. TypeInv'
  <2>1. ep' \in [Ids -> Endpoint] /\ wire' \in [Ids -> Seq(BOOLEAN)]
    BY <1>3, <1>5
  <2> QED
    BY <1>1, <1>2, <2>1 DEF TypeInv, InitiatorTyped, QueuesTyped, FabricTyped, TargetsTyped
<1>7. LinkInv'
  <2>1. \A id \in Ids : ep'[id].st = ep[id].st /\ (ep[id].st # "Connected" => wire'[id] = wire[id])
    BY <1>5
  <2>2. Quiet' /\ Closing' /\ Steady'
    BY <1>2, <2>1 DEF ConnInv, LinkInv, Quiet, Closing, Steady, HasEndpoint
  <2>3. EndsAreDown' /\ EndsOnce'
    BY <1>2 DEF ConnInv, LinkInv, EndsAreDown, EndsOnce
  <2> QED
    BY <2>2, <2>3 DEF LinkInv
<1>8. PassInv' /\ Forgotten' /\ UnusedAbsent'
  <2>1. unused \in SUBSET Ids
    BY <1>1 DEF TypeInv, InitiatorTyped
  <2> QED
    BY <1>2, <1>5, <2>1 DEF ConnInv, PassInv, FlushedByEnd, DoneDrained, Forgotten, UnusedAbsent
<1>9. Account'
  <2> SUFFICES ASSUME NEW id \in Ids
               PROVE  Covers(ep'[id], Len(wire'[id]) + Data(cq, id), failures)
    BY <1>2 DEF Account
  <2>1. /\ Covers(ep[id], Len(wire[id]) + Data(cq, id), failures)
        /\ Len(wire[id]) \in Nat /\ Data(cq, id) \in Nat /\ ep[id].pending \in Nat
    BY InvGives, <1>1, Bounds DEF Endpoint
  <2>2. PICK s \in Nat :
           /\ ep[id].st # "Connected" => s = 0
           /\ ep'[id].st = ep[id].st
           /\ ep'[id].pending = IF ep[id].st = "Connected" THEN ep[id].pending + s ELSE ep[id].pending
           /\ Len(wire'[id]) = Len(wire[id]) + s
    BY <1>5
  <2>3. CASE ep[id].st = "Connected"
    BY <2>1, <2>2, <2>3 DEF Covers, Counts
  <2>4. CASE ep[id].st # "Connected"
    BY <2>1, <2>2, <2>4 DEF Covers, Counts
  <2> QED
    BY <2>3, <2>4
<1> QED
  BY <1>6, <1>7, <1>8, <1>9 DEF ConnInv

(* Steps that neither the queues nor the fabric notice.                    *)
LEMMA LocalKeeps ==
  ASSUME ConnInv, UNCHANGED <<info, unused, cq, eq, link, wire, target, failures>>,
         ep' \in [Ids -> Endpoint],
         \A id \in Ids : ep'[id].st = ep[id].st /\ ep'[id].pending = ep[id].pending,
         pc' = "eq" => pc = "eq", pc' \in Pcs, mode' \in Modes \cup {"poll"}
  PROVE  ConnInv'
<1>1. TypeInv'
  BY DEF ConnInv, TypeInv, InitiatorTyped, QueuesTyped, FabricTyped, TargetsTyped
<1>2. LinkInv'
  <2>1. Quiet' /\ Closing' /\ Steady'
    BY DEF ConnInv, LinkInv, Quiet, Closing, Steady, HasEndpoint
  <2>2. EndsAreDown' /\ EndsOnce'
    BY DEF ConnInv, LinkInv, EndsAreDown, EndsOnce
  <2> QED
    BY <2>1, <2>2 DEF LinkInv
<1>3. PassInv' /\ Forgotten' /\ UnusedAbsent'
  <2>1. unused \in SUBSET Ids
    BY DEF ConnInv, TypeInv, InitiatorTyped
  <2>2. FlushedByEnd' /\ DoneDrained'
    BY DEF ConnInv, PassInv, FlushedByEnd, Ended, DoneDrained
  <2> QED
    BY <2>1, <2>2 DEF ConnInv, PassInv, Forgotten, UnusedAbsent
<1>4. Account'
  BY DEF ConnInv, Account, Covers, Counts
<1> QED
  BY <1>1, <1>2, <1>3, <1>4 DEF ConnInv

LEMMA InterruptedKeeps == ASSUME ConnInv, Interrupted PROVE ConnInv'
<1>1. "app" \in Pcs
  BY DEF Pcs
<1>2. pc' = "app" /\ mode' \in Modes \cup {"poll"}
  BY <1>1, InvGives, GotoTyped DEF Interrupted
<1>3. ep' = ep /\ ep \in [Ids -> Endpoint]
  BY DEF Interrupted, ConnInv, TypeInv, InitiatorTyped
<1> QED
  BY <1>1, <1>2, <1>3, LocalKeeps DEF Interrupted

LEMMA RestKeeps == ASSUME ConnInv, NEW id \in Ids, Rest(id) PROVE ConnInv'
<1>1. ep \in [Ids -> Endpoint] /\ ep' = [ep EXCEPT ![id].rested = TRUE]
  BY DEF Rest, ConnInv, TypeInv, InitiatorTyped
<1>2. \A i \in Ids : ep'[i] = IF i = id THEN [ep[id] EXCEPT !.rested = TRUE] ELSE ep[i]
  BY <1>1
<1>3. /\ [ep[id] EXCEPT !.rested = TRUE] \in Endpoint
      /\ [ep[id] EXCEPT !.rested = TRUE].st = ep[id].st
      /\ [ep[id] EXCEPT !.rested = TRUE].pending = ep[id].pending
  BY <1>1 DEF Endpoint
<1>4. ep' \in [Ids -> Endpoint]
  BY <1>1, <1>2, <1>3
<1> QED
  BY <1>2, <1>3, <1>4, InvGives, LocalKeeps DEF Rest

-----------------------------------------------------------------------------
(* The steps of the fabric and of the thread of a target.                  *)

LEMMA NotifyTyped ==
  ASSUME NEW t \in Target, NEW id \in Ids, NEW event \in Events \cup {"Request"}
  PROVE  Notify(t, id, event) \in Target
<1> DEFINE T == [id : Ids, event : Events \cup {"Request"}]
<1>1. t.eq \in Seq(T) /\ [id |-> id, event |-> event] \in T
  BY DEF Target
<1>2. Append(t.eq, [id |-> id, event |-> event]) \in Seq(T)
  BY <1>1
<1> QED
  BY <1>2 DEF Target, Notify

(* What a step leaves as it is when it changes neither the initiator, nor  *)
(* its completions, nor the writes under way.                              *)
LEMMA AccountsKept ==
  ASSUME ConnInv, UNCHANGED <<initiator, cq, wire>>, failures' = failures \/ failures' # 0
  PROVE  DoneDrained' /\ Forgotten' /\ UnusedAbsent' /\ Account' /\ InitiatorTyped'
<1>1. UNCHANGED <<ep, info, unused, pc, mode, cq, wire>>
  BY DEF initiator
<1>2. DoneDrained' /\ Forgotten' /\ UnusedAbsent' /\ InitiatorTyped'
  BY <1>1 DEF ConnInv, TypeInv, InitiatorTyped, PassInv, DoneDrained, Forgotten, UnusedAbsent
<1>3. Account'
  BY <1>1 DEF ConnInv, Account, Covers
<1> QED
  BY <1>2, <1>3

(* A step that leaves the events alone and takes no connection down.       *)
LEMMA LinkAdvances ==
  ASSUME ConnInv, UNCHANGED <<initiator, cq, eq, wire, failures>>, target' \in [Peers -> Target],
         NEW id \in Ids, link[id] \in {"requested", "queued"}, NEW l \in {"queued", "accepted"},
         link' = [link EXCEPT ![id] = l]
  PROVE  ConnInv'
<1>1. UNCHANGED <<ep, info, unused, pc, mode>>
  BY DEF initiator
<1>2. link \in [Ids -> Links]
  BY DEF ConnInv, TypeInv, FabricTyped
<1>3. \A i \in Ids : link'[i] = IF i = id THEN l ELSE link[i]
  BY <1>2
<1>4. TypeInv'
  BY <1>1, <1>2 DEF ConnInv, TypeInv, InitiatorTyped, QueuesTyped, FabricTyped, TargetsTyped, Links
<1>5. HasEndpoint(ep[id])
  BY DEF ConnInv, LinkInv, Quiet
<1>6. Quiet' /\ Closing' /\ Steady'
  BY <1>1, <1>3, <1>5 DEF ConnInv, LinkInv, Quiet, Closing, Steady
<1>7. EndsAreDown' /\ EndsOnce'
  <2>1. \A i \in DOMAIN eq : eq[i].id \in Ids
    <3>1. \A i \in DOMAIN eq : eq[i] \in Event
      BY InvGives
    <3> QED
      BY <3>1 DEF Event
  <2> QED
    BY <1>3, <2>1 DEF ConnInv, LinkInv, EndsAreDown, EndsOnce
<1>8. FlushedByEnd'
  BY <1>1, <1>3 DEF ConnInv, PassInv, FlushedByEnd, Ended
<1> QED
  BY <1>4, <1>6, <1>7, <1>8, AccountsKept DEF ConnInv, LinkInv, PassInv

(* A connection comes about, or ends: an event says so.                    *)
LEMMA EventRaised ==
  ASSUME ConnInv, UNCHANGED <<initiator, cq, wire>>, target' \in [Peers -> Target],
         NEW id \in Ids, NEW event \in Events, Raise(id, event),
         NEW l \in Links, link' = [link EXCEPT ![id] = l],
         link[id] \in {"requested", "queued", "accepted", "up", "closing"},
         IF event = "Connected" THEN l = "up" ELSE l = "down",
         failures' \in 0..MaxFailures,
         failures' = failures \/ failures' # 0,
         event = "Connected" \/ link[id] = "closing" \/ failures' # 0
  PROVE  ConnInv'
<1>1. UNCHANGED <<ep, info, unused, pc, mode>>
  BY DEF initiator
<1>2. link \in [Ids -> Links] /\ eq \in Seq(Event) /\ cq \in Seq(Completion)
  BY DEF ConnInv, TypeInv, FabricTyped, QueuesTyped
<1>3. \A i \in Ids : link'[i] = IF i = id THEN l ELSE link[i]
  BY <1>2
<1> DEFINE x == [id |-> id, event |-> event]
<1>4. x \in Event /\ x.id = id /\ x.event = event /\ eq' = Append(eq, x)
  BY DEF Event, Raise
<1> HIDE DEF x
<1>5. /\ eq' \in Seq(Event) /\ \A k \in DOMAIN eq : eq[k].id \in Ids
      /\ \A k \in DOMAIN eq' : IF k \in DOMAIN eq THEN eq'[k] = eq[k] ELSE k = Len(eq) + 1 /\ eq'[k] = x
  <2>1. \A k \in DOMAIN eq : eq[k] \in Event
    BY <1>2
  <2> QED
    BY <1>2, <1>4, <2>1 DEF Event
<1>6. TypeInv'
  <2>1. FabricTyped'
    BY <1>2 DEF ConnInv, TypeInv, FabricTyped
  <2>2. QueuesTyped'
    BY <1>2, <1>5 DEF QueuesTyped
  <2> QED
    BY <2>1, <2>2, AccountsKept DEF TypeInv, TargetsTyped
<1>7. \A k \in DOMAIN eq : eq[k].id = id => ~Ends(eq[k])
  BY DEF ConnInv, LinkInv, EndsAreDown
<1>8. HasEndpoint(ep[id])
  BY DEF ConnInv, LinkInv, Quiet
<1>9. Quiet' /\ Closing' /\ Steady'
  <2>1. Quiet' /\ Closing'
    BY <1>1, <1>3, <1>8 DEF ConnInv, LinkInv, Quiet, Closing
  <2>2. Steady'
    BY <1>1, <1>3 DEF ConnInv, LinkInv, Closing, Steady
  <2> QED
    BY <2>1, <2>2
<1>10. EndsAreDown'
  <2> SUFFICES ASSUME NEW k \in DOMAIN eq', Ends(eq'[k]) PROVE link'[eq'[k].id] = "down"
    BY DEF EndsAreDown
  <2>1. CASE k \in DOMAIN eq
    BY <1>3, <1>5, <1>7, <2>1 DEF ConnInv, LinkInv, EndsAreDown
  <2>2. CASE k \notin DOMAIN eq
    BY <1>3, <1>4, <1>5, <2>2 DEF Ends
  <2> QED
    BY <2>1, <2>2
<1>11. EndsOnce'
  <2> SUFFICES ASSUME NEW i \in DOMAIN eq', NEW k \in DOMAIN eq', i # k, Ends(eq'[i]), Ends(eq'[k])
               PROVE  eq'[i].id # eq'[k].id
    BY DEF EndsOnce
  <2>1. CASE i \in DOMAIN eq /\ k \in DOMAIN eq
    BY <1>5, <2>1 DEF ConnInv, LinkInv, EndsOnce
  <2>2. CASE i \notin DOMAIN eq \/ k \notin DOMAIN eq
    BY <1>4, <1>5, <1>7, <2>2
  <2> QED
    BY <2>1, <2>2
<1>12. FlushedByEnd'
  <2> SUFFICES ASSUME pc = "eq", NEW i \in Ids, ep[i].st = "Flushing" PROVE Ended(i, eq)'
    BY <1>1 DEF FlushedByEnd
  <2>1. Ended(i, eq) /\ i # id
    BY DEF ConnInv, PassInv, FlushedByEnd, Ended
  <2> QED
    BY <1>3, <1>4, <1>5, <2>1 DEF Ended
<1> QED
  BY <1>6, <1>9, <1>10, <1>11, <1>12, AccountsKept DEF ConnInv, LinkInv, PassInv

LEMMA DeliverRequestKeeps == ASSUME ConnInv, NEW id \in Ids, DeliverRequest(id) PROVE ConnInv'
<1>1. info[id] \in Peers /\ target \in [Peers -> Target]
  BY DEF ConnInv, TypeInv, InitiatorTyped, TargetsTyped
<1>2. target' \in [Peers -> Target]
  BY <1>1, NotifyTyped DEF DeliverRequest
<1> QED
  BY <1>2, LinkAdvances DEF DeliverRequest

LEMMA RefuseRequestKeeps == ASSUME ConnInv, NEW id \in Ids, RefuseRequest(id) PROVE ConnInv'
<1>1. info[id] \in Peers /\ target \in [Peers -> Target] /\ failures \in Nat
  BY DEF ConnInv, TypeInv, InitiatorTyped, FabricTyped, TargetsTyped
<1>2. target' \in [Peers -> Target]
  BY <1>1, NotifyTyped DEF RefuseRequest, Events
<1>3. failures' \in 0..MaxFailures /\ failures' # 0
  BY <1>1, Bounds DEF RefuseRequest
<1>4. PICK event \in {"Error", "Shutdown"} : Raise(id, event)
  BY DEF RefuseRequest
<1>5. event \in Events /\ event # "Connected" /\ "down" \in Links
  BY DEF Events, Links
<1> QED
  BY <1>2, <1>3, <1>4, <1>5, EventRaised DEF RefuseRequest

LEMMA EstablishKeeps == ASSUME ConnInv, NEW id \in Ids, Establish(id) PROVE ConnInv'
<1>1. info[id] \in Peers /\ target \in [Peers -> Target] /\ failures \in 0..MaxFailures
  BY DEF ConnInv, TypeInv, InitiatorTyped, FabricTyped, TargetsTyped
<1>2. target' \in [Peers -> Target]
  BY <1>1, NotifyTyped DEF Establish, Events
<1>3. "Connected" \in Events /\ "up" \in Links
  BY DEF Events, Links
<1> QED
  BY <1>1, <1>2, <1>3, EventRaised DEF Establish

LEMMA DisconnectKeeps == ASSUME ConnInv, NEW id \in Ids, Disconnect(id) PROVE ConnInv'
<1>1. info[id] \in Peers /\ target \in [Peers -> Target] /\ failures \in Nat
  BY DEF ConnInv, TypeInv, InitiatorTyped, FabricTyped, TargetsTyped
<1>2. target' \in [Peers -> Target]
  BY <1>1, NotifyTyped DEF Disconnect, Events
<1>3. failures' \in 0..MaxFailures /\ failures' # 0
  BY <1>1, Bounds DEF Disconnect
<1>4. PICK event \in {"Error", "Shutdown"} : Raise(id, event)
  BY DEF Disconnect
<1>5. event \in Events /\ event # "Connected" /\ "down" \in Links
  BY DEF Events, Links
<1> QED
  BY <1>2, <1>3, <1>4, <1>5, EventRaised DEF Disconnect

LEMMA CloseConfirmedKeeps == ASSUME ConnInv, NEW id \in Ids, CloseConfirmed(id) PROVE ConnInv'
<1>1. target' \in [Peers -> Target] /\ failures' = failures /\ failures' \in 0..MaxFailures
  BY DEF ConnInv, TypeInv, FabricTyped, TargetsTyped, CloseConfirmed
<1>2. PICK event \in {"Error", "Shutdown"} : Raise(id, event)
  BY DEF CloseConfirmed
<1>3. event \in Events /\ event # "Connected" /\ "down" \in Links
  BY DEF Events, Links
<1> QED
  BY <1>1, <1>2, <1>3, EventRaised DEF CloseConfirmed

LEMMA OneLess ==
  ASSUME NEW S, NEW w \in Seq(S), w # <<>>
  PROVE  Tail(w) \in Seq(S) /\ Len(Tail(w)) \in Nat /\ Len(w) = Len(Tail(w)) + 1
  OBVIOUS

(* One write less is under way; its completion is queued.  Without a       *)
(* failed connection a write fails only while its endpoint flushes.        *)
LEMMA CompleteKeeps ==
  ASSUME ConnInv, NEW id \in Ids, NEW ok \in BOOLEAN, Complete(id, ok)
  PROVE  ConnInv'
<1> DEFINE c == [id |-> id, ok |-> ok]
           notifies == ok /\ Head(wire[id]) /\ target[info[id]].peer = id
<1>1. /\ wire[id] # <<>> /\ wire' = [wire EXCEPT ![id] = Tail(@)]
      /\ IF ok THEN link[id] \in {"up", "closing"} ELSE link[id] \in {"closing", "down"}
      /\ cq' = Append(cq, c)
      /\ UNCHANGED <<ep, info, unused, pc, mode, eq, link, failures>>
  BY DEF Complete, initiator
<1>2. /\ cq \in Seq(Completion) /\ wire \in [Ids -> Seq(BOOLEAN)] /\ ep \in [Ids -> Endpoint]
      /\ info[id] \in Peers /\ target \in [Peers -> Target]
  BY DEF ConnInv, TypeInv, InitiatorTyped, QueuesTyped, FabricTyped, TargetsTyped
<1>3. c \in Completion /\ c.id = id /\ c.ok = ok
  BY DEF Completion
<1>4. /\ Tail(wire[id]) \in Seq(BOOLEAN) /\ Len(Tail(wire[id])) \in Nat
      /\ Len(wire[id]) = Len(Tail(wire[id])) + 1
  <2>1. wire[id] \in Seq(BOOLEAN)
    BY <1>2
  <2> QED
    BY <1>1, <2>1, OneLess
<1>5. \A i \in Ids : wire'[i] = IF i = id THEN Tail(wire[id]) ELSE wire[i]
  BY <1>1, <1>2
<1>6. target' \in [Peers -> Target]
  <2>1. CASE notifies
    <3>1. target' = [target EXCEPT ![info[id]].cq = @ + 1] /\ target[info[id]].cq < TargetDepth
      BY <2>1 DEF Complete
    <3>2. target[info[id]] \in Target
      BY <1>2
    <3>3. target[info[id]].cq + 1 \in 0..TargetDepth
      BY <3>1, <3>2, Bounds DEF Target
    <3>4. [target[info[id]] EXCEPT !.cq = @ + 1] \in Target
      BY <3>2, <3>3 DEF Target
    <3> QED
      BY <1>2, <3>1, <3>4
  <2>2. CASE ~notifies
    BY <1>2, <2>2 DEF Complete
  <2> QED
    BY <2>1, <2>2
<1> HIDE DEF c, notifies
<1>7. TypeInv'
  <2>1. cq' \in Seq(Completion)
    BY <1>1, <1>2, <1>3
  <2>2. wire' \in [Ids -> Seq(BOOLEAN)]
    BY <1>1, <1>2, <1>4
  <2> QED
    BY <1>1, <1>6, <2>1, <2>2
    DEF ConnInv, TypeInv, InitiatorTyped, QueuesTyped, FabricTyped, TargetsTyped
<1>8. HasEndpoint(ep[id])
  BY <1>1 DEF ConnInv, LinkInv, Quiet
<1>9. LinkInv'
  <2>1. Quiet' /\ Closing' /\ Steady'
    BY <1>1, <1>5, <1>8 DEF ConnInv, LinkInv, Quiet, Closing, Steady
  <2>2. EndsAreDown' /\ EndsOnce'
    BY <1>1 DEF ConnInv, LinkInv, EndsAreDown, EndsOnce
  <2> QED
    BY <2>1, <2>2 DEF LinkInv
<1>10. \A i \in Ids : ~Mentions(cq, i) /\ i # id => ~Mentions(cq', i)
  <2> SUFFICES ASSUME NEW i \in Ids, i # id, NEW k \in DOMAIN cq', cq'[k].id = i
               PROVE  Mentions(cq, i)
    BY DEF Mentions
  <2>1. (k \in DOMAIN cq /\ cq'[k] = cq[k]) \/ cq'[k] = c
    BY <1>1, <1>2, <1>3
  <2> QED
    BY <1>3, <2>1 DEF Mentions
<1>11. PassInv' /\ Forgotten' /\ UnusedAbsent'
  <2>1. FlushedByEnd' /\ UnusedAbsent'
    BY <1>1 DEF ConnInv, PassInv, FlushedByEnd, Ended, UnusedAbsent
  <2>2. DoneDrained' /\ Forgotten'
    BY <1>1, <1>8, <1>10 DEF ConnInv, PassInv, DoneDrained, Forgotten, HasEndpoint
  <2> QED
    BY <2>1, <2>2 DEF PassInv
<1>12. Account'
  <2> SUFFICES ASSUME NEW i \in Ids, Counts(ep[i])
               PROVE  Covers(ep[i], Len(wire'[i]) + Data(cq', i), failures)
    BY <1>1 DEF Account, Covers
  <2>1. Covers(ep[i], Len(wire[i]) + Data(cq, i), failures)
    BY InvGives
  <2>2. Len(wire[i]) \in Nat /\ Data(cq, i) \in Nat /\ ep[i].pending \in Nat
    BY InvGives, Bounds DEF Endpoint
  <2>3. Data(cq', i) = IF id = i /\ ok THEN Data(cq, i) + 1 ELSE Data(cq, i)
    BY <1>1, <1>2, <1>3, DataAppend
  <2>4. CASE i # id
    BY <1>5, <2>1, <2>3, <2>4
  <2>5. CASE i = id /\ ok
    <3>1. Len(wire[i]) = Len(wire'[i]) + 1 /\ Data(cq', i) = Data(cq, i) + 1 /\ Len(wire'[i]) \in Nat
      BY <1>4, <1>5, <2>3, <2>5
    <3>2. Len(wire'[i]) + Data(cq', i) = Len(wire[i]) + Data(cq, i)
      BY <2>2, <3>1
    <3> QED
      BY <2>1, <3>2
  <2>6. CASE i = id /\ ~ok
    <3>1. Len(wire[i]) = Len(wire'[i]) + 1 /\ Data(cq', i) = Data(cq, i) /\ Len(wire'[i]) \in Nat
      BY <1>4, <1>5, <2>3, <2>6
    <3>2. failures # 0
      BY <1>1, <2>6 DEF ConnInv, LinkInv, Closing, Steady, Counts
    <3> QED
      BY <2>1, <2>2, <3>1, <3>2 DEF Covers
  <2> QED
    BY <2>4, <2>5, <2>6
<1> QED
  BY <1>7, <1>9, <1>11, <1>12 DEF ConnInv

LEMMA AcceptKeeps == ASSUME ConnInv, NEW p \in Peers, Accept(p) PROVE ConnInv'
<1> DEFINE id == Head(target[p].eq).id
<1>1. target \in [Peers -> Target] /\ link \in [Ids -> Links]
  BY DEF ConnInv, TypeInv, FabricTyped, TargetsTyped
<1>2. id \in Ids
  <2>1. target[p].eq \in Seq([id : Ids, event : Events \cup {"Request"}]) /\ target[p].eq # <<>>
    BY <1>1 DEF Target, Accept
  <2>2. Head(target[p].eq) \in [id : Ids, event : Events \cup {"Request"}]
    BY <2>1, PartOfTail
  <2> QED
    BY <2>2
<1>3. /\ target' = [target EXCEPT ![p] = Accepted(id)]
      /\ link' = [link EXCEPT ![id] = IF @ = "queued" THEN "accepted" ELSE @]
      /\ UNCHANGED <<initiator, cq, eq, wire, failures>>
  BY DEF Accept
<1> HIDE DEF id
<1>4. target' \in [Peers -> Target]
  BY <1>1, <1>2, <1>3, RecordsTyped
<1>5. CASE link[id] = "queued"
  BY <1>2, <1>3, <1>4, <1>5, LinkAdvances
<1>6. CASE link[id] # "queued"
  <2>1. link' = link
    BY <1>1, <1>3, <1>6
  <2>2. UNCHANGED <<ep, info, unused, pc, mode>>
    BY <1>3 DEF initiator
  <2>3. TypeInv'
    BY <1>3, <1>4, <2>1, <2>2
    DEF ConnInv, TypeInv, InitiatorTyped, QueuesTyped, FabricTyped, TargetsTyped
  <2>4. LinkInv' /\ FlushedByEnd'
    BY <1>3, <2>1, <2>2
    DEF ConnInv, LinkInv, Quiet, Closing, Steady, EndsAreDown, EndsOnce, PassInv, FlushedByEnd, Ended
  <2> QED
    BY <1>3, <2>3, <2>4, AccountsKept DEF ConnInv, PassInv
<1> QED
  BY <1>5, <1>6

LEMMA ReadTargetKeeps == ASSUME ConnInv, NEW p \in Peers, ReadTarget(p) PROVE ConnInv'
<1>1. target \in [Peers -> Target]
  BY DEF ConnInv, TypeInv, TargetsTyped
<1> DEFINE T == [id : Ids, event : Events \cup {"Request"}]
           t == target[p]
<1>2. t \in Target /\ t.eq \in Seq(T) /\ t.cq \in 0..TargetDepth /\ TargetDepth \in Nat
  BY <1>1, Bounds DEF Target
<1>3. t.eq # <<>> => Tail(t.eq) \in Seq(T)
  BY <1>2
<1>4. t.eq # <<>> => ReadWhileWaiting(t) \in Target
  BY <1>2, <1>3 DEF Target, ReadWhileWaiting
<1>5. ASSUME NEW both \in BOOLEAN PROVE ReadWhileConnected(t, both) \in Target
  <2>1. (IF t.eq = <<>> THEN t.eq ELSE Tail(t.eq)) \in Seq(T)
    BY <1>2, <1>3
  <2>2. (IF t.cq > 0 /\ (both \/ t.eq = <<>>) THEN t.cq - 1 ELSE t.cq) \in 0..TargetDepth
    BY <1>2
  <2> QED
    BY <1>2, <2>1, <2>2, RecordsTyped DEF Target, ReadWhileConnected
<1>6. target' \in [Peers -> Target]
  BY <1>1, <1>4, <1>5 DEF ReadTarget
<1>7. UNCHANGED <<ep, info, unused, pc, mode, cq, eq, link, wire, failures>>
  BY DEF ReadTarget, initiator
<1>8. TypeInv'
  BY <1>6, <1>7 DEF ConnInv, TypeInv, InitiatorTyped, QueuesTyped, FabricTyped, TargetsTyped
<1>9. LinkInv' /\ FlushedByEnd'
  BY <1>7
  DEF ConnInv, LinkInv, Quiet, Closing, Steady, EndsAreDown, EndsOnce, PassInv, FlushedByEnd, Ended
<1>10. UNCHANGED <<initiator, cq, wire>>
  BY <1>7 DEF initiator
<1> QED
  BY <1>7, <1>8, <1>9, <1>10, AccountsKept DEF ConnInv, PassInv

-----------------------------------------------------------------------------
LEMMA ConnInvNext == ConnInv /\ [Next]_vars => ConnInv'
<1> SUFFICES ASSUME ConnInv, [Next]_vars PROVE ConnInv'
  OBVIOUS
<1>1. CASE \E p \in Peers : AddTarget(p) \/ RemoveTarget(p) \/ Accept(p) \/ ReadTarget(p)
  BY <1>1, AddTargetKeeps, RemoveTargetKeeps, AcceptKeeps, ReadTargetKeeps
<1>2. CASE TransferGrain
  BY <1>2, TransferGrainKeeps
<1>3. CASE Progress
  BY <1>3, ActivateIdleKeeps, PollCompletionKeeps, CompletionsDrainedKeeps, PollEventKeeps,
     EvictDeadKeeps, TakeCompletionKeeps, SleepTimeoutKeeps DEF Progress
<1>4. CASE Interrupted
  BY <1>4, InterruptedKeeps
<1>5. CASE \E id \in Ids :
              \/ Rest(id) \/ DeliverRequest(id) \/ RefuseRequest(id) \/ Establish(id)
              \/ Disconnect(id) \/ CloseConfirmed(id)
              \/ \E ok \in BOOLEAN : Complete(id, ok)
  BY <1>5, RestKeeps, DeliverRequestKeeps, RefuseRequestKeeps, EstablishKeeps, DisconnectKeeps,
     CloseConfirmedKeeps, CompleteKeeps
<1>6. CASE UNCHANGED vars
  <2>1. UNCHANGED <<ep, info, unused, pc, mode, cq, eq, link, wire, target, failures>>
    BY <1>6 DEF vars
  <2>2. ep' \in [Ids -> Endpoint]
    BY <2>1 DEF ConnInv, TypeInv, InitiatorTyped
  <2> QED
    BY <2>1, <2>2, InvGives, LocalKeeps
<1> QED
  BY <1>1, <1>2, <1>3, <1>4, <1>5, <1>6 DEF Next

(* The invariant of the connection holds at all times.                     *)
THEOREM ConnectionInvariant == Spec => []ConnInv
<1>1. Init => ConnInv
  BY ConnInvInit
<1>2. ConnInv /\ [Next]_vars => ConnInv'
  BY ConnInvNext
<1> QED
  BY <1>1, <1>2, PTL DEF Spec

(* Every variable has its type: however often connections fail and are     *)
(* made anew, and however many completions are late, the counter of a      *)
(* protocol stays between zero and the writes it was given                 *)
(* (handleCompletionData counts a std::size_t down).                       *)
THEOREM TypeCorrect == Spec => []TypeOK
<1>1. ConnInv => TypeOK
  <2> SUFFICES ASSUME ConnInv PROVE TypeOK
    OBVIOUS
  <2>1. InitiatorTyped /\ QueuesTyped /\ FabricTyped /\ target \in [Peers -> Target]
    BY DEF ConnInv, TypeInv, TargetsTyped
  <2>2. \A p \in Peers : target[p] \in Target
    BY <2>1
  <2> QED
    BY <2>1, <2>2 DEF InitiatorTyped, QueuesTyped, FabricTyped, Endpoint, Completion, Event,
       Target, Links, Pcs, TypeOK
<1> QED
  BY <1>1, ConnectionInvariant, PTL

(* While connected the protocol waits for all the writes that are under    *)
(* way or whose completion is queued, and for nothing else as long as no   *)
(* connection failed (_pending).                                           *)
THEOREM WritesAreAccounted == Spec => []WritesAccounted
<1>1. ConnInv => WritesAccounted
  <2> SUFFICES ASSUME ConnInv, NEW id \in Ids, ep[id].st = "Connected"
               PROVE  /\ ep[id].pending >= Outstanding(id)
                      /\ failures = 0 => ep[id].pending = Outstanding(id)
    BY DEF WritesAccounted
  <2>1. Covers(ep[id], Len(wire[id]) + Data(cq, id), failures)
    BY InvGives
  <2> QED
    BY <2>1, OutstandingIs DEF Covers, Counts
<1> QED
  BY <1>1, ConnectionInvariant, PTL

(* When makeProgress has nothing to wait for, no write is under way        *)
(* (afterProgressResult).                                                  *)
THEOREM NothingUnderWayWhenReady == Spec => []ReadyIsQuiet
<1>1. ConnInv => ReadyIsQuiet
  <2> SUFFICES ASSUME ConnInv, NEW id \in Ids, ~HasPendingWork(ep[id]) PROVE wire[id] = <<>>
    BY DEF ReadyIsQuiet, Ready
  <2>1. ep[id] \in Endpoint /\ wire[id] \in Seq(BOOLEAN) /\ Data(cq, id) \in Nat
    BY InvGives
  <2>2. CASE ep[id].st = "Connected"
    <3>1. ep[id].pending \in Nat /\ ~(ep[id].pending > 0)
      BY <2>1, <2>2, Bounds DEF Endpoint, HasPendingWork
    <3>2. ep[id].pending >= Len(wire[id]) + Data(cq, id) /\ Len(wire[id]) \in Nat
      BY <2>2, InvGives DEF Covers, Counts
    <3>3. Len(wire[id]) = 0
      BY <2>1, <3>1, <3>2
    <3> QED
      BY <2>1, <3>3
  <2>3. CASE ep[id].st # "Connected"
    <3>1. ~HasEndpoint(ep[id])
      BY <2>1, <2>3 DEF Endpoint, States, HasPendingWork, HasEndpoint
    <3> QED
      BY <3>1 DEF ConnInv, LinkInv, Quiet
  <2> QED
    BY <2>2, <2>3
<1> QED
  BY <1>1, ConnectionInvariant, PTL

(* blockOnCQ never gets the completion of a target that is gone, which it  *)
(* would look for behind the end of the map.                               *)
THEOREM NoneForgottenWithCompletions == Spec => []NoCrash
<1>1. Init => NoCrash
  BY DEF Init, NoCrash
<1>2. ConnInv /\ NoCrash /\ [Next]_vars => NoCrash'
  <2> SUFFICES ASSUME ConnInv, NoCrash, [Next]_vars PROVE pc' # "crashed"
    BY DEF NoCrash
  <2>1. CASE TakeCompletion
    BY <2>1, TakeCompletionKeeps
  <2>2. CASE SleepTimeout
    <3>1. pc' \in {"app", "activate"}
      BY <2>2, InvGives, WakesTyped DEF SleepTimeout
    <3> QED
      BY <3>1
  <2>3. CASE ActivateIdle \/ CompletionsDrained \/ EvictDead \/ Interrupted
    BY <2>3 DEF ActivateIdle, CompletionsDrained, EvictDead, Interrupted, Goto, Continue
  <2>4. CASE pc' = pc
    BY <2>4 DEF NoCrash
  <2>5. \/ TakeCompletion \/ SleepTimeout \/ ActivateIdle \/ CompletionsDrained
        \/ EvictDead \/ Interrupted \/ pc' = pc
    BY DEF Next, Progress, vars, initiator, AddTarget, RemoveTarget, Accept, ReadTarget,
       TransferGrain, PollCompletion, PollEvent, Rest, DeliverRequest, RefuseRequest, Establish,
       Disconnect, CloseConfirmed, Complete
  <2> QED
    BY <2>1, <2>2, <2>3, <2>4, <2>5
<1> QED
  BY <1>1, <1>2, ConnectionInvariant, PTL DEF Spec
=============================================================================
