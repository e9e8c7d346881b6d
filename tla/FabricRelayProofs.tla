------------------------- MODULE FabricRelayProofs --------------------------
(***************************************************************************)
(* Proofs about FabricRelay, for every value of its constants: its type    *)
(* invariant, that no .fenv file is ever stray, that no queued envelope    *)
(* outlives the horizon, and that the registry stays within its bounds and *)
(* a live registration with its holder.                                    *)
(***************************************************************************)
EXTENDS FabricRelay, VecProofs

-----------------------------------------------------------------------------
(* The queue operators: types, and where elements come from and go to. *)

EnvsIn(q) == {q[i].env : i \in DOMAIN q}
Listed(s) == {s[i] : i \in DOMAIN s}

LEMMA EnvsOfType ==
    ASSUME NEW q \in Seq(Queued)
    PROVE  /\ EnvsOf(q) \in Seq(Envelope)
           /\ DOMAIN EnvsOf(q) = DOMAIN q
           /\ \A i \in DOMAIN q : EnvsOf(q)[i] = q[i].env
           /\ Listed(EnvsOf(q)) = EnvsIn(q)
<1>1. Len(q) \in Nat /\ DOMAIN q = 1..Len(q)
  BY LenProperties
<1>2. \A i \in 1..Len(q) : q[i].env \in Envelope
  <2>1. TAKE i \in 1..Len(q)
  <2>2. q[i] \in Queued
    BY ElementOfSeq
  <2> QED BY <2>2 DEF Queued
<1>3. EnvsOf(q) = [i \in 1..Len(q) |-> q[i].env]
  BY <1>1 DEF EnvsOf
<1>4. EnvsOf(q) \in Seq(Envelope)
  BY <1>1, <1>2, <1>3, IsASeq
<1> QED BY <1>1, <1>3, <1>4 DEF Listed, EnvsIn

LEMMA NewEntryType ==
    ASSUME NEW e \in Envelope
    PROVE  /\ NewEntry(e) \in Queued
           /\ NewEntry(e).env = e
           /\ NewEntry(e).deadline = e.pointer.deadline
<1>1. e.pointer \in Pointer /\ e.pointer.deadline \in Nat
  BY RelayAssumption DEF Envelope, Pointer
<1> QED BY <1>1 DEF NewEntry, Queued

\* Refreshing keeps every entry's file but the superseded one, and puts the
\* new one in.
LEMMA RefreshedType ==
    ASSUME NEW q \in Seq(Queued), NEW e \in Envelope, Same(q, e) # {}
    PROVE  /\ Refreshed(q, e) \in Seq(Queued)
           /\ DOMAIN Refreshed(q, e) = DOMAIN q
           /\ Superseded(q, e) \in Seq(Envelope)
           /\ EnvsIn(q) \cup {e} \subseteq EnvsIn(Refreshed(q, e)) \cup Listed(Superseded(q, e))
           /\ \A i \in DOMAIN q : \/ Refreshed(q, e)[i].deadline = q[i].deadline
                                  \/ Refreshed(q, e)[i].deadline = e.pointer.deadline
<1> DEFINE f == First(Same(q, e))
           new == [q[f] EXCEPT !.deadline = e.pointer.deadline, !.env = e]
<1>1. Len(q) \in Nat /\ DOMAIN q = 1..Len(q)
  BY LenProperties
<1>2. f \in DOMAIN q
  <2>1. Same(q, e) \subseteq 1..Len(q)
    BY <1>1 DEF Same
  <2>2. f \in Same(q, e)
    BY <2>1, <1>1, FirstIsFirst
  <2> QED BY <2>2 DEF Same
<1>3. q[f] \in Queued /\ q[f].env \in Envelope
  <2>1. q[f] \in Queued
    BY <1>1, <1>2, ElementOfSeq
  <2> QED BY <2>1 DEF Queued
<1>4. new \in Queued /\ new.env = e /\ new.deadline = e.pointer.deadline
  <2>1. e.pointer.deadline \in Nat
    BY RelayAssumption DEF Envelope, Pointer
  <2> QED BY <1>3, <2>1 DEF Queued
<1>5. Refreshed(q, e) = [q EXCEPT ![f] = new]
  BY DEF Refreshed
<1> HIDE DEF new
<1>6. /\ Refreshed(q, e) \in Seq(Queued)
      /\ DOMAIN Refreshed(q, e) = DOMAIN q
      /\ \A i \in DOMAIN q : Refreshed(q, e)[i] = IF i = f THEN new ELSE q[i]
  <2>1. [q EXCEPT ![f] = new] \in Seq(Queued)
    BY <1>1, <1>2, <1>4, ExceptSeq
  <2> QED BY <2>1, <1>5, <1>1, <1>2, <1>4
<1>7. Superseded(q, e) = IF q[f].env # e THEN <<q[f].env>> ELSE <<>>
  BY DEF Superseded
<1>8. Superseded(q, e) \in Seq(Envelope)
  BY <1>7, <1>3
<1>9. q[f].env # e => q[f].env \in Listed(Superseded(q, e))
  BY <1>7 DEF Listed
<1>10. e \in EnvsIn(Refreshed(q, e))
  BY <1>6, <1>2, <1>4 DEF EnvsIn
<1>11. \A i \in DOMAIN q : i # f => q[i].env \in EnvsIn(Refreshed(q, e))
  BY <1>6 DEF EnvsIn
<1>12. EnvsIn(q) \subseteq EnvsIn(Refreshed(q, e)) \cup Listed(Superseded(q, e))
  <2>1. \A i \in DOMAIN q : q[i].env \in EnvsIn(Refreshed(q, e)) \cup Listed(Superseded(q, e))
    BY <1>9, <1>10, <1>11
  <2> QED BY <2>1 DEF EnvsIn
<1> QED BY <1>4, <1>6, <1>8, <1>10, <1>12

\* Splitting a queue after its first m entries loses no file and changes no
\* entry.
LEMMA SplitQueue ==
    ASSUME NEW s \in Seq(Queued), NEW m \in 0..Len(s)
    PROVE  /\ DropFirst(s, m) \in Seq(Queued)
           /\ EnvsOf(SubSeq(s, 1, m)) \in Seq(Envelope)
           /\ EnvsIn(s) \subseteq EnvsIn(DropFirst(s, m)) \cup Listed(EnvsOf(SubSeq(s, 1, m)))
           /\ \A i \in DOMAIN DropFirst(s, m) :
                 \E k \in DOMAIN s : DropFirst(s, m)[i] = s[k]
<1>1. Len(s) \in Nat /\ DOMAIN s = 1..Len(s)
  BY LenProperties
<1>2. /\ DropFirst(s, m) \in Seq(Queued)
      /\ DOMAIN DropFirst(s, m) = 1..(Len(s) - m)
      /\ \A i \in 1..(Len(s) - m) : DropFirst(s, m)[i] = s[m + i]
  BY DropFirstKeepsRest
<1> DEFINE low == SubSeq(s, 1, m)
<1>3. low \in Seq(Queued) /\ DOMAIN low = 1..m /\ \A i \in 1..m : low[i] = s[i]
  <2>1. low = [i \in 1..m |-> s[i]]
    BY <1>1
  <2>2. \A i \in 1..m : s[i] \in Queued
    BY <1>1, ElementOfSeq
  <2> HIDE DEF low
  <2> QED BY <2>1, <2>2, IsASeq
<1> HIDE DEF low
<1>4. EnvsOf(low) \in Seq(Envelope) /\ Listed(EnvsOf(low)) = EnvsIn(low)
  BY <1>3, EnvsOfType
<1>5. \A i \in 1..Len(s) : s[i].env \in EnvsIn(DropFirst(s, m)) \cup EnvsIn(low)
  <2>1. TAKE i \in 1..Len(s)
  <2>2. CASE i <= m
    BY <2>2, <1>3 DEF EnvsIn
  <2>3. CASE i > m
    <3>1. i - m \in 1..(Len(s) - m) /\ m + (i - m) = i
      BY <2>3, <1>1
    <3>2. DropFirst(s, m)[i - m] = s[i]
      BY <3>1, <1>2
    <3> QED BY <3>1, <3>2, <1>2 DEF EnvsIn
  <2> QED BY <2>2, <2>3, <1>1
<1>6. EnvsIn(s) \subseteq EnvsIn(DropFirst(s, m)) \cup EnvsIn(low)
  BY <1>5, <1>1 DEF EnvsIn
<1>7. \A i \in 1..(Len(s) - m) : m + i \in 1..Len(s)
  BY <1>1
<1> QED BY <1>1, <1>2, <1>4, <1>6, <1>7 DEF low

\* So does parting it by a set of indices.
LEMMA PartQueue ==
    ASSUME NEW s \in Seq(Queued), NEW K, K \subseteq DOMAIN s
    PROVE  /\ Keep(s, K) \in Seq(Queued)
           /\ EnvsOf(Keep(s, DOMAIN s \ K)) \in Seq(Envelope)
           /\ EnvsIn(s) \subseteq EnvsIn(Keep(s, K)) \cup Listed(EnvsOf(Keep(s, DOMAIN s \ K)))
           /\ \A i \in DOMAIN Keep(s, K) : \E k \in K : Keep(s, K)[i] = s[k]
<1> DEFINE L == DOMAIN s \ K
<1>1. /\ Keep(s, K) \in Seq(Queued)
      /\ \A i \in DOMAIN Keep(s, K) : \E k \in K : Keep(s, K)[i] = s[k]
      /\ \A i \in K : \E j \in DOMAIN Keep(s, K) : Keep(s, K)[j] = s[i]
  BY KeepKeeps
<1>2. /\ Keep(s, L) \in Seq(Queued)
      /\ \A i \in L : \E j \in DOMAIN Keep(s, L) : Keep(s, L)[j] = s[i]
  <2>1. L \subseteq DOMAIN s
    OBVIOUS
  <2> HIDE DEF L
  <2> QED BY <2>1, KeepKeeps
<1>3. EnvsOf(Keep(s, L)) \in Seq(Envelope) /\ Listed(EnvsOf(Keep(s, L))) = EnvsIn(Keep(s, L))
  BY <1>2, EnvsOfType
<1>4. \A i \in K : s[i].env \in EnvsIn(Keep(s, K))
  BY <1>1 DEF EnvsIn
<1>5. \A i \in L : s[i].env \in EnvsIn(Keep(s, L))
  BY <1>2 DEF EnvsIn
<1>6. EnvsIn(s) \subseteq EnvsIn(Keep(s, K)) \cup EnvsIn(Keep(s, L))
  BY <1>4, <1>5 DEF EnvsIn
<1> QED BY <1>1, <1>3, <1>6

LEMMA PushedType ==
    ASSUME NEW q \in Seq(Queued), NEW e \in Envelope
    PROVE  /\ Pushed(q, e) \in Seq(Queued)
           /\ Evicted(q, e) \in Seq(Envelope)
           /\ EnvsIn(q) \cup {e} \subseteq EnvsIn(Pushed(q, e)) \cup Listed(Evicted(q, e))
           /\ \A i \in DOMAIN Pushed(q, e) :
                 \/ Pushed(q, e)[i].deadline = e.pointer.deadline
                 \/ \E k \in DOMAIN q : Pushed(q, e)[i].deadline = q[k].deadline
<1> DEFINE a == Append(q, NewEntry(e))
<1>1. Len(q) \in Nat /\ DOMAIN q = 1..Len(q)
  BY LenProperties
<1>2. NewEntry(e) \in Queued /\ NewEntry(e).env = e /\ NewEntry(e).deadline = e.pointer.deadline
  BY NewEntryType
<1>3. /\ a \in Seq(Queued) /\ Len(a) = Len(q) + 1
      /\ \A i \in 1..Len(q) : a[i] = q[i]
      /\ a[Len(q) + 1] = NewEntry(e)
  BY <1>2, AppendProperties
<1>4. Overflow(q) \in 0..Len(a)
  BY <1>1, <1>3, RelayAssumption DEF Overflow
<1> HIDE DEF a
<1>5. Pushed(q, e) = DropFirst(a, Overflow(q)) /\ Evicted(q, e) = EnvsOf(SubSeq(a, 1, Overflow(q)))
  BY DEF Pushed, Evicted, a
<1>6. /\ Pushed(q, e) \in Seq(Queued)
      /\ Evicted(q, e) \in Seq(Envelope)
      /\ EnvsIn(a) \subseteq EnvsIn(Pushed(q, e)) \cup Listed(Evicted(q, e))
      /\ \A i \in DOMAIN Pushed(q, e) : \E k \in DOMAIN a : Pushed(q, e)[i] = a[k]
  <2> DEFINE n == Overflow(q)
  <2>1. n \in 0..Len(a)
    BY <1>4
  <2> HIDE DEF n
  <2>2. /\ DropFirst(a, n) \in Seq(Queued)
        /\ EnvsOf(SubSeq(a, 1, n)) \in Seq(Envelope)
        /\ EnvsIn(a) \subseteq EnvsIn(DropFirst(a, n)) \cup Listed(EnvsOf(SubSeq(a, 1, n)))
        /\ \A i \in DOMAIN DropFirst(a, n) : \E k \in DOMAIN a : DropFirst(a, n)[i] = a[k]
    BY <1>3, <2>1, SplitQueue
  <2>3. Pushed(q, e) = DropFirst(a, n) /\ Evicted(q, e) = EnvsOf(SubSeq(a, 1, n))
    BY <1>5 DEF n
  <2> QED BY <2>2, <2>3
<1>7. DOMAIN a = 1..(Len(q) + 1)
  BY <1>3, LenProperties
<1>8. EnvsIn(q) \cup {e} \subseteq EnvsIn(a)
  <2>1. \A i \in DOMAIN q : i \in DOMAIN a /\ a[i].env = q[i].env
    BY <1>1, <1>3, <1>7
  <2>2. Len(q) + 1 \in DOMAIN a /\ a[Len(q) + 1].env = e
    BY <1>1, <1>2, <1>3, <1>7
  <2> QED BY <2>1, <2>2 DEF EnvsIn
<1>9. \A k \in DOMAIN a : (k \in DOMAIN q /\ a[k] = q[k]) \/ a[k] = NewEntry(e)
  <2>1. \A k \in 1..(Len(q) + 1) : k \in 1..Len(q) \/ k = Len(q) + 1
    BY <1>1
  <2> QED BY <2>1, <1>1, <1>3, <1>7
<1>10. \A i \in DOMAIN Pushed(q, e) :
          \/ Pushed(q, e)[i].deadline = e.pointer.deadline
          \/ \E k \in DOMAIN q : Pushed(q, e)[i].deadline = q[k].deadline
  <2>1. TAKE i \in DOMAIN Pushed(q, e)
  <2>2. PICK k \in DOMAIN a : Pushed(q, e)[i] = a[k]
    BY <1>6
  <2> QED BY <2>2, <1>9, <1>2
<1> QED BY <1>6, <1>8, <1>10

\* An fput keeps or removes every file of the queue and its own, whichever
\* branch it takes, and brings in no deadline but its own.
LEMMA PutQueue ==
    ASSUME NEW q \in Seq(Queued), NEW e \in Envelope, NEW now \in Nat
    PROVE  /\ AfterPut(q, e, now) \in Seq(Queued)
           /\ PutDrops(q, e, now) \in Seq(Envelope)
           /\ EnvsIn(q) \cup {e}
                \subseteq EnvsIn(AfterPut(q, e, now)) \cup Listed(PutDrops(q, e, now))
           /\ \A i \in DOMAIN AfterPut(q, e, now) :
                 \/ AfterPut(q, e, now)[i].deadline = e.pointer.deadline
                 \/ \E k \in DOMAIN q : AfterPut(q, e, now)[i].deadline = q[k].deadline
<1> DEFINE m == Merged(q, e)
           d == MergeDrops(q, e)
           live == Unburned(m, now)
           b == EnvsOf(Keep(m, DOMAIN m \ live))
<1>1. /\ m \in Seq(Queued)
      /\ d \in Seq(Envelope)
      /\ EnvsIn(q) \cup {e} \subseteq EnvsIn(m) \cup Listed(d)
      /\ \A i \in DOMAIN m : \/ m[i].deadline = e.pointer.deadline
                             \/ \E k \in DOMAIN q : m[i].deadline = q[k].deadline
  <2>1. CASE Same(q, e) # {}
    <3>1. m = Refreshed(q, e) /\ d = Superseded(q, e)
      BY <2>1 DEF Merged, MergeDrops
    <3> QED BY <2>1, <3>1, RefreshedType
  <2>2. CASE Same(q, e) = {}
    <3>1. m = Pushed(q, e) /\ d = Evicted(q, e)
      BY <2>2 DEF Merged, MergeDrops
    <3> HIDE DEF m, d
    <3>2. /\ Pushed(q, e) \in Seq(Queued)
          /\ Evicted(q, e) \in Seq(Envelope)
          /\ EnvsIn(q) \cup {e} \subseteq EnvsIn(Pushed(q, e)) \cup Listed(Evicted(q, e))
          /\ \A i \in DOMAIN Pushed(q, e) :
                \/ Pushed(q, e)[i].deadline = e.pointer.deadline
                \/ \E k \in DOMAIN q : Pushed(q, e)[i].deadline = q[k].deadline
      BY PushedType
    <3> QED BY <3>1, <3>2
  <2> QED BY <2>1, <2>2
<1>2. live \subseteq DOMAIN m
  BY DEF Unburned
<1>7. m \in Seq(Queued)
  BY <1>1
<1> HIDE DEF m, d, live
<1>3. AfterPut(q, e, now) = Keep(m, live) /\ PutDrops(q, e, now) = d \o b
  BY DEF AfterPut, PutDrops, Burned, m, d, live
<1>4. /\ Keep(m, live) \in Seq(Queued)
      /\ b \in Seq(Envelope)
      /\ EnvsIn(m) \subseteq EnvsIn(Keep(m, live)) \cup Listed(b)
      /\ \A i \in DOMAIN Keep(m, live) : \E k \in live : Keep(m, live)[i] = m[k]
  <2>1. Keep(m, live) \in Seq(Queued)
    BY <1>2, <1>7, PartQueue
  <2>2. b \in Seq(Envelope)
    BY <1>2, <1>7, PartQueue
  <2>3. EnvsIn(m) \subseteq EnvsIn(Keep(m, live)) \cup Listed(b)
    BY <1>2, <1>7, PartQueue
  <2>4. \A i \in DOMAIN Keep(m, live) : \E k \in live : Keep(m, live)[i] = m[k]
    BY <1>2, <1>7, KeepKeeps
  <2> QED BY <2>1, <2>2, <2>3, <2>4
<1> HIDE DEF b
<1>5. d \o b \in Seq(Envelope) /\ Listed(d) \cup Listed(b) \subseteq Listed(d \o b)
  <2>1. /\ Len(d) \in Nat /\ DOMAIN d = 1..Len(d)
        /\ Len(b) \in Nat /\ DOMAIN b = 1..Len(b)
    BY <1>1, <1>4, LenProperties
  <2>2. /\ d \o b \in Seq(Envelope)
        /\ Len(d \o b) = Len(d) + Len(b)
        /\ \A i \in 1..(Len(d) + Len(b)) :
              (d \o b)[i] = IF i <= Len(d) THEN d[i] ELSE b[i - Len(d)]
    BY <1>1, <1>4, ConcatProperties
  <2>3. DOMAIN (d \o b) = 1..(Len(d) + Len(b))
    BY <2>2, LenProperties
  <2>4. \A i \in 1..Len(d) : i \in 1..(Len(d) + Len(b)) /\ (d \o b)[i] = d[i]
    BY <2>1, <2>2
  <2>5. \A i \in 1..Len(b) :
            Len(d) + i \in 1..(Len(d) + Len(b)) /\ (d \o b)[Len(d) + i] = b[i]
    <3>1. TAKE i \in 1..Len(b)
    <3>2. Len(d) + i \in 1..(Len(d) + Len(b)) /\ ~ (Len(d) + i <= Len(d)) /\ (Len(d) + i) - Len(d) = i
      BY <2>1
    <3> QED BY <3>2, <2>2
  <2>6. Listed(d) \subseteq Listed(d \o b)
    BY <2>1, <2>3, <2>4 DEF Listed
  <2>7. Listed(b) \subseteq Listed(d \o b)
    BY <2>1, <2>3, <2>5 DEF Listed
  <2> QED BY <2>2, <2>6, <2>7
<1>6. \A i \in DOMAIN Keep(m, live) :
          \/ Keep(m, live)[i].deadline = e.pointer.deadline
          \/ \E k \in DOMAIN q : Keep(m, live)[i].deadline = q[k].deadline
  <2>1. TAKE i \in DOMAIN Keep(m, live)
  <2>2. PICK k \in live : Keep(m, live)[i] = m[k]
    BY <1>4
  <2> QED BY <2>2, <1>1, <1>2
<1> QED BY <1>1, <1>3, <1>4, <1>5, <1>6

\* The drain loop stops within the queue, and before its end only when it has
\* found max entries that are not expired.
LEMMA TakenType ==
    ASSUME NEW q \in Seq(Queued), NEW max \in Nat, NEW now \in Nat
    PROVE  /\ Taken(q, max, now) \in 0..Len(q)
           /\ \/ Taken(q, max, now) = Len(q)
              \/ Rank(Unburned(q, now), Taken(q, max, now)) >= max
<1> DEFINE U == Unburned(q, now)
           T == {n \in 0..Len(q) : n = Len(q) \/ Rank(U, n) >= max}
<1>1. Len(q) \in Nat /\ DOMAIN q = 1..Len(q)
  BY LenProperties
<1>2. U \subseteq 1..Len(q)
  BY <1>1 DEF Unburned
<1> HIDE DEF U
<1>3. \A n \in Nat : Rank(U, n) \in Nat
  <2>1. TAKE n \in Nat
  <2>2. Rank(U, n) \in 0..Cardinality(U)
    <3>1. n \in Int
      OBVIOUS
    <3> QED BY <3>1, <1>1, <1>2, RankType
  <2>3. Cardinality(U) \in Nat
    BY <1>1, <1>2, IndicesFinite
  <2> QED BY <2>2, <2>3
<1>4. PICK n \in T : \A k \in T : n <= k
  <2>1. T \subseteq Nat /\ T # {}
    BY <1>1
  <2> HIDE DEF T
  <2> QED BY <2>1, HasLeast
<1>5. \A i \in 1..n : Rank(U, i - 1) < max
  <2>2. n \in 0..Len(q)
    BY <1>4
  <2> HIDE DEF T
  <2>1. TAKE i \in 1..n
  <2>3. i - 1 \in 0..Len(q) /\ ~ (n <= i - 1) /\ i - 1 \in Nat
    BY <2>2, <1>1
  <2>4. i - 1 \notin T
    BY <2>3, <1>4
  <2>5. ~ (Rank(U, i - 1) >= max)
    BY <2>3, <2>4 DEF T
  <2> QED BY <2>3, <2>5, <1>3
<1>6. \E k \in 0..Len(q) :
         /\ \A i \in 1..k : Rank(Unburned(q, now), i - 1) < max
         /\ k = Len(q) \/ Rank(Unburned(q, now), k) >= max
  BY <1>4, <1>5 DEF U
<1> QED BY <1>6 DEF Taken

\* A drain keeps or removes every file of the queue, keeps entries as they
\* are, and answers with pointers.
LEMMA DrainQueue ==
    ASSUME NEW q \in Seq(Queued), NEW max \in Nat, NEW now \in Nat
    PROVE  /\ DropFirst(q, Taken(q, max, now)) \in Seq(Queued)
           /\ DrainDrops(q, max, now) \in Seq(Envelope)
           /\ EnvsIn(q) \subseteq EnvsIn(DropFirst(q, Taken(q, max, now)))
                                  \cup Listed(DrainDrops(q, max, now))
           /\ \A i \in DOMAIN DropFirst(q, Taken(q, max, now)) :
                 \E k \in DOMAIN q : DropFirst(q, Taken(q, max, now))[i] = q[k]
           /\ Delivered(q, max, now) \in Seq(Pointer)
<1> DEFINE n == Taken(q, max, now)
           K == {i \in Unburned(q, now) : i <= n}
           got == Keep(q, K)
<1>1. n \in 0..Len(q)
  BY TakenType
<1>2. K \subseteq DOMAIN q
  BY DEF Unburned
<1> HIDE DEF n
<1>3. /\ DropFirst(q, n) \in Seq(Queued)
      /\ EnvsOf(SubSeq(q, 1, n)) \in Seq(Envelope)
      /\ EnvsIn(q) \subseteq EnvsIn(DropFirst(q, n)) \cup Listed(EnvsOf(SubSeq(q, 1, n)))
      /\ \A i \in DOMAIN DropFirst(q, n) : \E k \in DOMAIN q : DropFirst(q, n)[i] = q[k]
  BY <1>1, SplitQueue
<1>4. DrainDrops(q, max, now) = EnvsOf(SubSeq(q, 1, n))
  BY DEF DrainDrops, n
<1>5. Delivered(q, max, now) \in Seq(Pointer)
  <2>1. Delivered(q, max, now) = [i \in DOMAIN got |-> got[i].pointer]
    BY DEF Delivered, n
  <2> HIDE DEF K
  <2>2. got \in Seq(Queued)
    BY <1>2, KeepKeeps
  <2> HIDE DEF got
  <2>3. Len(got) \in Nat /\ DOMAIN got = 1..Len(got)
    BY <2>2, LenProperties
  <2>4. \A i \in 1..Len(got) : got[i].pointer \in Pointer
    <3>1. TAKE i \in 1..Len(got)
    <3>2. got[i] \in Queued
      BY <2>2, ElementOfSeq
    <3> QED BY <3>2 DEF Queued
  <2>5. Delivered(q, max, now) = [i \in 1..Len(got) |-> got[i].pointer]
    BY <2>1, <2>3
  <2> QED BY <2>3, <2>4, <2>5, IsASeq
<1> QED BY <1>3, <1>4, <1>5 DEF n

\* open indexes exactly the envelopes it keeps.
LEMMA RebuiltType ==
    ASSUME NEW S, S \subseteq Envelope, IsFiniteSet(S), NEW s \in Sorted(S)
    PROVE  /\ RebuiltQueue(s) \in Seq(Queued)
           /\ S \subseteq EnvsIn(RebuiltQueue(s))
           /\ \A i \in DOMAIN RebuiltQueue(s) :
                 \E f \in S : RebuiltQueue(s)[i].deadline = f.pointer.deadline
<1>1. Cardinality(S) \in Nat
  BY FS_CardinalityType
<1>2. s \in [1..Cardinality(S) -> S] /\ \A f \in S : \E i \in DOMAIN s : s[i] = f
  BY DEF Sorted
<1>3. \A i \in 1..Cardinality(S) : s[i] \in S /\ s[i] \in Envelope
  BY <1>2
<1>4. \A i \in 1..Cardinality(S) :
         /\ NewEntry(s[i]) \in Queued
         /\ NewEntry(s[i]).env = s[i]
         /\ NewEntry(s[i]).deadline = s[i].pointer.deadline
  BY <1>3, NewEntryType
<1>5. RebuiltQueue(s) = [i \in 1..Cardinality(S) |-> NewEntry(s[i])]
  BY <1>2 DEF RebuiltQueue
<1>6. RebuiltQueue(s) \in Seq(Queued)
  BY <1>1, <1>4, <1>5, IsASeq
<1>7. S \subseteq EnvsIn(RebuiltQueue(s))
  <2>1. SUFFICES ASSUME NEW f \in S PROVE f \in EnvsIn(RebuiltQueue(s))
    OBVIOUS
  <2>2. PICK i \in 1..Cardinality(S) : s[i] = f
    BY <1>2
  <2> QED BY <2>2, <1>4, <1>5 DEF EnvsIn
<1> QED BY <1>3, <1>4, <1>5, <1>6, <1>7

-----------------------------------------------------------------------------
(* The type invariant. *)

\* RateLimiter::allow keeps the windows well-formed and within the rate.
LEMMA WindowsType ==
    ASSUME NEW w, DOMAIN w \subseteq Ips, w \in [DOMAIN w -> Window],
           \A i \in DOMAIN w : w[i].hits <= PutRate,
           NEW ip \in Ips, NEW now \in Nat, Admits(w, PutRate, ip, now)
    PROVE  LET v == AfterHit(w, PutRate, ip, now)
           IN  /\ DOMAIN v \subseteq Ips /\ v \in [DOMAIN v -> Window]
               /\ \A i \in DOMAIN v : v[i].hits <= PutRate
<1> DEFINE v == AfterHit(w, PutRate, ip, now)
           D == DOMAIN w \cup {ip}
           hit == IF OpensWindow(w, ip, now) THEN [sec |-> now, hits |-> 1]
                  ELSE [w[ip] EXCEPT !.hits = @ + 1]
<1>0. PutRate \in Nat
  BY RelayAssumption
<1>1. CASE PutRate = 0
  BY <1>1 DEF AfterHit
<1>2. CASE PutRate # 0
  <2>1. hit \in Window /\ hit.hits <= PutRate
    <3>1. CASE OpensWindow(w, ip, now)
      BY <3>1, <1>0, <1>2 DEF Window
    <3>2. CASE ~ OpensWindow(w, ip, now)
      <4>1. ip \in DOMAIN w /\ w[ip] \in Window /\ w[ip].hits < PutRate
        BY <3>2, <1>2 DEF OpensWindow, Admits
      <4>2. hit = [w[ip] EXCEPT !.hits = @ + 1]
        BY <3>2
      <4> QED BY <4>1, <4>2, <1>0 DEF Window
    <3> QED BY <3>1, <3>2
  <2>2. v = [i \in D |-> IF i # ip THEN w[i] ELSE hit]
    BY <1>2 DEF AfterHit
  <2> HIDE DEF hit, v
  <2>3. \A i \in D : i # ip => w[i] \in Window /\ w[i].hits <= PutRate
    OBVIOUS
  <2>4. DOMAIN v = D /\ \A i \in D : v[i] \in Window /\ v[i].hits <= PutRate
    BY <2>1, <2>2, <2>3
  <2>5. v \in [D -> Window]
    BY <2>2, <2>4
  <2> QED BY <2>4, <2>5 DEF v
<1> QED BY <1>1, <1>2

\* A clock read is a natural number, and not ahead.
LEMMA ReadType ==
    ASSUME TypeOK, NEW t \in Handlers, NEW now \in Read(t)
    PROVE  now \in Nat /\ now <= clock
<1>1. seen[t] \in 0..clock /\ clock \in Nat
  BY DEF TypeOK, HandlerTypeOK, NodeTypeOK
<1> QED BY <1>1 DEF Read

\* Answering leaves the other handlers as they are.
LEMMA FinishType ==
    ASSUME TypeOK, NEW t \in Handlers, Finish(t), clock' = clock,
           fresh' = fresh \/ fresh' = [fresh EXCEPT ![t] = NoEnvelope],
           out' = out \/ out' = [out EXCEPT ![t] = <<>>]
    PROVE  HandlerTypeOK'
<1> USE DEF TypeOK, HandlerTypeOK
<1>1. /\ pc' \in [Handlers -> Labels] /\ pc'[t] = "idle"
      /\ \A u \in Handlers : u # t => pc'[u] = pc[u]
  BY DEF Finish, Labels
<1>2. /\ req' \in [Handlers -> Request \cup {NoRequest}]
      /\ \A u \in Handlers : u # t => req'[u] = req[u]
  BY DEF Finish
<1>3. seen' \in [Handlers -> 0..clock']
  BY DEF Finish, NodeTypeOK
<1>4. /\ fresh' \in [Handlers -> Envelope \cup {NoEnvelope}]
      /\ \A u \in Handlers : u # t => fresh'[u] = fresh[u]
  OBVIOUS
<1>5. out' \in [Handlers -> Seq(Pointer)]
  <2>1. <<>> \in Seq(Pointer)
    OBVIOUS
  <2> QED BY <2>1
<1>6. pc'[t] \notin Stamped \cup {"register", "lookup", "persist", "limit", "auth", "drain", "reply"}
  BY <1>1 DEF Stamped
<1>7. \A u \in Handlers :
          /\ pc'[u] = "register" => req'[u] \in FregRequest
          /\ pc'[u] \in {"lookup", "persist"} \cup Stamped => req'[u] \in FputRequest
          /\ pc'[u] = "limit" => req'[u] \in FputRequest \cup FpopRequest
          /\ pc'[u] \in {"auth", "drain", "reply"} => req'[u] \in FpopRequest
          /\ pc'[u] \in Stamped => /\ fresh'[u] \in Envelope
                                   /\ fresh'[u].handle = req'[u].handle
                                   /\ fresh'[u].pointer = req'[u].pointer
  <2>1. TAKE u \in Handlers
  <2>2. CASE u = t
    BY <1>6, <2>2
  <2>3. CASE u # t
    BY <1>1, <1>2, <1>4, <2>3
  <2> QED BY <2>2, <2>3
<1> QED BY <1>1, <1>2, <1>3, <1>4, <1>5, <1>7

\* Going on to a region of the same verb does too; an fput's envelope comes
\* along.
LEMMA GotoType ==
    ASSUME TypeOK, NEW t \in Handlers, NEW label \in Labels, Goto(t, label), clock' = clock,
           label # "register",
           label \in {"lookup", "persist"} => req[t] \in FputRequest,
           label = "limit" => req[t] \in FputRequest \cup FpopRequest,
           label \in {"auth", "drain", "reply"} => req[t] \in FpopRequest,
           label \in Stamped => pc[t] \in Stamped, fresh' = fresh,
           out' \in [Handlers -> Seq(Pointer)]
    PROVE  HandlerTypeOK'
<1> USE DEF TypeOK, HandlerTypeOK
<1>1. /\ pc' \in [Handlers -> Labels] /\ pc'[t] = label
      /\ \A u \in Handlers : u # t => pc'[u] = pc[u]
  BY DEF Goto
<1>2. req' = req
  BY DEF Goto
<1>3. seen' \in [Handlers -> 0..clock']
  BY DEF Goto, NodeTypeOK
<1>4. label \in Stamped => /\ req[t] \in FputRequest /\ fresh[t] \in Envelope
                           /\ fresh[t].handle = req[t].handle
                           /\ fresh[t].pointer = req[t].pointer
  OBVIOUS
<1>5. \A u \in Handlers :
          /\ pc'[u] = "register" => req'[u] \in FregRequest
          /\ pc'[u] \in {"lookup", "persist"} \cup Stamped => req'[u] \in FputRequest
          /\ pc'[u] = "limit" => req'[u] \in FputRequest \cup FpopRequest
          /\ pc'[u] \in {"auth", "drain", "reply"} => req'[u] \in FpopRequest
          /\ pc'[u] \in Stamped => /\ fresh'[u] \in Envelope
                                   /\ fresh'[u].handle = req'[u].handle
                                   /\ fresh'[u].pointer = req'[u].pointer
  <2>1. TAKE u \in Handlers
  <2>2. CASE u = t
    BY <1>1, <1>2, <1>4, <2>2
  <2>3. CASE u # t
    BY <1>1, <1>2, <2>3
  <2> QED BY <2>2, <2>3
<1> QED BY <1>1, <1>2, <1>3, <1>5

\* A region that leaves the envelopes' files alone, or only removes some.
LEMMA DiskKept == ASSUME TypeOK, UNCHANGED disk PROVE DiskTypeOK'
BY DEF disk, TypeOK, DiskTypeOK

LEMMA DiskRemoved == ASSUME TypeOK, NEW envs, Remove(envs) PROVE DiskTypeOK'
<1>1. tmps' \subseteq Envelope /\ torn' \subseteq {"tmp", "fenv"} \X Envelope
  BY DEF Remove, TypeOK, DiskTypeOK
<1>2. fd' \in [Handlers -> {"none", "tmp", "fenv"}]
  BY DEF Remove, TypeOK, DiskTypeOK
<1> QED BY <1>1, <1>2 DEF DiskTypeOK

\* An empty registry and an empty limiter, as open makes them.
LEMMA EmptyMaps ==
    /\ DOMAIN NoRegistrations = {} /\ NoRegistrations \in [{} -> Registration]
    /\ DOMAIN NoWindows = {} /\ NoWindows \in [{} -> Window]
BY DEF NoRegistrations, NoWindows

\* The type invariant holds initially.
LEMMA TypeInit == Init => TypeOK
<1> SUFFICES ASSUME Init PROVE TypeOK
  OBVIOUS
<1>1. NodeTypeOK
  <2>1. /\ DOMAIN reg \subseteq Handles /\ reg \in [DOMAIN reg -> Registration]
        /\ DOMAIN wins \subseteq Ips /\ wins \in [DOMAIN wins -> Window]
        /\ \A i \in DOMAIN wins : wins[i].hits <= PutRate
    BY EmptyMaps DEF Init
  <2>2. clock \in 1..MaxTime /\ lastSweep \in 0..clock /\ up \in BOOLEAN
    <3>1. MaxTime \in Nat /\ MaxTime >= 1
      BY RelayAssumption
    <3>2. clock = 1 /\ lastSweep = 0
      BY DEF Init
    <3>3. clock \in 1..MaxTime /\ lastSweep \in 0..clock
      BY <3>1, <3>2
    <3>4. up \in BOOLEAN
      BY Zenon DEF Init
    <3> QED BY <3>3, <3>4
  <2>3. queues \in [Handles -> Seq(Queued)]
    <3>1. <<>> \in Seq(Queued)
      OBVIOUS
    <3> QED BY <3>1 DEF Init
  <2>4. files \subseteq Envelope /\ IsFiniteSet(files)
    BY RelayAssumption DEF Init
  <2> QED BY <2>1, <2>2, <2>3, <2>4 DEF NodeTypeOK
<1>2. HandlerTypeOK
  BY DEF Init, HandlerTypeOK, Labels, Stamped, NoRequest, NoEnvelope
<1>3. DiskTypeOK
  BY DEF Init, DiskTypeOK
<1> QED BY <1>1, <1>2, <1>3 DEF TypeOK

LEMMA TickType == ASSUME TypeOK, Tick PROVE TypeOK'
<1> USE DEF Tick, store, TypeOK
<1>1. clock' \in 1..MaxTime /\ clock <= clock' /\ clock \in Nat /\ clock' \in Nat
  BY RelayAssumption DEF NodeTypeOK
<1>2. NodeTypeOK'
  BY <1>1 DEF NodeTypeOK
<1>3. HandlerTypeOK'
  <2>1. seen' \in [Handlers -> 0..clock']
    BY <1>1 DEF HandlerTypeOK
  <2> QED BY <2>1 DEF HandlerTypeOK
<1> QED BY <1>2, <1>3, DiskKept

LEMMA ReceiveType ==
    ASSUME TypeOK, NEW t \in Handlers, NEW r \in Request, Receive(t, r)
    PROVE  TypeOK'
<1> USE DEF Receive, store, TypeOK
<1>1. NodeTypeOK'
  BY DEF NodeTypeOK
<1>2. /\ Entry(r.verb) \in {"register", "lookup", "limit"}
      /\ Entry(r.verb) = "register" => r \in FregRequest
      /\ Entry(r.verb) = "lookup" => r \in FputRequest
      /\ Entry(r.verb) = "limit" => r \in FpopRequest
  BY DEF Entry, Request, FregRequest, FputRequest, FpopRequest
<1>3. HandlerTypeOK'
  <2> USE DEF HandlerTypeOK
  <2>1. /\ pc' \in [Handlers -> Labels] /\ pc'[t] = Entry(r.verb)
        /\ \A u \in Handlers : u # t => pc'[u] = pc[u]
    BY <1>2 DEF Labels
  <2>2. /\ req' \in [Handlers -> Request \cup {NoRequest}] /\ req'[t] = r
        /\ \A u \in Handlers : u # t => req'[u] = req[u]
    OBVIOUS
  <2>3. seen' \in [Handlers -> 0..clock']
    BY DEF NodeTypeOK
  <2>4. Entry(r.verb) \notin Stamped \cup {"persist", "auth", "drain", "reply"}
    BY <1>2 DEF Stamped
  <2>5. \A u \in Handlers :
            /\ pc'[u] = "register" => req'[u] \in FregRequest
            /\ pc'[u] \in {"lookup", "persist"} \cup Stamped => req'[u] \in FputRequest
            /\ pc'[u] = "limit" => req'[u] \in FputRequest \cup FpopRequest
            /\ pc'[u] \in {"auth", "drain", "reply"} => req'[u] \in FpopRequest
            /\ pc'[u] \in Stamped => /\ fresh'[u] \in Envelope
                                     /\ fresh'[u].handle = req'[u].handle
                                     /\ fresh'[u].pointer = req'[u].pointer
    <3>1. TAKE u \in Handlers
    <3>2. CASE u = t
      BY <1>2, <2>1, <2>2, <2>4, <3>2
    <3>3. CASE u # t
      BY <2>1, <2>2, <3>3
    <3> QED BY <3>2, <3>3
  <2> QED BY <2>1, <2>2, <2>3, <2>5
<1> QED BY <1>1, <1>3, DiskKept

LEMMA FregType == ASSUME TypeOK, NEW t \in Handlers, Freg(t) PROVE TypeOK'
<1>1. HandlerTypeOK'
  BY FinishType DEF Freg
<1>2. PICK now \in Read(t) :
         /\ lastSweep' = SweepTime(now)
         /\ \/ reg' = [h \in DOMAIN Swept(now) \cup {req[t].handle} |->
                          IF h = req[t].handle THEN Granted(req[t], now) ELSE Swept(now)[h]]
            \/ reg' = Swept(now)
  BY DEF Freg
<1>3. now \in Nat /\ now <= clock
  BY ReadType
<1>4. lastSweep' \in 0..clock'
  BY <1>2, <1>3 DEF SweepTime, TypeOK, NodeTypeOK, Freg
<1>5. /\ DOMAIN Swept(now) \subseteq Handles
      /\ \A h \in DOMAIN Swept(now) : Swept(now)[h] \in Registration
      /\ Swept(now) \in [DOMAIN Swept(now) -> Registration]
  BY DEF Swept, TypeOK, NodeTypeOK
<1>6. req[t].handle \in Handles /\ Granted(req[t], now) \in Registration
  <2>1. req[t] \in FregRequest
    BY DEF Freg, TypeOK, HandlerTypeOK
  <2>2. /\ req[t].handle \in Handles /\ req[t].token \in Tokens
        /\ req[t].lease \in Nat /\ MaxLease \in Nat
    BY <2>1, RelayAssumption DEF FregRequest
  <2> QED BY <2>2, <1>3 DEF Granted, Registration
<1>7. DOMAIN reg' \subseteq Handles /\ reg' \in [DOMAIN reg' -> Registration]
  <2> DEFINE D == DOMAIN Swept(now) \cup {req[t].handle}
             g == [h \in D |-> IF h = req[t].handle THEN Granted(req[t], now) ELSE Swept(now)[h]]
  <2>1. D \subseteq Handles /\ g \in [D -> Registration] /\ DOMAIN g = D
    BY <1>5, <1>6
  <2>2. reg' = g \/ reg' = Swept(now)
    BY <1>2
  <2> HIDE DEF D, g
  <2> QED BY <1>5, <2>1, <2>2
<1>8. NodeTypeOK'
  BY <1>4, <1>7 DEF Freg, TypeOK, NodeTypeOK
<1> QED BY <1>1, <1>8, DiskKept DEF Freg, TypeOK

LEMMA FputLookupType == ASSUME TypeOK, NEW t \in Handlers, FputLookup(t) PROVE TypeOK'
<1>1. NodeTypeOK'
  BY DEF FputLookup, store, TypeOK, NodeTypeOK
<1>2. HandlerTypeOK'
  <2>1. CASE Finish(t)
    BY <2>1, FinishType DEF FputLookup
  <2>2. CASE Goto(t, "limit")
    <3>1. req[t] \in FputRequest /\ "limit" \in Labels /\ out' \in [Handlers -> Seq(Pointer)]
      BY DEF FputLookup, Labels, TypeOK, HandlerTypeOK
    <3> QED BY <2>2, <3>1, GotoType DEF FputLookup, Stamped
  <2> QED BY <2>1, <2>2 DEF FputLookup
<1> QED BY <1>1, <1>2, DiskKept DEF FputLookup, TypeOK

LEMMA LimitType == ASSUME TypeOK, NEW t \in Handlers, Limit(t) PROVE TypeOK'
<1>1. req[t] \in FputRequest \cup FpopRequest /\ req[t].ip \in Ips
      /\ out' \in [Handlers -> Seq(Pointer)]
  <2>1. req[t] \in FputRequest \cup FpopRequest
    BY DEF Limit, TypeOK, HandlerTypeOK
  <2> QED BY <2>1 DEF Limit, TypeOK, HandlerTypeOK, FputRequest, FpopRequest
<1>2. PICK now \in Read(t) :
         \/ /\ Admits(wins, PutRate, req[t].ip, now)
            /\ wins' = AfterHit(wins, PutRate, req[t].ip, now)
            /\ Goto(t, AfterLimit(req[t].verb))
         \/ Finish(t) /\ UNCHANGED wins
  BY DEF Limit
<1>3. now \in Nat
  BY ReadType
<1>4. CASE /\ Admits(wins, PutRate, req[t].ip, now)
           /\ wins' = AfterHit(wins, PutRate, req[t].ip, now)
           /\ Goto(t, AfterLimit(req[t].verb))
  <2>1. /\ DOMAIN wins' \subseteq Ips /\ wins' \in [DOMAIN wins' -> Window]
        /\ \A i \in DOMAIN wins' : wins'[i].hits <= PutRate
    BY <1>1, <1>3, <1>4, WindowsType DEF TypeOK, NodeTypeOK
  <2>2. NodeTypeOK'
    BY <2>1 DEF Limit, TypeOK, NodeTypeOK
  <2>3. CASE req[t] \in FputRequest
    <3>1. AfterLimit(req[t].verb) = "persist" /\ "persist" \in Labels
      BY <2>3 DEF AfterLimit, FputRequest, Labels
    <3> QED BY <1>1, <1>4, <2>2, <2>3, <3>1, GotoType, DiskKept DEF Limit, TypeOK, Stamped
  <2>4. CASE req[t] \in FpopRequest
    <3>1. AfterLimit(req[t].verb) = "auth" /\ "auth" \in Labels
      BY <2>4 DEF AfterLimit, FpopRequest, Labels
    <3> QED BY <1>1, <1>4, <2>2, <2>4, <3>1, GotoType, DiskKept DEF Limit, TypeOK, Stamped
  <2> QED BY <1>1, <2>3, <2>4
<1>5. CASE Finish(t) /\ UNCHANGED wins
  <2>1. NodeTypeOK'
    BY <1>5 DEF Limit, TypeOK, NodeTypeOK
  <2> QED BY <1>5, <2>1, FinishType, DiskKept DEF Limit, TypeOK
<1> QED BY <1>2, <1>4, <1>5

LEMMA FputPersistType == ASSUME TypeOK, NEW t \in Handlers, FputPersist(t) PROVE TypeOK'
<1> USE DEF FputPersist, TypeOK
<1>1. PICK received \in Read(t) :
         LET env == [handle |-> req[t].handle, pointer |-> req[t].pointer,
                     received |-> received]
         IN  /\ fresh' = [fresh EXCEPT ![t] = env]
             /\ tmps' = tmps \cup {env} /\ torn' = torn \cup {<<"tmp", env>>}
  OBVIOUS
<1> DEFINE env == [handle |-> req[t].handle, pointer |-> req[t].pointer,
                   received |-> received]
<1>2. req[t] \in FputRequest
  BY DEF HandlerTypeOK
<1>3. env \in Envelope /\ env.handle = req[t].handle /\ env.pointer = req[t].pointer
  <2>1. received \in Nat
    BY ReadType
  <2> QED BY <1>2, <2>1 DEF FputRequest, Envelope
<1>4. /\ fresh' = [fresh EXCEPT ![t] = env]
      /\ tmps' = tmps \cup {env} /\ torn' = torn \cup {<<"tmp", env>>}
  BY <1>1
<1> HIDE DEF env
<1>5. DiskTypeOK'
  <2>1. <<"tmp", env>> \in {"tmp", "fenv"} \X Envelope
    BY <1>3
  <2>2. fd' \in [Handlers -> {"none", "tmp", "fenv"}]
    BY DEF DiskTypeOK
  <2> QED BY <1>3, <1>4, <2>1, <2>2 DEF DiskTypeOK
<1>6. NodeTypeOK'
  BY DEF store, NodeTypeOK
<1>7. HandlerTypeOK'
  <2> USE DEF HandlerTypeOK
  <2>1. /\ pc' \in [Handlers -> Labels] /\ pc'[t] = "write"
        /\ \A u \in Handlers : u # t => pc'[u] = pc[u]
    BY DEF Goto, Labels
  <2>2. req' = req /\ out' = out /\ clock' = clock
    BY DEF Goto
  <2>3. seen' \in [Handlers -> 0..clock']
    BY DEF Goto, NodeTypeOK
  <2>4. /\ fresh' \in [Handlers -> Envelope \cup {NoEnvelope}] /\ fresh'[t] = env
        /\ \A u \in Handlers : u # t => fresh'[u] = fresh[u]
    BY <1>3, <1>4
  <2> QED BY <1>2, <1>3, <2>1, <2>2, <2>3, <2>4
<1> QED BY <1>5, <1>6, <1>7

LEMMA FputWriteType == ASSUME TypeOK, NEW t \in Handlers, FputWrite(t) PROVE TypeOK'
<1>1. NodeTypeOK'
  BY DEF FputWrite, store, TypeOK, NodeTypeOK
<1>2. DiskTypeOK'
  BY DEF FputWrite, TypeOK, DiskTypeOK
<1>3. "rename" \in Labels /\ pc[t] \in Stamped /\ out' \in [Handlers -> Seq(Pointer)]
  BY DEF FputWrite, Labels, Stamped, TypeOK, HandlerTypeOK
<1> QED BY <1>1, <1>2, <1>3, GotoType DEF FputWrite, TypeOK

LEMMA FputRenameType == ASSUME TypeOK, NEW t \in Handlers, FputRename(t) PROVE TypeOK'
<1>1. pc[t] \in Stamped /\ fresh[t] \in Envelope
  BY DEF FputRename, Stamped, TypeOK, HandlerTypeOK
<1>2. files' \subseteq Envelope /\ IsFiniteSet(files')
  <2>1. files \subseteq Envelope /\ IsFiniteSet(files) /\ files' = files \cup {fresh[t]}
    BY DEF FputRename, TypeOK, NodeTypeOK
  <2> QED BY <1>1, <2>1, FS_AddElement
<1>3. NodeTypeOK'
  BY <1>2 DEF FputRename, TypeOK, NodeTypeOK
<1>4. DiskTypeOK'
  <2>1. tmps' \subseteq Envelope
    BY DEF FputRename, TypeOK, DiskTypeOK
  <2>2. torn' \subseteq {"tmp", "fenv"} \X Envelope
    <3>1. <<"fenv", fresh[t]>> \in {"tmp", "fenv"} \X Envelope
      BY <1>1
    <3> QED BY <3>1 DEF FputRename, Moved, TypeOK, DiskTypeOK
  <2>3. fd' \in [Handlers -> {"none", "tmp", "fenv"}]
    BY DEF FputRename, TypeOK, DiskTypeOK
  <2> QED BY <2>1, <2>2, <2>3 DEF DiskTypeOK
<1>5. "enqueue" \in Labels /\ out' \in [Handlers -> Seq(Pointer)]
  BY DEF FputRename, Labels, TypeOK, HandlerTypeOK
<1> QED BY <1>1, <1>3, <1>4, <1>5, GotoType DEF FputRename, TypeOK

\* The refusals change nothing but the handler and the .tmp it was at.
LEMMA FputGivesUpType ==
    ASSUME TypeOK, NEW t \in Handlers, FputRefuse(t) \/ FputPersistFails(t)
    PROVE  TypeOK'
<1>1. /\ Finish(t) /\ UNCHANGED <<clock, store, up, out>>
      /\ fresh' = fresh \/ fresh' = [fresh EXCEPT ![t] = NoEnvelope]
  BY DEF FputRefuse, FputPersistFails
<1>2. NodeTypeOK'
  BY <1>1 DEF store, TypeOK, NodeTypeOK
<1>3. DiskTypeOK'
  <2>1. CASE FputRefuse(t)
    BY <2>1, DiskKept DEF FputRefuse
  <2>2. CASE FputPersistFails(t)
    <3>1. tmps' \subseteq tmps /\ torn' \subseteq torn
      BY <2>2 DEF FputPersistFails
    <3>2. fd' \in [Handlers -> {"none", "tmp", "fenv"}]
      BY <2>2 DEF FputPersistFails, TypeOK, DiskTypeOK
    <3> QED BY <3>1, <3>2 DEF TypeOK, DiskTypeOK
  <2> QED BY <2>1, <2>2
<1> QED BY <1>1, <1>2, <1>3, FinishType DEF TypeOK

LEMMA FputEnqueueType == ASSUME TypeOK, NEW t \in Handlers, FputEnqueue(t) PROVE TypeOK'
<1> DEFINE h == req[t].handle
           drops == PutDrops(queues[h], fresh[t], clock)
<1>1. HandlerTypeOK'
  BY FinishType DEF FputEnqueue
<1>2. h \in Handles /\ queues[h] \in Seq(Queued) /\ fresh[t] \in Envelope /\ clock \in Nat
  BY DEF FputEnqueue, Stamped, TypeOK, NodeTypeOK, HandlerTypeOK, FputRequest
<1>3. AfterPut(queues[h], fresh[t], clock) \in Seq(Queued)
  BY <1>2, PutQueue
<1>4. /\ queues' = [queues EXCEPT ![h] = AfterPut(queues[h], fresh[t], clock)]
      /\ Remove(Listed(drops)) /\ files' = files \ Listed(drops)
  BY DEF FputEnqueue, Remove, Listed
<1> HIDE DEF h, drops
<1>5. queues' \in [Handles -> Seq(Queued)]
  BY <1>2, <1>3, <1>4 DEF TypeOK, NodeTypeOK
<1>6. files' \subseteq Envelope /\ IsFiniteSet(files')
  BY <1>4, FS_Subset DEF TypeOK, NodeTypeOK
<1>7. NodeTypeOK'
  BY <1>5, <1>6 DEF FputEnqueue, TypeOK, NodeTypeOK
<1> QED BY <1>1, <1>4, <1>7, DiskRemoved DEF TypeOK

LEMMA FpopAuthType == ASSUME TypeOK, NEW t \in Handlers, FpopAuth(t) PROVE TypeOK'
<1>1. NodeTypeOK'
  BY DEF FpopAuth, store, TypeOK, NodeTypeOK
<1>2. HandlerTypeOK'
  <2>1. CASE Finish(t)
    BY <2>1, FinishType DEF FpopAuth
  <2>2. CASE Goto(t, "drain")
    <3>1. req[t] \in FpopRequest /\ "drain" \in Labels /\ out' \in [Handlers -> Seq(Pointer)]
      BY DEF FpopAuth, Labels, TypeOK, HandlerTypeOK
    <3> QED BY <2>2, <3>1, GotoType DEF FpopAuth, Stamped
  <2> QED BY <2>1, <2>2 DEF FpopAuth
<1> QED BY <1>1, <1>2, DiskKept DEF FpopAuth, TypeOK

LEMMA FpopDrainType == ASSUME TypeOK, NEW t \in Handlers, FpopDrain(t) PROVE TypeOK'
<1> DEFINE h == req[t].handle
           q == queues[h]
           max == req[t].max
<1>1. h \in Handles /\ q \in Seq(Queued) /\ max \in Nat /\ req[t] \in FpopRequest
  BY RelayAssumption DEF FpopDrain, TypeOK, NodeTypeOK, HandlerTypeOK, FpopRequest
<1>2. PICK now \in Read(t) :
         /\ queues' = [queues EXCEPT ![h] = DropFirst(q, Taken(q, max, now))]
         /\ Remove(Listed(DrainDrops(q, max, now)))
         /\ files' = files \ Listed(DrainDrops(q, max, now))
         /\ out' = [out EXCEPT ![t] = Delivered(q, max, now)]
  BY DEF FpopDrain, Remove, Listed
<1>3. now \in Nat
  BY ReadType
<1> HIDE DEF h, q, max
<1>4. /\ DropFirst(q, Taken(q, max, now)) \in Seq(Queued)
      /\ Delivered(q, max, now) \in Seq(Pointer)
  BY <1>1, <1>3, DrainQueue
<1>5. queues' \in [Handles -> Seq(Queued)] /\ out' \in [Handlers -> Seq(Pointer)]
  BY <1>1, <1>2, <1>4 DEF TypeOK, NodeTypeOK, HandlerTypeOK
<1>6. files' \subseteq Envelope /\ IsFiniteSet(files')
  BY <1>2, FS_Subset DEF TypeOK, NodeTypeOK
<1>7. NodeTypeOK'
  BY <1>5, <1>6 DEF FpopDrain, TypeOK, NodeTypeOK
<1>8. "reply" \in Labels
  BY DEF Labels
<1> QED BY <1>1, <1>2, <1>5, <1>7, <1>8, GotoType, DiskRemoved DEF FpopDrain, Stamped, TypeOK

LEMMA FpopReplyType == ASSUME TypeOK, NEW t \in Handlers, FpopReply(t) PROVE TypeOK'
<1>1. NodeTypeOK'
  BY DEF FpopReply, store, TypeOK, NodeTypeOK
<1> QED BY <1>1, FinishType, DiskKept DEF FpopReply, TypeOK

LEMMA CrashType == ASSUME TypeOK, Crash PROVE TypeOK'
<1>1. files' \subseteq files
  BY DEF Crash
<1>2. files' \subseteq Envelope /\ IsFiniteSet(files')
  BY <1>1, FS_Subset DEF TypeOK, NodeTypeOK
<1>3. NodeTypeOK'
  <2>1. <<>> \in Seq(Queued)
    OBVIOUS
  <2>2. queues' \in [Handles -> Seq(Queued)]
    BY <2>1 DEF Crash
  <2>3. /\ DOMAIN reg' \subseteq Handles /\ reg' \in [DOMAIN reg' -> Registration]
        /\ DOMAIN wins' \subseteq Ips /\ wins' \in [DOMAIN wins' -> Window]
        /\ \A i \in DOMAIN wins' : wins'[i].hits <= PutRate
    BY EmptyMaps DEF Crash
  <2>4. clock' \in 1..MaxTime /\ lastSweep' \in 0..clock' /\ up' \in BOOLEAN
    <3>1. clock' = clock /\ lastSweep' = 0
      BY DEF Crash
    <3>2. clock \in 1..MaxTime /\ MaxTime \in Nat
      BY RelayAssumption DEF TypeOK, NodeTypeOK
    <3>3. clock' \in 1..MaxTime /\ lastSweep' \in 0..clock'
      BY <3>1, <3>2
    <3>4. up' \in BOOLEAN
      BY Zenon DEF Crash
    <3> QED BY <3>3, <3>4
  <2> QED BY <1>2, <2>2, <2>3, <2>4 DEF NodeTypeOK
<1>4. HandlerTypeOK'
  <2>1. <<>> \in Seq(Pointer)
    OBVIOUS
  <2>2. out' \in [Handlers -> Seq(Pointer)]
    BY <2>1 DEF Crash
  <2>3. seen' \in [Handlers -> 0..clock']
    BY RelayAssumption DEF Crash, TypeOK, NodeTypeOK
  <2> QED BY <2>2, <2>3 DEF Crash, HandlerTypeOK, Labels, Stamped
<1>5. DiskTypeOK'
  BY DEF Crash, TypeOK, DiskTypeOK
<1> QED BY <1>3, <1>4, <1>5 DEF TypeOK

\* open: each queue lists, in some order, the envelopes kept for its handle.
LEMMA OpenQueues ==
    ASSUME TypeOK, Open, NEW h \in Handles
    PROVE  LET S == {f \in files : Rebuildable(f) /\ f.handle = h}
           IN  /\ queues'[h] \in Seq(Queued)
               /\ S \subseteq EnvsIn(queues'[h])
               /\ \A i \in DOMAIN queues'[h] :
                     \E f \in S : queues'[h][i].deadline = f.pointer.deadline
<1> DEFINE S(k) == {f \in files : Rebuildable(f) /\ f.handle = k}
<1>1. PICK order \in [Handles -> UNION {Sorted(S(k)) : k \in Handles}] :
         /\ \A k \in Handles : order[k] \in Sorted(S(k))
         /\ queues' = [k \in Handles |-> RebuiltQueue(order[k])]
  BY DEF Open
<1>2. S(h) \subseteq Envelope /\ IsFiniteSet(S(h))
  <2>1. S(h) \in SUBSET files /\ IsFiniteSet(files) /\ files \subseteq Envelope
    BY DEF TypeOK, NodeTypeOK
  <2> QED BY <2>1, FS_Subset
<1>3. order[h] \in Sorted(S(h)) /\ queues'[h] = RebuiltQueue(order[h])
  BY <1>1
<1> HIDE DEF S
<1>4. /\ RebuiltQueue(order[h]) \in Seq(Queued)
      /\ S(h) \subseteq EnvsIn(RebuiltQueue(order[h]))
      /\ \A i \in DOMAIN RebuiltQueue(order[h]) :
            \E f \in S(h) : RebuiltQueue(order[h])[i].deadline = f.pointer.deadline
  BY <1>2, <1>3, RebuiltType
<1> QED BY <1>3, <1>4 DEF S

LEMMA OpenType == ASSUME TypeOK, Open PROVE TypeOK'
<1>1. queues' \in [Handles -> Seq(Queued)]
  <2>1. \A h \in Handles : queues'[h] \in Seq(Queued)
    BY OpenQueues
  <2>2. DOMAIN queues' = Handles /\ queues' = [h \in DOMAIN queues' |-> queues'[h]]
    BY DEF Open
  <2> QED BY <2>1, <2>2
<1>2. files' \subseteq Envelope /\ IsFiniteSet(files')
  <2>1. files' \in SUBSET files
    BY DEF Open
  <2> QED BY <2>1, FS_Subset DEF TypeOK, NodeTypeOK
<1>3. NodeTypeOK'
  BY <1>1, <1>2 DEF Open, TypeOK, NodeTypeOK
<1>4. HandlerTypeOK'
  BY DEF Open, TypeOK, HandlerTypeOK
<1>5. DiskTypeOK'
  BY DEF Open, TypeOK, DiskTypeOK
<1> QED BY <1>3, <1>4, <1>5 DEF TypeOK

\* Every step keeps the type invariant.
LEMMA TypeStep == TypeOK /\ [Next]_vars => TypeOK'
<1> SUFFICES ASSUME TypeOK, [Next]_vars PROVE TypeOK'
  OBVIOUS
<1>1. CASE UNCHANGED vars
  BY <1>1, DiskKept DEF vars, store, TypeOK, NodeTypeOK, HandlerTypeOK
<1>2. CASE Tick \/ Crash \/ Open
  BY <1>2, TickType, CrashType, OpenType
<1>3. ASSUME NEW t \in Handlers, NEW r \in Request, Receive(t, r) PROVE TypeOK'
  BY <1>3, ReceiveType
<1>4. ASSUME NEW t \in Handlers, Step(t) PROVE TypeOK'
  BY <1>4, FregType, FputLookupType, LimitType, FputPersistType, FputWriteType,
     FputRenameType, FputGivesUpType, FputEnqueueType, FpopAuthType, FpopDrainType, FpopReplyType DEF Step
<1> QED BY <1>1, <1>2, <1>3, <1>4 DEF Next

\* The relay's state is well-typed, whatever the constants: handlers stay in
\* the verb they serve and no rate window overruns (FabricState, run_freg,
\* run_fput, run_fpop, RateLimiter::allow).
THEOREM TypeCorrect == Spec => []TypeOK
<1> QED BY TypeInit, TypeStep, PTL DEF Spec

-----------------------------------------------------------------------------
(* No .fenv file is stray. *)

\* The steps that leave files and queues alone: the handler that moves has
\* nothing in flight before or after.
Aside(t) ==
    /\ pc[t] # "enqueue"
    /\ \A u \in Handlers : u # t => pc'[u] = pc[u] /\ fresh'[u] = fresh[u]
    /\ UNCHANGED <<files, queues, up>>

LEMMA AsideSteps ==
    ASSUME TypeOK, NEW t \in Handlers,
           \/ \E r \in Request : Receive(t, r)
           \/ Freg(t) \/ FputLookup(t) \/ Limit(t) \/ FputRefuse(t)
           \/ FputPersist(t) \/ FputWrite(t) \/ FputPersistFails(t)
           \/ FpopAuth(t) \/ FpopReply(t)
    PROVE  Aside(t) /\ clock' = clock
<1>1. pc \in [Handlers -> Labels] /\ fresh \in [Handlers -> Envelope \cup {NoEnvelope}]
  BY DEF TypeOK, HandlerTypeOK
<1>2. Finish(t) \/ (\E l : Goto(t, l)) \/ (\E r \in Request : Receive(t, r))
  BY DEF Freg, FputLookup, Limit, FputRefuse, FputPersist, FputWrite, FputPersistFails,
         FpopAuth, FpopReply
<1>3. \A u \in Handlers : u # t => pc'[u] = pc[u]
  BY <1>1, <1>2 DEF Finish, Goto, Receive
<1>4. /\ pc[t] \in {"idle", "register", "lookup", "limit", "persist", "write", "rename",
                    "auth", "reply"}
      /\ UNCHANGED <<files, queues, up, clock>>
  BY DEF Receive, Freg, FputLookup, Limit, FputRefuse, FputPersist, FputWrite,
         FputPersistFails, FpopAuth, FpopReply, store
<1>5. fresh' = fresh \/ \E env : fresh' = [fresh EXCEPT ![t] = env]
  BY DEF Receive, Freg, FputLookup, Limit, FputRefuse, FputPersist, FputWrite,
         FputPersistFails, FpopAuth, FpopReply
<1>6. \A u \in Handlers : u # t => fresh'[u] = fresh[u]
  BY <1>1, <1>5
<1> QED BY <1>3, <1>4, <1>6 DEF Aside

\* A region that works on queue h keeps every backed file backed, when what it
\* keeps and what it removes of that queue cover what was there.
LEMMA OtherQueues ==
    ASSUME NEW h \in Handles, NEW q, NEW drops, NEW f \in Envelope,
           queues \in [Handles -> Seq(Queued)],
           queues' = [queues EXCEPT ![h] = q],
           EnvsIn(queues[h]) \subseteq EnvsIn(q) \cup drops,
           InQueue(f), f \notin drops
    PROVE  InQueue(f)'
<1>1. f.handle \in Handles
  BY DEF Envelope
<1>2. PICK i \in DOMAIN queues[f.handle] : queues[f.handle][i].env = f
  BY DEF InQueue
<1>3. CASE f.handle = h
  <2>1. f \in EnvsIn(q)
    BY <1>2, <1>3 DEF EnvsIn
  <2>2. queues'[f.handle] = q
    BY <1>3
  <2> QED BY <2>1, <2>2 DEF EnvsIn, InQueue
<1>4. CASE f.handle # h
  <2>1. queues'[f.handle] = queues[f.handle]
    BY <1>1, <1>4
  <2> QED BY <1>2, <2>1 DEF InQueue
<1> QED BY <1>3, <1>4

LEMMA StrayStep ==
    ASSUME TypeOK, NoStrayFiles, [Next]_vars
    PROVE  NoStrayFiles'
<1> SUFFICES ASSUME up', NEW f \in files' PROVE InQueue(f)' \/ InFlight(f)'
  BY DEF NoStrayFiles
<1>1. CASE UNCHANGED vars \/ Tick
  <2>1. UNCHANGED <<files, queues, fresh, up, pc>>
    BY <1>1 DEF vars, store, Tick
  <2> QED BY <2>1 DEF NoStrayFiles, InQueue, InFlight
<1>2. CASE Crash
  BY <1>2 DEF Crash
<1>3. CASE Open
  <2>1. f \in files /\ Rebuildable(f)
    BY <1>3 DEF Open
  <2>2. f.handle \in Handles
    BY <2>1 DEF TypeOK, NodeTypeOK, Envelope
  <2>3. f \in {g \in files : Rebuildable(g) /\ g.handle = f.handle}
    BY <2>1
  <2>4. f \in EnvsIn(queues'[f.handle])
    BY <1>3, <2>2, <2>3, OpenQueues
  <2> QED BY <2>4 DEF EnvsIn, InQueue
<1>4. ASSUME NEW t \in Handlers, Aside(t) PROVE InQueue(f)' \/ InFlight(f)'
  <2>1. UNCHANGED <<files, queues, up>>
    BY <1>4 DEF Aside
  <2>2. CASE InQueue(f)
    BY <2>1, <2>2 DEF InQueue
  <2>3. CASE InFlight(f)
    BY <1>4, <2>1, <2>3 DEF Aside, InFlight
  <2> QED BY <2>1, <2>2, <2>3 DEF NoStrayFiles
<1>5. ASSUME NEW t \in Handlers, FputRename(t) PROVE InQueue(f)' \/ InFlight(f)'
  <2>1. /\ pc[t] = "rename" /\ pc'[t] = "enqueue" /\ files' = files \cup {fresh[t]}
        /\ \A u \in Handlers : u # t => pc'[u] = pc[u]
        /\ UNCHANGED <<queues, up, fresh>>
    BY <1>5 DEF FputRename, Goto, TypeOK, HandlerTypeOK
  <2>2. CASE f = fresh[t]
    BY <2>1, <2>2 DEF InFlight
  <2>3. CASE f \in files /\ InQueue(f)
    BY <2>1, <2>3 DEF InQueue
  <2>4. CASE f \in files /\ InFlight(f)
    <3>1. PICK u \in Handlers : pc[u] = "enqueue" /\ fresh[u] = f
      BY <2>4 DEF InFlight
    <3> QED BY <2>1, <3>1 DEF InFlight
  <2> QED BY <2>1, <2>2, <2>3, <2>4 DEF NoStrayFiles
<1>6. ASSUME NEW t \in Handlers, FputEnqueue(t) PROVE InQueue(f)' \/ InFlight(f)'
  <2> DEFINE h == req[t].handle
             e == fresh[t]
             q == AfterPut(queues[h], e, clock)
             drops == Listed(PutDrops(queues[h], e, clock))
  <2>1. /\ h \in Handles /\ queues \in [Handles -> Seq(Queued)] /\ e \in Envelope
        /\ e.handle = h /\ clock \in Nat /\ files \subseteq Envelope
    BY <1>6 DEF FputEnqueue, Stamped, TypeOK, NodeTypeOK, HandlerTypeOK, FputRequest
  <2>2. /\ queues' = [queues EXCEPT ![h] = q]
        /\ files' = files \ drops
        /\ UNCHANGED up
        /\ \A u \in Handlers : u # t => pc'[u] = pc[u] /\ fresh'[u] = fresh[u]
    BY <1>6 DEF FputEnqueue, Remove, Finish, Listed, TypeOK, HandlerTypeOK
  <2>3. queues[h] \in Seq(Queued)
    BY <2>1
  <2>4. EnvsIn(queues[h]) \cup {e} \subseteq EnvsIn(q) \cup drops
    BY <2>1, <2>3, PutQueue
  <2> HIDE DEF h, e, q, drops
  <2>5. f \in files /\ f \notin drops /\ f \in Envelope
    BY <2>1, <2>2
  <2>6. CASE InQueue(f)
    <3>1. EnvsIn(queues[h]) \subseteq EnvsIn(q) \cup drops
      BY <2>4
    <3> QED BY <2>1, <2>2, <2>5, <2>6, <3>1, OtherQueues
  <2>7. ASSUME NEW u \in Handlers, pc[u] = "enqueue", fresh[u] = f
        PROVE InQueue(f)' \/ InFlight(f)'
    <3>1. CASE u # t
      BY <2>2, <2>7, <3>1 DEF InFlight
    <3>2. CASE u = t
      <4>1. f = e /\ f.handle = h
        BY <2>1, <2>7, <3>2 DEF e
      <4>2. f \in EnvsIn(q) /\ queues'[f.handle] = q
        BY <2>1, <2>2, <2>4, <2>5, <4>1
      <4> QED BY <4>2 DEF EnvsIn, InQueue
    <3> QED BY <3>1, <3>2
  <2> QED BY <2>2, <2>5, <2>6, <2>7 DEF NoStrayFiles, InFlight
<1>7. ASSUME NEW t \in Handlers, FpopDrain(t) PROVE InQueue(f)' \/ InFlight(f)'
  <2> DEFINE h == req[t].handle
             max == req[t].max
  <2>1. /\ h \in Handles /\ queues \in [Handles -> Seq(Queued)] /\ max \in Nat
        /\ files \subseteq Envelope
    BY <1>7, RelayAssumption DEF FpopDrain, TypeOK, NodeTypeOK, HandlerTypeOK, FpopRequest
  <2>2. PICK now \in Read(t) :
           /\ queues' = [queues EXCEPT ![h] = DropFirst(queues[h], Taken(queues[h], max, now))]
           /\ files' = files \ Listed(DrainDrops(queues[h], max, now))
    BY <1>7 DEF FpopDrain, Remove, Listed
  <2> DEFINE q == DropFirst(queues[h], Taken(queues[h], max, now))
             drops == Listed(DrainDrops(queues[h], max, now))
  <2>3. now \in Nat /\ queues[h] \in Seq(Queued)
    BY <2>1, ReadType
  <2> HIDE DEF h, max
  <2>4. EnvsIn(queues[h]) \subseteq EnvsIn(q) \cup drops
    BY <2>1, <2>3, DrainQueue
  <2>5. queues' = [queues EXCEPT ![h] = q] /\ files' = files \ drops
    BY <2>2
  <2> HIDE DEF q, drops
  <2>6. f \in files /\ f \notin drops /\ f \in Envelope
    BY <2>1, <2>5
  <2>7. CASE InQueue(f)
    BY <2>1, <2>4, <2>5, <2>6, <2>7, OtherQueues
  <2>8. CASE InFlight(f)
    <3>1. /\ pc[t] = "drain" /\ UNCHANGED fresh
          /\ \A u \in Handlers : u # t => pc'[u] = pc[u]
      BY <1>7 DEF FpopDrain, Goto, TypeOK, HandlerTypeOK
    <3> QED BY <2>8, <3>1 DEF InFlight
  <2>9. up
    BY <1>7 DEF FpopDrain
  <2> QED BY <2>6, <2>7, <2>8, <2>9 DEF NoStrayFiles
<1>8. ASSUME NEW t \in Handlers, Step(t) \/ \E r \in Request : Receive(t, r)
      PROVE InQueue(f)' \/ InFlight(f)'
  BY <1>4, <1>5, <1>6, <1>7, <1>8, AsideSteps DEF Step
<1> QED BY <1>1, <1>2, <1>3, <1>8 DEF Next

\* While the node serves, every .fenv file backs a queue entry or an fput
\* about to queue it, whatever the constants and wherever crashes fall
\* (run_fput 535-573, run_fpop 629-636, open).
THEOREM NoStray == Spec => []NoStrayFiles
<1>1. Init => NoStrayFiles
  BY DEF Init, NoStrayFiles
<1>2. TypeOK /\ NoStrayFiles /\ [Next]_vars => NoStrayFiles'
  BY StrayStep
<1> QED BY <1>1, <1>2, TypeCorrect, PTL DEF Spec

-----------------------------------------------------------------------------
(* No queued envelope outlives the horizon. *)

\* An envelope on its way to the queue passed the horizon check.
FlightWithinHorizon ==
    \A t \in Handlers :
        pc[t] \in Stamped => fresh[t].pointer.deadline <= clock + Horizon

LEMMA HorizonStep ==
    ASSUME TypeOK, NoImmortal, FlightWithinHorizon, [Next]_vars
    PROVE  NoImmortal' /\ FlightWithinHorizon'
<1>1. /\ clock \in Nat /\ clock' \in Nat /\ clock <= clock' /\ Horizon \in Nat
      /\ queues \in [Handles -> Seq(Queued)]
      /\ \A e \in Envelope : e.pointer.deadline \in Nat
      /\ \A h \in Handles : \A i \in DOMAIN queues[h] : queues[h][i].deadline \in Nat
  <2>1. Horizon \in Nat /\ \A e \in Envelope : e.pointer.deadline \in Nat
    BY RelayAssumption DEF Envelope, Pointer
  <2>2. queues \in [Handles -> Seq(Queued)] /\ clock \in Nat
    BY DEF TypeOK, NodeTypeOK
  <2>3. \A h \in Handles : \A i \in DOMAIN queues[h] : queues[h][i].deadline \in Nat
    <3>1. TAKE h \in Handles
    <3>2. TAKE i \in DOMAIN queues[h]
    <3>3. queues[h] \in Seq(Queued)
      BY <2>2
    <3>4. queues[h][i] \in Queued
      BY <3>3, ElementOfSeq, LenProperties
    <3> QED BY <3>4 DEF Queued
  <2>4. clock' = clock \/ clock' = clock + 1
    BY DEF Next, vars, store, Tick, Crash, Open, Step, Receive, Freg, FputLookup, Limit,
           FputPersist, FputRefuse, FputWrite, FputRename, FputPersistFails, FputEnqueue,
           FpopAuth, FpopDrain, FpopReply
  <2> QED BY <2>1, <2>2, <2>3, <2>4
<1>2. ASSUME UNCHANGED queues PROVE NoImmortal'
  <2>1. \A h \in Handles : \A i \in DOMAIN queues[h] :
            queues[h][i].deadline <= clock' + Horizon
    BY <1>1 DEF NoImmortal
  <2> QED BY <1>2, <2>1 DEF NoImmortal
<1>3. ASSUME NEW t \in Handlers,
             \A u \in Handlers : u # t => pc'[u] = pc[u] /\ fresh'[u] = fresh[u],
             pc'[t] \in Stamped => fresh'[t].pointer.deadline <= clock' + Horizon
      PROVE FlightWithinHorizon'
  <2>1. \A u \in Handlers : pc[u] \in Stamped => fresh[u].pointer.deadline \in Nat
    BY <1>1 DEF TypeOK, HandlerTypeOK
  <2>2. \A u \in Handlers : u # t /\ pc[u] \in Stamped =>
            fresh[u].pointer.deadline <= clock' + Horizon
    BY <1>1, <2>1 DEF FlightWithinHorizon
  <2> QED BY <1>3, <2>2 DEF FlightWithinHorizon
<1>4. CASE UNCHANGED vars \/ Tick
  <2>1. UNCHANGED <<queues, fresh, pc>>
    BY <1>4 DEF vars, store, Tick
  <2>2. \A u \in Handlers : pc[u] \in Stamped => fresh[u].pointer.deadline \in Nat
    BY <1>1 DEF TypeOK, HandlerTypeOK
  <2>3. FlightWithinHorizon'
    BY <1>1, <2>1, <2>2 DEF FlightWithinHorizon
  <2> QED BY <1>2, <2>1, <2>3
<1>5. CASE Crash
  BY <1>5 DEF Crash, NoImmortal, FlightWithinHorizon, Stamped
<1>6. CASE Open
  <2>1. \A h \in Handles : \A i \in DOMAIN queues'[h] :
            queues'[h][i].deadline <= clock + Horizon
    <3>1. TAKE h \in Handles
    <3>2. TAKE i \in DOMAIN queues'[h]
    <3>3. PICK f \in {g \in files : Rebuildable(g) /\ g.handle = h} :
             queues'[h][i].deadline = f.pointer.deadline
      BY <1>6, OpenQueues
    <3> QED BY <3>3 DEF Rebuildable
  <2>2. UNCHANGED <<pc, fresh, clock>>
    BY <1>6 DEF Open
  <2> QED BY <2>1, <2>2 DEF NoImmortal, FlightWithinHorizon
<1>7. ASSUME NEW t \in Handlers, Aside(t), pc'[t] \notin Stamped
      PROVE NoImmortal' /\ FlightWithinHorizon'
  BY <1>2, <1>3, <1>7 DEF Aside
<1>8. ASSUME NEW t \in Handlers, FputPersist(t) PROVE NoImmortal' /\ FlightWithinHorizon'
  <2>0. PICK now \in Read(t) :
           /\ Acceptable(req[t].pointer.deadline, now)
           /\ \E env : fresh' = [fresh EXCEPT ![t] = env] /\ env.pointer = req[t].pointer
    BY <1>8 DEF FputPersist
  <2>1. PICK env : fresh' = [fresh EXCEPT ![t] = env] /\ env.pointer = req[t].pointer
    BY <2>0
  <2>2. now \in Nat /\ now <= clock /\ clock' = clock
    BY <1>8, ReadType DEF FputPersist
  <2>3. req[t].pointer.deadline \in Nat
    BY <1>8, RelayAssumption DEF FputPersist, TypeOK, HandlerTypeOK, FputRequest, Pointer
  <2>4. req[t].pointer.deadline <= clock' + Horizon
    BY <1>1, <2>0, <2>2, <2>3 DEF Acceptable
  <2>5. /\ fresh'[t] = env
        /\ \A u \in Handlers : u # t => pc'[u] = pc[u] /\ fresh'[u] = fresh[u]
        /\ UNCHANGED queues
    BY <1>8, <2>1 DEF FputPersist, store, Goto, TypeOK, HandlerTypeOK
  <2> QED BY <1>2, <1>3, <2>1, <2>4, <2>5
<1>13. ASSUME NEW t \in Handlers, FputWrite(t) \/ FputRename(t)
       PROVE NoImmortal' /\ FlightWithinHorizon'
  <2>1. /\ pc[t] \in Stamped /\ UNCHANGED <<queues, fresh, clock>>
        /\ \A u \in Handlers : u # t => pc'[u] = pc[u]
    BY <1>13 DEF FputWrite, FputRename, store, Stamped, Goto, TypeOK, HandlerTypeOK
  <2>2. fresh[t].pointer.deadline <= clock + Horizon
    BY <2>1 DEF FlightWithinHorizon
  <2> QED BY <1>2, <1>3, <2>1, <2>2
<1>9. ASSUME NEW t \in Handlers, FputEnqueue(t) PROVE NoImmortal' /\ FlightWithinHorizon'
  <2> DEFINE h == req[t].handle
             e == fresh[t]
  <2>1. h \in Handles /\ e \in Envelope /\ clock' = clock
    BY <1>9 DEF FputEnqueue, Stamped, TypeOK, NodeTypeOK, HandlerTypeOK, FputRequest
  <2>2. e.pointer.deadline <= clock + Horizon
    BY <1>9 DEF FlightWithinHorizon, Stamped, FputEnqueue
  <2>3. queues' = [queues EXCEPT ![h] = AfterPut(queues[h], e, clock)]
    BY <1>9 DEF FputEnqueue
  <2>4. /\ pc'[t] = "idle"
        /\ \A u \in Handlers : u # t => pc'[u] = pc[u] /\ fresh'[u] = fresh[u]
    BY <1>9 DEF FputEnqueue, Finish, TypeOK, HandlerTypeOK
  <2> HIDE DEF h, e
  <2>5. \A i \in DOMAIN AfterPut(queues[h], e, clock) :
            AfterPut(queues[h], e, clock)[i].deadline <= clock + Horizon
    <3>1. queues[h] \in Seq(Queued)
      BY <1>1, <2>1
    <3>2. \A i \in DOMAIN AfterPut(queues[h], e, clock) :
             \/ AfterPut(queues[h], e, clock)[i].deadline = e.pointer.deadline
             \/ \E k \in DOMAIN queues[h] :
                   AfterPut(queues[h], e, clock)[i].deadline = queues[h][k].deadline
      BY <1>1, <2>1, <3>1, PutQueue
    <3>3. \A k \in DOMAIN queues[h] : queues[h][k].deadline <= clock + Horizon
      BY <2>1 DEF NoImmortal
    <3> QED BY <2>2, <3>2, <3>3
  <2>6. NoImmortal'
    BY <1>1, <2>1, <2>3, <2>5 DEF NoImmortal
  <2>7. pc'[t] \notin Stamped
    BY <2>4 DEF Stamped
  <2> QED BY <1>3, <2>4, <2>6, <2>7
<1>10. ASSUME NEW t \in Handlers, FpopDrain(t) PROVE NoImmortal' /\ FlightWithinHorizon'
  <2> DEFINE h == req[t].handle
             max == req[t].max
  <2>1. h \in Handles /\ max \in Nat /\ clock' = clock
    BY <1>10, RelayAssumption DEF FpopDrain, TypeOK, HandlerTypeOK, FpopRequest
  <2>2. PICK now \in Read(t) :
           queues' = [queues EXCEPT ![h] = DropFirst(queues[h], Taken(queues[h], max, now))]
    BY <1>10 DEF FpopDrain
  <2>3. /\ pc'[t] = "reply"
        /\ \A u \in Handlers : u # t => pc'[u] = pc[u] /\ fresh'[u] = fresh[u]
    BY <1>10 DEF FpopDrain, Goto, TypeOK, HandlerTypeOK
  <2> HIDE DEF h, max
  <2> DEFINE q == DropFirst(queues[h], Taken(queues[h], max, now))
  <2>4. \A i \in DOMAIN q : \E k \in DOMAIN queues[h] : q[i] = queues[h][k]
    <3>1. now \in Nat /\ queues[h] \in Seq(Queued)
      BY <1>1, <2>1, ReadType
    <3> QED BY <2>1, <3>1, DrainQueue
  <2>5. \A k \in DOMAIN queues[h] : queues[h][k].deadline <= clock + Horizon
    BY <2>1 DEF NoImmortal
  <2> HIDE DEF q
  <2>6. \A i \in DOMAIN q : q[i].deadline <= clock + Horizon
    BY <2>4, <2>5
  <2>7. queues' = [queues EXCEPT ![h] = q]
    BY <2>2 DEF q
  <2>8. NoImmortal'
    BY <1>1, <2>1, <2>6, <2>7 DEF NoImmortal
  <2>9. pc'[t] \notin Stamped
    BY <2>3 DEF Stamped
  <2> QED BY <1>3, <2>3, <2>8, <2>9
<1>11. ASSUME NEW t \in Handlers,
              \/ \E r \in Request : Receive(t, r)
              \/ Freg(t) \/ FputLookup(t) \/ Limit(t) \/ FputRefuse(t)
              \/ FputPersistFails(t) \/ FpopAuth(t) \/ FpopReply(t)
       PROVE NoImmortal' /\ FlightWithinHorizon'
  <2>1. pc'[t] \notin Stamped
    BY <1>11 DEF Stamped, Receive, Entry, Freg, FputLookup, Limit, AfterLimit, FputRefuse,
       FputPersistFails, FpopAuth, FpopReply, Finish, Goto, TypeOK, HandlerTypeOK,
       Request, FregRequest, FputRequest, FpopRequest
  <2> QED BY <1>7, <1>11, <2>1, AsideSteps
<1>12. ASSUME NEW t \in Handlers, Step(t) \/ \E r \in Request : Receive(t, r)
       PROVE NoImmortal' /\ FlightWithinHorizon'
  BY <1>8, <1>9, <1>10, <1>11, <1>12, <1>13 DEF Step
<1> QED BY <1>4, <1>5, <1>6, <1>12 DEF Next

\* No queued envelope burns later than the horizon from now, whatever an
\* earlier run or a longer horizon left in the hold (run_fput 519-521, open
\* 275-283).
THEOREM Mortal == Spec => []NoImmortal
<1>1. Init => NoImmortal /\ FlightWithinHorizon
  BY DEF Init, NoImmortal, FlightWithinHorizon, Stamped
<1>2. TypeOK /\ (NoImmortal /\ FlightWithinHorizon) /\ [Next]_vars
        => NoImmortal' /\ FlightWithinHorizon'
  BY HorizonStep
<1> QED BY <1>1, <1>2, TypeCorrect, PTL DEF Spec

-----------------------------------------------------------------------------
(* The registry. *)

\* Only freg and the node's death change the registry.
LEMMA RegistryStep ==
    ASSUME TypeOK, [Next]_vars
    PROVE  \/ reg' = reg
           \/ \E t \in Handlers : Freg(t)
           \/ Crash
BY DEF Next, vars, store, Tick, Open, Step, Receive, FputLookup, Limit, FputPersist,
       FputRefuse, FputWrite, FputRename, FputPersistFails, FputEnqueue, FpopAuth, FpopDrain, FpopReply

\* What a freg makes of the registry.
LEMMA FregEffect ==
    ASSUME TypeOK, NEW t \in Handlers, Freg(t)
    PROVE  \E now \in 0..clock :
              LET h == req[t].handle
              IN  /\ h \in Handles
                  /\ DOMAIN Swept(now) \subseteq DOMAIN reg
                  /\ \A k \in DOMAIN Swept(now) : Swept(now)[k] = reg[k]
                  /\ \A k \in DOMAIN reg : reg[k].expires > now => k \in DOMAIN Swept(now)
                  /\ \/ reg' = Swept(now)
                     \/ /\ MayRegister(req[t], now)
                        /\ DOMAIN reg' = DOMAIN Swept(now) \cup {h}
                        /\ reg'[h].expires <= now + MaxLease
                        /\ \A k \in DOMAIN Swept(now) : k # h => reg'[k] = reg[k]
<1> DEFINE h == req[t].handle
<1>1. PICK now \in Read(t) :
         \/ /\ MayRegister(req[t], now)
            /\ reg' = [k \in DOMAIN Swept(now) \cup {h} |->
                         IF k = h THEN Granted(req[t], now) ELSE Swept(now)[k]]
         \/ reg' = Swept(now)
  BY DEF Freg
<1>2. now \in 0..clock /\ now \in Nat
  BY ReadType DEF TypeOK, NodeTypeOK
<1>3. h \in Handles /\ req[t].lease \in Nat /\ MaxLease \in Nat
  BY RelayAssumption DEF Freg, TypeOK, HandlerTypeOK, FregRequest
<1>4. /\ DOMAIN Swept(now) \subseteq DOMAIN reg
      /\ \A k \in DOMAIN Swept(now) : Swept(now)[k] = reg[k]
      /\ \A k \in DOMAIN reg : reg[k].expires > now => k \in DOMAIN Swept(now)
  BY DEF Swept
<1>5. Granted(req[t], now).expires <= now + MaxLease
  BY <1>2, <1>3 DEF Granted
<1> QED BY <1>1, <1>2, <1>3, <1>4, <1>5

LEMMA RegistryBoundStep ==
    ASSUME TypeOK, RegistryBounded, [Next]_vars
    PROVE  RegistryBounded'
<1>1. /\ clock \in Nat /\ clock' \in Nat /\ clock <= clock'
      /\ MaxLease \in Nat /\ MaxRegs \in Nat
  <2>1. clock' = clock \/ clock' = clock + 1
    BY DEF Next, vars, store, Tick, Crash, Open, Step, Receive, Freg, FputLookup, Limit,
           FputPersist, FputRefuse, FputWrite, FputRename, FputPersistFails, FputEnqueue,
           FpopAuth, FpopDrain, FpopReply
  <2> QED BY <2>1, RelayAssumption DEF TypeOK, NodeTypeOK
<1>2. /\ DOMAIN reg \subseteq Handles /\ IsFiniteSet(DOMAIN reg)
      /\ \A h \in DOMAIN reg : reg[h].expires \in Nat
  <2>1. DOMAIN reg \subseteq Handles /\ \A h \in DOMAIN reg : reg[h].expires \in Nat
    BY DEF TypeOK, NodeTypeOK, Registration
  <2> QED BY <2>1, HandlesAssumption, FS_Subset
<1>3. CASE reg' = reg
  BY <1>1, <1>2, <1>3 DEF RegistryBounded
<1>4. CASE Crash
  <2>1. DOMAIN reg' = {}
    BY <1>4, EmptyMaps DEF Crash
  <2>2. Cardinality({}) = 0
    BY FS_EmptySet
  <2> QED BY <1>1, <2>1, <2>2 DEF RegistryBounded
<1>5. ASSUME NEW t \in Handlers, Freg(t) PROVE RegistryBounded'
  <2> DEFINE h == req[t].handle
  <2>1. PICK now \in 0..clock :
           /\ h \in Handles
           /\ DOMAIN Swept(now) \subseteq DOMAIN reg
           /\ \A k \in DOMAIN Swept(now) : Swept(now)[k] = reg[k]
           /\ \A k \in DOMAIN reg : reg[k].expires > now => k \in DOMAIN Swept(now)
           /\ \/ reg' = Swept(now)
              \/ /\ MayRegister(req[t], now)
                 /\ DOMAIN reg' = DOMAIN Swept(now) \cup {h}
                 /\ reg'[h].expires <= now + MaxLease
                 /\ \A k \in DOMAIN Swept(now) : k # h => reg'[k] = reg[k]
    BY <1>5, FregEffect
  <2> DEFINE D == DOMAIN Swept(now)
  <2>2. IsFiniteSet(D) /\ Cardinality(D) \in Nat /\ Cardinality(D) <= MaxRegs
    <3>1. IsFiniteSet(D) /\ Cardinality(D) <= Cardinality(DOMAIN reg)
      BY <1>2, <2>1, FS_Subset
    <3>2. Cardinality(D) \in Nat /\ Cardinality(DOMAIN reg) \in Nat
      BY <1>2, <3>1, FS_CardinalityType
    <3> QED BY <1>1, <3>1, <3>2 DEF RegistryBounded
  <2>3. \A k \in D : reg[k].expires <= clock + MaxLease
    BY <2>1 DEF RegistryBounded
  <2>4. clock' = clock
    BY <1>5 DEF Freg
  <2>5. CASE reg' = Swept(now)
    <3>1. \A k \in DOMAIN reg' : reg'[k].expires <= clock' + MaxLease
      BY <2>1, <2>3, <2>4, <2>5
    <3> QED BY <2>2, <2>5, <3>1 DEF RegistryBounded
  <2>6. CASE /\ MayRegister(req[t], now)
             /\ DOMAIN reg' = D \cup {h}
             /\ reg'[h].expires <= now + MaxLease
             /\ \A k \in D : k # h => reg'[k] = reg[k]
    <3>1. \A k \in DOMAIN reg' : reg'[k].expires <= clock' + MaxLease
      <4>1. reg'[h].expires <= clock' + MaxLease
        <5>1. DOMAIN reg' \subseteq Handles /\ reg' \in [DOMAIN reg' -> Registration]
          BY <1>5, FregType DEF TypeOK, NodeTypeOK
        <5>2. reg'[h].expires \in Nat
          BY <2>6, <5>1 DEF Registration
        <5> HIDE DEF h
        <5> QED BY <1>1, <2>4, <2>6, <5>2
      <4> QED BY <2>3, <2>4, <2>6, <4>1
    <3>2. Cardinality(D \cup {h}) <= MaxRegs
      <4>1. CASE Live(h, now)
        <5>1. h \in D
          BY <2>1, <4>1 DEF Live
        <5>2. D \cup {h} = D
          BY <5>1
        <5> QED BY <2>2, <5>2
      <4>2. CASE ~ Live(h, now)
        <5>1. Cardinality(D) < MaxRegs
          BY <2>6, <4>2 DEF MayRegister
        <5> HIDE DEF D, h
        <5>2. Cardinality(D \cup {h}) = Cardinality(D) \/ Cardinality(D \cup {h}) = Cardinality(D) + 1
          BY <2>2, FS_AddElement
        <5> QED BY <1>1, <2>2, <5>1, <5>2
      <4> QED BY <4>1, <4>2
    <3> QED BY <2>6, <3>1, <3>2 DEF RegistryBounded
  <2> QED BY <2>1, <2>5, <2>6
<1> QED BY <1>3, <1>4, <1>5, RegistryStep

\* The registry never outgrows max_regs and no lease outlasts max_lease_sec,
\* whatever clock value each freg has read (run_freg 405-431).
THEOREM RegistryStaysBounded == Spec => []RegistryBounded
<1>1. Init => RegistryBounded
  <2>1. Cardinality({}) = 0 /\ MaxRegs \in Nat
    BY FS_EmptySet, RelayAssumption
  <2> QED BY <2>1, EmptyMaps DEF Init, RegistryBounded
<1>2. TypeOK /\ RegistryBounded /\ [Next]_vars => RegistryBounded'
  BY RegistryBoundStep
<1> QED BY <1>1, <1>2, TypeCorrect, PTL DEF Spec

\* While the node serves, a live registration is removed or replaced only by a
\* freg that shows its current token (run_freg 411-419).
THEOREM HolderRenews == Spec => OnlyHolderRenews
<1> DEFINE Renews ==
        \A h \in DOMAIN reg :
            up' /\ reg[h].expires > clock /\ (h \notin DOMAIN reg' \/ reg'[h] # reg[h])
            => \E t \in Handlers : /\ pc[t] = "register"
                                   /\ req[t].handle = h
                                   /\ req[t].prev = reg[h].token
<1>1. TypeOK /\ [Next]_vars => [Renews]_vars
  <2> SUFFICES ASSUME TypeOK, [Next]_vars, NEW h \in DOMAIN reg,
                      up', reg[h].expires > clock,
                      h \notin DOMAIN reg' \/ reg'[h] # reg[h]
               PROVE  \E t \in Handlers : /\ pc[t] = "register"
                                          /\ req[t].handle = h
                                          /\ req[t].prev = reg[h].token
    OBVIOUS
  <2>1. PICK t \in Handlers : Freg(t)
    BY RegistryStep DEF Crash
  <2>2. PICK now \in 0..clock :
           /\ DOMAIN Swept(now) \subseteq DOMAIN reg
           /\ \A k \in DOMAIN Swept(now) : Swept(now)[k] = reg[k]
           /\ \A k \in DOMAIN reg : reg[k].expires > now => k \in DOMAIN Swept(now)
           /\ \/ reg' = Swept(now)
              \/ /\ MayRegister(req[t], now)
                 /\ DOMAIN reg' = DOMAIN Swept(now) \cup {req[t].handle}
                 /\ \A k \in DOMAIN Swept(now) : k # req[t].handle => reg'[k] = reg[k]
    BY <2>1, FregEffect
  <2>3. reg[h].expires > now
    BY <2>2 DEF TypeOK, NodeTypeOK, Registration
  <2>4. h \in DOMAIN Swept(now) /\ Swept(now)[h] = reg[h]
    BY <2>2, <2>3
  <2>5. h = req[t].handle /\ MayRegister(req[t], now)
    BY <2>2, <2>4
  <2>6. req[t].prev = reg[h].token
    BY <2>3, <2>5 DEF MayRegister, Live
  <2>7. pc[t] = "register"
    BY <2>1 DEF Freg
  <2> QED BY <2>5, <2>6, <2>7
<1>2. TypeOK /\ TypeOK' /\ [Next]_vars => [Renews]_vars
  BY <1>1
<1> QED BY <1>2, TypeCorrect, PTL DEF Spec, OnlyHolderRenews
=============================================================================
