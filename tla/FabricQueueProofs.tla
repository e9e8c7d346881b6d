-------------------------- MODULE FabricQueueProofs -------------------------
(***************************************************************************)
(* Proofs about what the relay's queues do, for every value of the         *)
(* constants: that a new pointer enters within the cap, that no live       *)
(* envelope leaves but into an answer or at the head of a full queue, and  *)
(* that a drain that comes back short has emptied the queue; for a node    *)
(* that stays up after a start from files without duplicates, that no      *)
(* queue holds a pointer twice and that it is a FIFO; and, wherever the    *)
(* node dies, that the relay implements Mailbox: no pointer is handed out  *)
(* more often than it was deposited.  Every step of the relay is shown to  *)
(* deposit a copy, to lose copies, to deliver some, or to change nothing   *)
(* of what the mailbox sees.                                               *)
(***************************************************************************)
EXTENDS FabricRelayProofs

-----------------------------------------------------------------------------
(* The queue operators: which entries stay, where, and which are new. *)

\* An entry expires when its pointer says, and is backed by a file with that
\* pointer.
Honest(q) == \A i \in DOMAIN q : /\ q[i].deadline = q[i].pointer.deadline
                                 /\ q[i].env.pointer = q[i].pointer
\* No pointer is queued twice.
Unique(q) == \A i, j \in DOMAIN q : q[i].pointer = q[j].pointer => i = j

\* How many entries an fput of e evicts, whether the queue has e's pointer
\* yet, and where it puts entry i.
Lost(q, e) == IF Same(q, e) # {} THEN 0 ELSE Overflow(q)
Place(q, e, now, i) == Rank(Unburned(Merged(q, e), now), i - Lost(q, e))

LEMMA HonestPart ==
    ASSUME NEW q, Honest(q), NEW p, \A i \in DOMAIN p : \E k \in DOMAIN q : p[i] = q[k]
    PROVE  Honest(p)
  BY DEF Honest

\* Merging moves every entry that is not evicted by as many places as were,
\* and a new pointer goes to the last place.
LEMMA MergedAt ==
    ASSUME NEW q \in Seq(Queued), Honest(q), NEW e \in Envelope
    PROVE  /\ Merged(q, e) \in Seq(Queued)
           /\ Honest(Merged(q, e))
           /\ \A i \in DOMAIN q : i > Lost(q, e) =>
                 /\ i - Lost(q, e) \in DOMAIN Merged(q, e)
                 /\ Merged(q, e)[i - Lost(q, e)].pointer = q[i].pointer
           /\ \A k \in DOMAIN Merged(q, e) :
                 \/ /\ k + Lost(q, e) \in DOMAIN q
                    /\ Merged(q, e)[k].pointer = q[k + Lost(q, e)].pointer
                 \/ /\ Same(q, e) = {} /\ k + Lost(q, e) = Len(q) + 1
                    /\ Merged(q, e)[k].pointer = e.pointer
           /\ Same(q, e) = {} => Len(Merged(q, e)) <= MaxPerHandle
           /\ Lost(q, e) \in Nat
<1>1. Len(q) \in Nat /\ DOMAIN q = 1..Len(q)
  BY LenProperties
<1>2. CASE Same(q, e) # {}
  <2> DEFINE f == First(Same(q, e))
             new == [q[f] EXCEPT !.deadline = e.pointer.deadline, !.env = e]
             m == Refreshed(q, e)
  <2>1. Merged(q, e) = m /\ Lost(q, e) = 0
    BY <1>2 DEF Merged, Lost
  <2>2. m \in Seq(Queued) /\ DOMAIN m = DOMAIN q
    BY <1>2, RefreshedType
  <2>3. f \in DOMAIN q /\ q[f].pointer = e.pointer
    <3>1. Same(q, e) \subseteq 1..Len(q)
      BY <1>1 DEF Same
    <3>2. f \in Same(q, e)
      BY <3>1, <1>1, <1>2, FirstIsFirst
    <3> QED BY <3>2 DEF Same
  <2>4. q[f] \in Queued
    BY <1>1, <2>3, ElementOfSeq
  <2>5. m = [q EXCEPT ![f] = new]
    BY DEF Refreshed
  <2>6. new.pointer = q[f].pointer /\ new.deadline = e.pointer.deadline /\ new.env = e
    BY <2>4 DEF Queued
  <2> HIDE DEF new, m
  <2>7. \A i \in DOMAIN q : m[i] = IF i = f THEN new ELSE q[i]
    BY <2>5, <2>3, <1>1
  <2>8. \A i \in DOMAIN q : m[i].pointer = q[i].pointer
    BY <2>6, <2>7
  <2>9. Honest(m)
    BY <2>2, <2>3, <2>6, <2>7 DEF Honest
  <2>10. \A i \in DOMAIN q : i - 0 = i /\ i + 0 = i
    BY <1>1
  <2> QED BY <1>2, <2>1, <2>2, <2>8, <2>9, <2>10
<1>3. CASE Same(q, e) = {}
  <2> DEFINE a == Append(q, NewEntry(e))
             d == Overflow(q)
             m == DropFirst(a, d)
  <2>1. Merged(q, e) = m /\ Lost(q, e) = d
    BY <1>3 DEF Merged, Lost, Pushed
  <2>2. /\ a \in Seq(Queued) /\ Len(a) = Len(q) + 1
        /\ \A i \in 1..Len(q) : a[i] = q[i]
        /\ a[Len(q) + 1] = NewEntry(e)
    BY NewEntryType, AppendProperties
  <2>3. d \in 0..Len(a) /\ d \in Nat /\ Len(q) + 1 - d <= MaxPerHandle
    BY <1>1, <2>2, RelayAssumption DEF Overflow
  <2> HIDE DEF a, d
  <2>4. /\ m \in Seq(Queued)
        /\ DOMAIN m = 1..(Len(q) + 1 - d)
        /\ \A i \in 1..(Len(q) + 1 - d) : m[i] = a[d + i]
    BY <2>2, <2>3, DropFirstKeepsRest
  <2>5. Len(m) = Len(q) + 1 - d
    BY <1>1, <2>3, <2>2, <2>4, LenProperties
  <2> HIDE DEF m
  <2>6. \A i \in DOMAIN q : i > d => i - d \in DOMAIN m /\ m[i - d] = q[i]
    <3>1. SUFFICES ASSUME NEW i \in 1..Len(q), i > d
                   PROVE  i - d \in DOMAIN m /\ m[i - d] = q[i]
      BY <1>1
    <3>2. i - d \in 1..(Len(q) + 1 - d) /\ d + (i - d) = i
      BY <1>1, <2>3, <3>1
    <3> QED BY <3>2, <2>2, <2>4
  <2>7. \A k \in DOMAIN m : \/ k + d \in DOMAIN q /\ m[k] = q[k + d]
                            \/ k + d = Len(q) + 1 /\ m[k] = NewEntry(e)
    <3>1. SUFFICES ASSUME NEW k \in 1..(Len(q) + 1 - d)
                   PROVE  \/ k + d \in DOMAIN q /\ m[k] = q[k + d]
                          \/ k + d = Len(q) + 1 /\ m[k] = NewEntry(e)
      BY <2>4
    <3>2. k + d = d + k /\ (k + d \in 1..Len(q) \/ k + d = Len(q) + 1)
      BY <1>1, <2>3
    <3> QED BY <3>2, <1>1, <2>2, <2>4
  <2>8. /\ NewEntry(e).pointer = e.pointer /\ NewEntry(e).deadline = e.pointer.deadline
        /\ NewEntry(e).env = e
    BY DEF NewEntry
  <2>9. Honest(m)
    BY <2>7, <2>8 DEF Honest
  <2> QED BY <1>3, <2>1, <2>3, <2>4, <2>5, <2>6, <2>7, <2>8, <2>9
<1> QED BY <1>2, <1>3

\* What an fput leaves of a queue: the entries that are neither evicted nor
\* expired stay in their order, all others but the new one are gone.
LEMMA PutAt ==
    ASSUME NEW q \in Seq(Queued), Honest(q), NEW e \in Envelope, NEW now \in Nat
    PROVE  /\ Honest(AfterPut(q, e, now))
           /\ \A i \in DOMAIN q : i > Lost(q, e) /\ q[i].deadline > now =>
                 /\ Place(q, e, now, i) \in DOMAIN AfterPut(q, e, now)
                 /\ AfterPut(q, e, now)[Place(q, e, now, i)].pointer = q[i].pointer
           /\ \A i, j \in DOMAIN q :
                 /\ i > Lost(q, e) /\ q[i].deadline > now
                 /\ j > i /\ q[j].deadline > now
                 => Place(q, e, now, i) < Place(q, e, now, j)
           /\ \A x \in DOMAIN AfterPut(q, e, now) :
                 \/ \E i \in DOMAIN q :
                       /\ i > Lost(q, e) /\ q[i].deadline > now
                       /\ x = Place(q, e, now, i)
                       /\ AfterPut(q, e, now)[x].pointer = q[i].pointer
                 \/ /\ Same(q, e) = {}
                    /\ x = Place(q, e, now, Len(q) + 1)
                    /\ AfterPut(q, e, now)[x].pointer = e.pointer
           /\ Same(q, e) = {} => Len(AfterPut(q, e, now)) <= MaxPerHandle
<1> DEFINE m == Merged(q, e)
           d == Lost(q, e)
           U == Unburned(m, now)
           a == Keep(m, U)
<1>1. /\ m \in Seq(Queued) /\ Honest(m) /\ d \in Nat
      /\ \A i \in DOMAIN q : i > d => i - d \in DOMAIN m /\ m[i - d].pointer = q[i].pointer
      /\ \A k \in DOMAIN m :
            \/ k + d \in DOMAIN q /\ m[k].pointer = q[k + d].pointer
            \/ Same(q, e) = {} /\ k + d = Len(q) + 1 /\ m[k].pointer = e.pointer
      /\ Same(q, e) = {} => Len(m) <= MaxPerHandle
  BY MergedAt
<1>2. U \subseteq DOMAIN m /\ \A k \in U : m[k].deadline > now
  BY DEF Unburned
<1>3. \A k \in DOMAIN m : m[k].deadline > now => k \in U
  BY DEF Unburned
<1>4. AfterPut(q, e, now) = a /\ \A i : Place(q, e, now, i) = Rank(U, i - d)
  BY DEF AfterPut, Place
<1>5. Len(q) \in Nat /\ DOMAIN q = 1..Len(q) /\ Len(m) \in Nat /\ DOMAIN m = 1..Len(m)
  BY <1>1, LenProperties
<1> HIDE DEF m, d, U
<1>6. /\ \A k \in U : Rank(U, k) \in DOMAIN a /\ a[Rank(U, k)] = m[k]
      /\ \A k, l \in U : k < l => Rank(U, k) < Rank(U, l)
      /\ \A x \in DOMAIN a : \E k \in U : Rank(U, k) = x
  BY <1>1, <1>2, KeepAt
<1>7. Len(a) <= Len(m)
  <2>1. U \subseteq 1..Len(m) /\ Len(m) \in Nat
    BY <1>2, <1>5
  <2>2. Cardinality(U) <= Len(m)
    BY <2>1, IndicesFew
  <2>3. Len(a) = Cardinality(U)
    BY <1>1, <1>2, KeepKeeps
  <2> QED BY <2>2, <2>3
<1>8. Len(a) \in Nat
  <2>1. a \in Seq(Queued)
    BY <1>1, <1>2, KeepKeeps
  <2> QED BY <2>1, LenProperties
<1> HIDE DEF a
<1>9. Honest(a)
  <2>1. \A x \in DOMAIN a : \E k \in DOMAIN m : a[x] = m[k]
    BY <1>2, <1>6
  <2> QED BY <2>1, <1>1, HonestPart
<1>10. \A i \in DOMAIN q : i > d /\ q[i].deadline > now => i - d \in U
  <2>1. SUFFICES ASSUME NEW i \in DOMAIN q, i > d, q[i].deadline > now PROVE i - d \in U
    OBVIOUS
  <2>2. i - d \in DOMAIN m /\ m[i - d].pointer = q[i].pointer
    BY <2>1, <1>1
  <2>3. m[i - d].deadline = q[i].deadline
    BY <2>2, <1>1 DEF Honest
  <2> QED BY <2>1, <2>2, <2>3, <1>3
<1>11. \A i \in DOMAIN q : i > d /\ q[i].deadline > now =>
          Rank(U, i - d) \in DOMAIN a /\ a[Rank(U, i - d)].pointer = q[i].pointer
  BY <1>1, <1>6, <1>10
<1>12. \A i, j \in DOMAIN q :
          i > d /\ q[i].deadline > now /\ j > i /\ q[j].deadline > now
          => Rank(U, i - d) < Rank(U, j - d)
  <2>1. SUFFICES ASSUME NEW i \in DOMAIN q, NEW j \in DOMAIN q,
                        i > d, q[i].deadline > now, j > i, q[j].deadline > now
                 PROVE  Rank(U, i - d) < Rank(U, j - d)
    OBVIOUS
  <2>2. j > d /\ i - d < j - d
    BY <2>1, <1>1, <1>5
  <2> QED BY <2>1, <2>2, <1>6, <1>10
<1>13. \A x \in DOMAIN a :
          \/ \E i \in DOMAIN q : /\ i > d /\ q[i].deadline > now
                                 /\ x = Rank(U, i - d)
                                 /\ a[x].pointer = q[i].pointer
          \/ /\ Same(q, e) = {} /\ x = Rank(U, (Len(q) + 1) - d)
             /\ a[x].pointer = e.pointer
  <2>1. TAKE x \in DOMAIN a
  <2>2. PICK k \in U : Rank(U, k) = x
    BY <1>6
  <2>3. k \in DOMAIN m /\ a[x] = m[k] /\ m[k].deadline > now /\ k \in 1..Len(m)
    BY <2>2, <1>2, <1>5, <1>6
  <2>4. CASE k + d \in DOMAIN q /\ m[k].pointer = q[k + d].pointer
    <3>1. PICK i \in DOMAIN q : i = k + d
      BY <2>4
    <3>2. i > d /\ i - d = k
      BY <2>3, <3>1, <1>1, <1>5
    <3>3. q[i].deadline > now
      BY <2>3, <2>4, <3>1, <1>1 DEF Honest
    <3>4. x = Rank(U, i - d) /\ a[x].pointer = q[i].pointer
      BY <2>2, <2>3, <2>4, <3>1, <3>2
    <3> QED BY <3>2, <3>3, <3>4
  <2>5. CASE Same(q, e) = {} /\ k + d = Len(q) + 1 /\ m[k].pointer = e.pointer
    <3>1. (Len(q) + 1) - d = k
      BY <2>3, <2>5, <1>1, <1>5
    <3> QED BY <2>2, <2>3, <2>5, <3>1
  <2> QED BY <2>3, <2>4, <2>5, <1>1
<1>14. Same(q, e) = {} => Len(a) <= MaxPerHandle
  <2>1. MaxPerHandle \in Nat
    BY RelayAssumption
  <2> QED BY <2>1, <1>1, <1>5, <1>7, <1>8
<1>15. AfterPut(q, e, now) = a /\ Lost(q, e) = d
       /\ \A i \in Int : Place(q, e, now, i) = Rank(U, i - d)
  BY <1>4 DEF a, d
<1>16. \A i \in DOMAIN q : i \in Int
  BY <1>5
<1>17. Len(q) + 1 \in Int
  BY <1>5
<1>18. \A i \in DOMAIN q : Place(q, e, now, i) = Rank(U, i - d)
  BY <1>15, <1>16
<1>19. Place(q, e, now, Len(q) + 1) = Rank(U, (Len(q) + 1) - d)
  BY <1>15, <1>17, Zenon
<1> QED BY <1>9, <1>11, <1>12, <1>13, <1>14, <1>15, <1>18, <1>19, Zenon

\* So an fput queues no pointer twice.
LEMMA PutUnique ==
    ASSUME NEW q \in Seq(Queued), Honest(q), Unique(q), NEW e \in Envelope, NEW now \in Nat
    PROVE  Unique(AfterPut(q, e, now))
<1> DEFINE a == AfterPut(q, e, now)
<1>1. SUFFICES ASSUME NEW x \in DOMAIN a, NEW y \in DOMAIN a, a[x].pointer = a[y].pointer
               PROVE  x = y
  BY DEF Unique
<1> DEFINE Old(z) == \E i \in DOMAIN q : z = Place(q, e, now, i) /\ a[z].pointer = q[i].pointer
           New(z) == /\ Same(q, e) = {} /\ z = Place(q, e, now, Len(q) + 1)
                     /\ a[z].pointer = e.pointer
<1>2. \A z \in DOMAIN a : Old(z) \/ New(z)
  BY PutAt
<1> HIDE DEF a
<1>3. CASE Old(x) /\ Old(y)
  BY <1>1, <1>3 DEF Unique
<1>4. \A z \in DOMAIN a : Old(z) /\ Same(q, e) = {} => a[z].pointer # e.pointer
  BY DEF Same
<1>5. CASE New(x) /\ New(y)
  BY <1>5
<1> QED BY <1>1, <1>2, <1>3, <1>4, <1>5

\* What a drain takes goes to the answer unless it has expired, the rest
\* moves up, and an answer below the max leaves no rest.
LEMMA DrainAt ==
    ASSUME NEW q \in Seq(Queued), NEW max \in Nat, NEW now \in Nat
    PROVE  LET n == Taken(q, max, now)
               p == DropFirst(q, n)
               d == Delivered(q, max, now)
           IN  /\ n \in Nat
               /\ \A i \in DOMAIN q : i > n => i - n \in DOMAIN p /\ p[i - n] = q[i]
               /\ \A k \in DOMAIN p : k + n \in DOMAIN q /\ p[k] = q[k + n]
               /\ \A i \in DOMAIN q : i <= n /\ q[i].deadline > now =>
                     \E k \in DOMAIN d : d[k] = q[i].pointer
               /\ Len(d) < max => p = <<>>
<1> DEFINE n == Taken(q, max, now)
           p == DropFirst(q, n)
           d == Delivered(q, max, now)
           K == {i \in Unburned(q, now) : i <= n}
           got == Keep(q, K)
<1>1. Len(q) \in Nat /\ DOMAIN q = 1..Len(q)
  BY LenProperties
<1>2. n \in 0..Len(q)
  BY TakenType
<1>16. n = Len(q) \/ Rank(Unburned(q, now), n) >= max
  BY TakenType
<1>3. K \subseteq DOMAIN q
  BY DEF Unburned
<1>4. d = [i \in DOMAIN got |-> got[i].pointer]
  BY DEF Delivered
<1>5. \A i \in DOMAIN q : i <= n /\ q[i].deadline > now => i \in K
  BY DEF Unburned
<1>6. Rank(Unburned(q, now), n) = Cardinality(K)
  BY DEF Rank
<1> HIDE DEF n, d, K
<1>7. /\ p \in Seq(Queued) /\ DOMAIN p = 1..(Len(q) - n)
      /\ \A i \in 1..(Len(q) - n) : p[i] = q[n + i]
  BY <1>2, DropFirstKeepsRest
<1>8. /\ got \in Seq(Queued) /\ Len(got) = Cardinality(K) /\ DOMAIN got = 1..Cardinality(K)
      /\ \A i \in K : \E j \in DOMAIN got : got[j] = q[i]
  BY <1>3, KeepKeeps
<1>9. Cardinality(K) \in Nat
  BY <1>1, <1>3, IndicesFinite
<1> HIDE DEF got
<1>10. Len(d) = Cardinality(K)
  <2>1. d = [i \in 1..Cardinality(K) |-> got[i].pointer]
    BY <1>4, <1>8
  <2> QED BY <2>1, <1>9
<1>11. Len(d) < max => p = <<>>
  <2>1. SUFFICES ASSUME Len(d) < max PROVE p = <<>>
    OBVIOUS
  <2>2. n = Len(q)
    BY <2>1, <1>16, <1>6, <1>9, <1>10
  <2>3. DOMAIN p = 1..0
    BY <2>2, <1>1, <1>7
  <2> HIDE DEF p
  <2> QED BY <2>3, <1>7, EmptySeq, LenProperties
<1> HIDE DEF p
<1>12. \A i \in DOMAIN q : i > n => i - n \in DOMAIN p /\ p[i - n] = q[i]
  <2>1. SUFFICES ASSUME NEW i \in 1..Len(q), i > n PROVE i - n \in DOMAIN p /\ p[i - n] = q[i]
    BY <1>1
  <2>2. i - n \in 1..(Len(q) - n) /\ n + (i - n) = i
    BY <2>1, <1>1, <1>2
  <2> QED BY <2>2, <1>7
<1>13. \A k \in DOMAIN p : k + n \in DOMAIN q /\ p[k] = q[k + n]
  <2>1. SUFFICES ASSUME NEW k \in 1..(Len(q) - n) PROVE k + n \in DOMAIN q /\ p[k] = q[k + n]
    BY <1>7
  <2>2. k + n \in 1..Len(q) /\ k + n = n + k
    BY <1>1, <1>2
  <2> QED BY <2>2, <1>1, <1>7
<1>14. \A i \in DOMAIN q : i <= n /\ q[i].deadline > now => \E k \in DOMAIN d : d[k] = q[i].pointer
  BY <1>4, <1>5, <1>8
<1>15. n \in Nat
  BY <1>1, <1>2
<1> QED BY <1>11, <1>12, <1>13, <1>14, <1>15 DEF n, p, d

\* open puts back honest entries, and no pointer twice
\* when no two of the files carry the same.
LEMMA RebuiltAt ==
    ASSUME NEW S, S \subseteq Envelope, IsFiniteSet(S), NEW s \in Sorted(S)
    PROVE  /\ Honest(RebuiltQueue(s))
           /\ (\A f, g \in S : f.pointer = g.pointer => f = g) => Unique(RebuiltQueue(s))
<1>1. Cardinality(S) \in Nat
  BY FS_CardinalityType
<1>2. /\ s \in [1..Cardinality(S) -> S]
      /\ \A i, j \in 1..Cardinality(S) : i < j => s[i] # s[j]
  BY DEF Sorted
<1>3. /\ DOMAIN RebuiltQueue(s) = 1..Cardinality(S)
      /\ \A i \in 1..Cardinality(S) : RebuiltQueue(s)[i] = NewEntry(s[i])
  BY <1>2 DEF RebuiltQueue
<1>4. \A f : /\ NewEntry(f).pointer = f.pointer /\ NewEntry(f).deadline = f.pointer.deadline
             /\ NewEntry(f).env = f
  BY DEF NewEntry
<1>5. Honest(RebuiltQueue(s))
  BY <1>3, <1>4 DEF Honest
<1>6. ASSUME \A f, g \in S : f.pointer = g.pointer => f = g PROVE Unique(RebuiltQueue(s))
  <2>1. SUFFICES ASSUME NEW i \in 1..Cardinality(S), NEW j \in 1..Cardinality(S),
                        s[i].pointer = s[j].pointer
                 PROVE  i = j
    BY <1>3, <1>4 DEF Unique
  <2>2. s[i] = s[j]
    BY <1>2, <1>6, <2>1
  <2>3. i \in Int /\ j \in Int
    OBVIOUS
  <2> QED BY <2>2, <2>3, <1>2
<1> QED BY <1>5, <1>6

-----------------------------------------------------------------------------
(* The steps that touch a queue. *)

LEMMA EnqueueEffect ==
    ASSUME TypeOK, NEW t \in Handlers, FputEnqueue(t)
    PROVE  /\ req[t].handle \in Handles /\ fresh[t] \in Envelope /\ clock \in Nat
           /\ queues \in [Handles -> Seq(Queued)]
           /\ queues' = [queues EXCEPT ![req[t].handle] =
                            AfterPut(queues[req[t].handle], fresh[t], clock)]
           /\ pc[t] = "enqueue"
           /\ UNCHANGED <<up, out>>
<1>1. /\ req[t] \in FputRequest /\ fresh[t] \in Envelope
      /\ queues \in [Handles -> Seq(Queued)] /\ clock \in 1..MaxTime
  BY DEF FputEnqueue, Stamped, TypeOK, NodeTypeOK, HandlerTypeOK
<1>2. /\ queues' = [queues EXCEPT ![req[t].handle] =
                       AfterPut(queues[req[t].handle], fresh[t], clock)]
      /\ pc[t] = "enqueue" /\ UNCHANGED <<up, out>>
  BY DEF FputEnqueue
<1>3. clock \in Nat
  BY <1>1, RelayAssumption
<1> QED BY <1>1, <1>2, <1>3 DEF FputRequest

LEMMA DrainEffect ==
    ASSUME TypeOK, NEW t \in Handlers, FpopDrain(t)
    PROVE  /\ req[t].handle \in Handles /\ req[t].max \in Nat
           /\ queues \in [Handles -> Seq(Queued)]
           /\ pc[t] = "drain" /\ UNCHANGED up
           /\ \A u \in Handlers : u # t => pc'[u] = pc[u]
           /\ \E now \in 0..clock :
                 /\ queues' = [queues EXCEPT ![req[t].handle] =
                                  DropFirst(queues[req[t].handle],
                                            Taken(queues[req[t].handle], req[t].max, now))]
                 /\ out'[t] = Delivered(queues[req[t].handle], req[t].max, now)
<1>1. /\ req[t] \in FpopRequest /\ queues \in [Handles -> Seq(Queued)]
      /\ out \in [Handlers -> Seq(Pointer)] /\ pc \in [Handlers -> Labels]
      /\ seen[t] \in 0..clock /\ clock \in 1..MaxTime
  BY DEF FpopDrain, TypeOK, NodeTypeOK, HandlerTypeOK
<1>2. PICK now \in Read(t) :
         /\ queues' = [queues EXCEPT ![req[t].handle] =
                          DropFirst(queues[req[t].handle],
                                    Taken(queues[req[t].handle], req[t].max, now))]
         /\ out' = [out EXCEPT ![t] = Delivered(queues[req[t].handle], req[t].max, now)]
  BY DEF FpopDrain
<1>3. now \in 0..clock
  BY <1>1, RelayAssumption DEF Read
<1>4. pc[t] = "drain" /\ UNCHANGED up /\ pc' = [pc EXCEPT ![t] = "reply"]
  BY DEF FpopDrain, Goto
<1>5. req[t].handle \in Handles /\ req[t].max \in Nat
  BY <1>1, RelayAssumption DEF FpopRequest
<1>6. out'[t] = Delivered(queues[req[t].handle], req[t].max, now)
  BY <1>1, <1>2
<1>7. \A u \in Handlers : u # t => pc'[u] = pc[u]
  BY <1>1, <1>4
<1> QED BY <1>1, <1>2, <1>3, <1>4, <1>5, <1>6, <1>7

\* Nothing but the two queue regions, and the node's stop and start, touches a
\* queue.
LEMMA QueueSteps ==
    ASSUME TypeOK, [Next]_vars
    PROVE  \/ UNCHANGED <<queues, up>>
           \/ Crash \/ Open
           \/ \E t \in Handlers : FputEnqueue(t) \/ FpopDrain(t)
<1>1. CASE UNCHANGED vars \/ Tick
  BY <1>1 DEF vars, store, Tick
<1>2. ASSUME NEW t \in Handlers, Step(t) \/ \E r \in Request : Receive(t, r)
      PROVE  UNCHANGED <<queues, up>> \/ FputEnqueue(t) \/ FpopDrain(t)
  <2>1. CASE FputRename(t)
    BY <2>1 DEF FputRename
  <2>2. CASE Aside(t)
    BY <2>2 DEF Aside
  <2> QED BY <1>2, <2>1, <2>2, AsideSteps DEF Step
<1> QED BY <1>1, <1>2 DEF Next

\* open fills each queue with the envelopes kept for its handle.
LEMMA OpenEffect ==
    ASSUME TypeOK, Open, NEW h \in Handles
    PROVE  \E S \in SUBSET {f \in files : f.handle = h} :
              /\ S \subseteq Envelope /\ IsFiniteSet(S)
              /\ \E s \in Sorted(S) : queues'[h] = RebuiltQueue(s)
<1> DEFINE S(k) == {f \in files : Rebuildable(f) /\ f.handle = k}
<1>1. PICK order \in [Handles -> UNION {Sorted(S(k)) : k \in Handles}] :
         /\ \A k \in Handles : order[k] \in Sorted(S(k))
         /\ queues' = [k \in Handles |-> RebuiltQueue(order[k])]
  BY DEF Open
<1>2. order[h] \in Sorted(S(h)) /\ queues'[h] = RebuiltQueue(order[h])
  BY <1>1
<1>3. S(h) \in SUBSET files /\ IsFiniteSet(files) /\ files \subseteq Envelope
  BY DEF TypeOK, NodeTypeOK
<1>4. S(h) \subseteq Envelope /\ IsFiniteSet(S(h))
  BY <1>3, FS_Subset
<1>5. S(h) \in SUBSET {f \in files : f.handle = h}
  OBVIOUS
<1> HIDE DEF S
<1> QED BY <1>2, <1>4, <1>5

\* Entries are honest, and a node that is down has no queues and serves
\* nobody.
QueueInv ==
    /\ \A h \in Handles : Honest(queues[h])
    /\ ~ up => /\ \A h \in Handles : queues[h] = <<>>
               /\ \A t \in Handlers : pc[t] = "idle"

\* So nothing but its start happens to it.
LEMMA DownSteps ==
    ASSUME QueueInv, ~ up, [Next]_vars
    PROVE  UNCHANGED <<queues, up, files, pc>> \/ Open
<1>1. CASE UNCHANGED vars \/ Tick
  BY <1>1 DEF vars, store, Tick
<1>2. ~ Crash /\ \A t \in Handlers, r \in Request : ~ Receive(t, r)
  BY DEF Crash, Receive
<1>3. \A t \in Handlers : ~ Step(t)
  BY DEF QueueInv, Step, Freg, FputLookup, Limit, FputPersist, FputRefuse,
         FputWrite, FputRename, FputPersistFails, FputEnqueue, FpopAuth, FpopDrain, FpopReply
<1> QED BY <1>1, <1>2, <1>3 DEF Next

LEMMA EmptyQueue == Honest(<<>>) /\ Unique(<<>>) /\ PointersIn(<<>>) = {}
  BY DEF Honest, Unique, PointersIn

LEMMA QueueInvInit == Init => QueueInv
  BY EmptyQueue DEF Init, QueueInv

LEMMA QueueInvStep ==
    ASSUME TypeOK, QueueInv, [Next]_vars
    PROVE  QueueInv'
<1>0. CASE UNCHANGED <<queues, up, pc>>
  BY <1>0 DEF QueueInv
<1>1. CASE UNCHANGED <<queues, up>> /\ up
  BY <1>1 DEF QueueInv
<1>2. CASE Crash
  BY <1>2, EmptyQueue DEF Crash, QueueInv
<1>3. CASE Open
  <2>1. up'
    BY <1>3 DEF Open
  <2>2. ASSUME NEW h \in Handles PROVE Honest(queues'[h])
    BY <1>3, OpenEffect, RebuiltAt
  <2> QED BY <2>1, <2>2 DEF QueueInv
<1>4. ASSUME NEW t \in Handlers, FputEnqueue(t) PROVE QueueInv'
  <2> DEFINE h == req[t].handle
             q == AfterPut(queues[h], fresh[t], clock)
  <2>1. /\ h \in Handles /\ fresh[t] \in Envelope /\ clock \in Nat
        /\ queues \in [Handles -> Seq(Queued)]
        /\ queues' = [queues EXCEPT ![h] = q]
        /\ UNCHANGED up
    BY <1>4, EnqueueEffect
  <2>2. up
    BY <1>4 DEF FputEnqueue, QueueInv
  <2>3. Honest(q)
    BY <2>1, PutAt DEF QueueInv
  <2> HIDE DEF h, q
  <2> QED BY <2>1, <2>2, <2>3 DEF QueueInv
<1>5. ASSUME NEW t \in Handlers, FpopDrain(t) PROVE QueueInv'
  <2> DEFINE h == req[t].handle
             max == req[t].max
  <2>1. h \in Handles /\ max \in Nat /\ queues \in [Handles -> Seq(Queued)] /\ UNCHANGED up
    BY <1>5, DrainEffect
  <2>2. PICK now \in 0..clock :
           queues' = [queues EXCEPT ![h] = DropFirst(queues[h], Taken(queues[h], max, now))]
    BY <1>5, DrainEffect
  <2> DEFINE q == DropFirst(queues[h], Taken(queues[h], max, now))
  <2>3. now \in Nat /\ queues[h] \in Seq(Queued)
    BY <2>1
  <2> HIDE DEF h, max
  <2>4. \A i \in DOMAIN q : \E k \in DOMAIN queues[h] : q[i] = queues[h][k]
    BY <2>1, <2>3, DrainQueue
  <2>5. Honest(queues[h])
    BY <2>1 DEF QueueInv
  <2> HIDE DEF q
  <2>6. Honest(q)
    BY <2>4, <2>5, HonestPart
  <2>7. queues' = [queues EXCEPT ![h] = q]
    BY <2>2 DEF q
  <2>8. up
    BY <1>5 DEF FpopDrain, QueueInv
  <2> QED BY <2>1, <2>6, <2>7, <2>8 DEF QueueInv
<1> QED BY <1>0, <1>1, <1>2, <1>3, <1>4, <1>5, QueueSteps, DownSteps

LEMMA QueueHolds == Spec => []QueueInv
<1>1. TypeOK /\ QueueInv /\ [Next]_vars => QueueInv'
  BY QueueInvStep
<1> QED BY QueueInvInit, <1>1, TypeCorrect, PTL DEF Spec

-----------------------------------------------------------------------------
(* What enters, what leaves, what a drain answers. *)

LEMMA NewStep ==
    ASSUME TypeOK, QueueInv, [Next]_vars, NEW h \in Handles, up,
           ~ (PointersIn(queues'[h]) \subseteq PointersIn(queues[h]))
    PROVE  Len(queues'[h]) <= MaxPerHandle
<1>1. CASE UNCHANGED queues \/ Crash
  BY <1>1, EmptyQueue DEF Crash
<1>2. CASE Open
  BY <1>2 DEF Open
<1>3. ASSUME NEW t \in Handlers, FputEnqueue(t) PROVE Len(queues'[h]) <= MaxPerHandle
  <2> DEFINE q == queues[h]
             a == AfterPut(q, fresh[t], clock)
  <2>1. /\ fresh[t] \in Envelope /\ clock \in Nat
        /\ queues \in [Handles -> Seq(Queued)]
        /\ queues' = [queues EXCEPT ![req[t].handle] =
                         AfterPut(queues[req[t].handle], fresh[t], clock)]
    BY <1>3, EnqueueEffect
  <2>2. h = req[t].handle /\ queues'[h] = a
    BY <2>1
  <2>3. q \in Seq(Queued) /\ Honest(q)
    BY <2>1 DEF QueueInv
  <2> HIDE DEF q
  <2>4. Same(q, fresh[t]) = {}
    <3>1. SUFFICES ASSUME Same(q, fresh[t]) # {} PROVE FALSE
      OBVIOUS
    <3>2. \A x \in DOMAIN a : \E i \in DOMAIN q : a[x].pointer = q[i].pointer
      BY <2>1, <2>3, <3>1, PutAt
    <3>3. PointersIn(a) \subseteq PointersIn(q)
      BY <3>2 DEF PointersIn
    <3> QED BY <2>2, <3>3 DEF q
  <2>5. Len(a) <= MaxPerHandle
    BY <2>1, <2>3, <2>4, PutAt
  <2> QED BY <2>2, <2>5
<1>4. ASSUME NEW t \in Handlers, FpopDrain(t) PROVE FALSE
  <2> DEFINE q == queues[h]
             max == req[t].max
  <2>1. max \in Nat /\ queues \in [Handles -> Seq(Queued)]
    BY <1>4, DrainEffect
  <2>2. PICK now \in 0..clock :
           queues' = [queues EXCEPT ![req[t].handle] =
                         DropFirst(queues[req[t].handle],
                                   Taken(queues[req[t].handle], max, now))]
    BY <1>4, DrainEffect
  <2>3. h = req[t].handle /\ queues'[h] = DropFirst(q, Taken(q, max, now))
    BY <2>1, <2>2
  <2>4. q \in Seq(Queued) /\ now \in Nat
    BY <2>1
  <2> HIDE DEF q, max
  <2>5. \A i \in DOMAIN DropFirst(q, Taken(q, max, now)) :
            \E k \in DOMAIN q : DropFirst(q, Taken(q, max, now))[i] = q[k]
    BY <2>1, <2>4, DrainQueue
  <2>6. PointersIn(DropFirst(q, Taken(q, max, now))) \subseteq PointersIn(q)
    BY <2>5 DEF PointersIn
  <2> QED BY <2>3, <2>6 DEF q
<1> QED BY <1>1, <1>2, <1>3, <1>4, QueueSteps

\* A pointer enters a queue only as the queue ends within its cap, whatever
\* the cap (max_per_handle, run_fput 552-573).
THEOREM NewcomersFit == Spec => NewWithinCap
<1> DEFINE Fits ==
        \A h \in Handles :
            up /\ ~ (PointersIn(queues'[h]) \subseteq PointersIn(queues[h]))
            => Len(queues'[h]) <= MaxPerHandle
<1>1. TypeOK /\ QueueInv /\ [Next]_vars => [Fits]_vars
  BY NewStep
<1> HIDE DEF Fits
<1>2. TypeOK /\ QueueInv /\ TypeOK' /\ [Next]_vars => [Fits]_vars
  BY <1>1
<1>3. Spec => [][Fits]_vars
  BY <1>1, TypeCorrect, QueueHolds, PTL DEF Spec
<1> QED BY <1>3 DEF Fits, NewWithinCap

LEMMA LossStep ==
    ASSUME TypeOK, QueueInv, [Next]_vars, NEW h \in Handles, NEW i \in DOMAIN queues[h],
           up', queues[h][i].deadline > clock,
           queues[h][i].pointer \notin PointersIn(queues'[h])
    PROVE  \/ /\ i <= Overflow(queues[h])
              /\ \E t \in Handlers : pc[t] = "enqueue" /\ req[t].handle = h
           \/ \E t \in Handlers : \E k \in DOMAIN out'[t] :
                 /\ pc[t] = "drain" /\ req[t].handle = h
                 /\ out'[t][k] = queues[h][i].pointer
<1>0. /\ queues \in [Handles -> Seq(Queued)] /\ clock \in Nat
  BY RelayAssumption DEF TypeOK, NodeTypeOK
<1>a. i \in Nat /\ i >= 1 /\ queues[h][i].deadline \in Nat
  <2>1. queues[h] \in Seq(Queued)
    BY <1>0
  <2>2. Len(queues[h]) \in Nat /\ DOMAIN queues[h] = 1..Len(queues[h])
    BY <2>1, LenProperties
  <2>3. queues[h][i] \in Queued
    BY <2>1, <2>2, ElementOfSeq
  <2> QED BY <2>2, <2>3 DEF Queued
<1>1. CASE UNCHANGED queues
  BY <1>1 DEF PointersIn
<1>2. CASE Crash
  BY <1>2 DEF Crash
<1>3. CASE Open
  BY <1>3 DEF Open, QueueInv
<1>4. ASSUME NEW t \in Handlers, FputEnqueue(t)
      PROVE  /\ i <= Overflow(queues[h])
             /\ pc[t] = "enqueue" /\ req[t].handle = h
  <2> DEFINE q == queues[h]
             e == fresh[t]
             a == AfterPut(q, e, clock)
  <2>1. /\ e \in Envelope /\ pc[t] = "enqueue"
        /\ queues' = [queues EXCEPT ![req[t].handle] =
                         AfterPut(queues[req[t].handle], fresh[t], clock)]
    BY <1>4, EnqueueEffect
  <2>2. h = req[t].handle /\ queues'[h] = a
    BY <2>1, <1>0 DEF PointersIn
  <2>3. q \in Seq(Queued) /\ Honest(q) /\ i \in DOMAIN q /\ q[i].deadline > clock
    BY <1>0 DEF QueueInv
  <2>4. q[i].pointer \notin PointersIn(a)
    BY <2>2
  <2> HIDE DEF q, e
  <2>5. ~ (i > Lost(q, e))
    <3>1. SUFFICES ASSUME i > Lost(q, e) PROVE FALSE
      OBVIOUS
    <3>2. clock \in Nat /\ e \in Envelope /\ q \in Seq(Queued) /\ Honest(q)
      BY <1>0, <2>1, <2>3
    <3>3. \A j \in DOMAIN q : j > Lost(q, e) /\ q[j].deadline > clock =>
             /\ Place(q, e, clock, j) \in DOMAIN a
             /\ a[Place(q, e, clock, j)].pointer = q[j].pointer
      BY <3>2, PutAt
    <3> HIDE DEF a
    <3>4. /\ Place(q, e, clock, i) \in DOMAIN a
          /\ a[Place(q, e, clock, i)].pointer = q[i].pointer
      BY <2>3, <3>1, <3>3
    <3> QED BY <2>4, <3>4 DEF PointersIn
  <2>6. Lost(q, e) \in Nat
    BY <2>1, <2>3, MergedAt
  <2>7. i <= Overflow(q)
    BY <2>5, <2>6, <1>a DEF Lost
  <2> QED BY <2>1, <2>2, <2>7 DEF q
<1>5. ASSUME NEW t \in Handlers, FpopDrain(t)
      PROVE  /\ pc[t] = "drain" /\ req[t].handle = h
             /\ \E k \in DOMAIN out'[t] : out'[t][k] = queues[h][i].pointer
  <2> DEFINE q == queues[h]
             max == req[t].max
  <2>1. max \in Nat /\ pc[t] = "drain"
    BY <1>5, DrainEffect
  <2>2. PICK now \in 0..clock :
           /\ queues' = [queues EXCEPT ![req[t].handle] =
                            DropFirst(queues[req[t].handle],
                                      Taken(queues[req[t].handle], max, now))]
           /\ out'[t] = Delivered(queues[req[t].handle], max, now)
    BY <1>5, DrainEffect
  <2>3. h = req[t].handle /\ queues'[h] = DropFirst(q, Taken(q, max, now))
    BY <1>0, <2>2 DEF PointersIn
  <2>4. q \in Seq(Queued) /\ now \in Nat /\ i \in DOMAIN q /\ q[i].deadline > now
    BY <1>0, <1>a
  <2>5. q[i].pointer \notin PointersIn(DropFirst(q, Taken(q, max, now)))
    BY <2>3
  <2>6. out'[t] = Delivered(q, max, now)
    BY <2>2, <2>3
  <2> HIDE DEF q, max
  <2> DEFINE n == Taken(q, max, now)
             p == DropFirst(q, n)
  <2>7. /\ n \in Nat
        /\ \A j \in DOMAIN q : j > n => j - n \in DOMAIN p /\ p[j - n] = q[j]
        /\ \A j \in DOMAIN q : j <= n /\ q[j].deadline > now =>
              \E k \in DOMAIN Delivered(q, max, now) : Delivered(q, max, now)[k] = q[j].pointer
    BY <2>1, <2>4, DrainAt
  <2>8. q[i].pointer \notin PointersIn(p)
    BY <2>5
  <2> HIDE DEF n, p
  <2>9. ~ (i > n)
    BY <2>4, <2>7, <2>8 DEF PointersIn
  <2>10. i <= n
    BY <2>7, <2>9, <1>a
  <2>11. \E k \in DOMAIN out'[t] : out'[t][k] = q[i].pointer
    BY <2>4, <2>6, <2>7, <2>10
  <2> QED BY <2>1, <2>3, <2>11 DEF q
<1> QED BY <1>1, <1>2, <1>3, <1>4, <1>5, QueueSteps

\* While the node serves, a live envelope leaves its queue only into an fpop's
\* answer or as one of the oldest of a full queue (run_fput 552-573, run_fpop
\* 629-636).
THEOREM LiveKept == Spec => NoLiveLoss
<1> DEFINE Kept ==
        \A h \in Handles : \A i \in DOMAIN queues[h] :
            /\ up' /\ queues[h][i].deadline > clock
            /\ queues[h][i].pointer \notin PointersIn(queues'[h])
            => \/ /\ i <= Overflow(queues[h])
                  /\ \E t \in Handlers : pc[t] = "enqueue" /\ req[t].handle = h
               \/ \E t \in Handlers : \E k \in DOMAIN out'[t] :
                     /\ pc[t] = "drain" /\ req[t].handle = h
                     /\ out'[t][k] = queues[h][i].pointer
<1>1. TypeOK /\ QueueInv /\ [Next]_vars => [Kept]_vars
  BY LossStep
<1> HIDE DEF Kept
<1>2. Spec => [][Kept]_vars
  BY <1>1, TypeCorrect, QueueHolds, PTL DEF Spec
<1> QED BY <1>2 DEF Kept, NoLiveLoss

LEMMA FillStep ==
    ASSUME TypeOK, QueueInv, [Next]_vars, NEW t \in Handlers,
           pc[t] = "drain", pc'[t] = "reply", Len(out'[t]) < req[t].max
    PROVE  queues'[req[t].handle] = <<>>
<1>1. FpopDrain(t)
  <2>1. ~ Crash
    BY DEF Crash
  <2>2. CASE UNCHANGED vars \/ Tick \/ Open
    BY <2>2 DEF vars, store, Tick, Open
  <2>3. ASSUME NEW u \in Handlers, Step(u) \/ \E r \in Request : Receive(u, r)
        PROVE  u = t /\ FpopDrain(u)
    <3>1. pc \in [Handlers -> Labels]
      BY DEF TypeOK, HandlerTypeOK
    <3>2. (\E l : pc' = [pc EXCEPT ![u] = l]) 
      BY <2>3 DEF Step, Receive, Freg, FputLookup, Limit, FputPersist, FputRefuse,
         FputWrite, FputRename, FputPersistFails, FputEnqueue, FpopAuth, FpopDrain, FpopReply,
         Goto, Finish
    <3>3. u = t
      BY <3>1, <3>2
    <3>4. ~ FpopDrain(u) => pc[u] # "drain"
      BY <2>3 DEF Step, Receive, Freg, FputLookup, Limit, FputPersist, FputRefuse,
         FputWrite, FputRename, FputPersistFails, FputEnqueue, FpopAuth, FpopReply
    <3> QED BY <3>3, <3>4
  <2> QED BY <2>1, <2>2, <2>3 DEF Next
<1> DEFINE q == queues[req[t].handle]
           max == req[t].max
<1>2. req[t].handle \in Handles /\ max \in Nat /\ queues \in [Handles -> Seq(Queued)]
  BY <1>1, DrainEffect
<1>3. PICK now \in 0..clock :
         /\ queues' = [queues EXCEPT ![req[t].handle] = DropFirst(q, Taken(q, max, now))]
         /\ out'[t] = Delivered(q, max, now)
  BY <1>1, DrainEffect
<1>4. now \in Nat /\ q \in Seq(Queued)
  <2>1. clock \in Nat
    BY RelayAssumption DEF TypeOK, NodeTypeOK
  <2> QED BY <2>1, <1>2
<1>5. queues'[req[t].handle] = DropFirst(q, Taken(q, max, now))
  BY <1>2, <1>3
<1>6. Len(Delivered(q, max, now)) < max
  BY <1>3
<1> HIDE DEF q, max
<1>7. DropFirst(q, Taken(q, max, now)) = <<>>
  BY <1>2, <1>4, <1>6, DrainAt
<1> QED BY <1>5, <1>7

\* An answer shorter than the requested max has emptied the mailbox, whatever
\* expired entries lay in it (run_fpop 629-636).
THEOREM DrainsFill == Spec => DrainFills
<1> DEFINE Fills ==
        \A t \in Handlers :
            pc[t] = "drain" /\ pc'[t] = "reply" /\ Len(out'[t]) < req[t].max
            => queues'[req[t].handle] = <<>>
<1>1. TypeOK /\ QueueInv /\ [Next]_vars => [Fills]_vars
  BY FillStep
<1> HIDE DEF Fills
<1>2. Spec => [][Fills]_vars
  BY <1>1, TypeCorrect, QueueHolds, PTL DEF Spec
<1> QED BY <1>2 DEF Fills, DrainFills

-----------------------------------------------------------------------------
(* A node that stays up.  A crash between the persist and the enqueue of a *)
(* re-published pointer leaves two files with that pointer, so duplicates  *)
(* and their places in the order are ruled out only without crashes, after *)
(* a start from files without duplicates.                                  *)

FreshRun ==
    /\ ~ CanCrash
    /\ \A f, g \in Legacy : f.handle = g.handle /\ f.pointer = g.pointer => f = g

\* Until it starts, the node's files are those it found.
FoundFiles == ~ up => files = Legacy

LEMMA UniqueStep ==
    ASSUME FreshRun, TypeOK, QueueInv, OnePerPointer, FoundFiles, [Next]_vars
    PROVE  OnePerPointer' /\ FoundFiles'
<1>0. OnePerPointer <=> \A h \in Handles : Unique(queues[h])
  BY DEF OnePerPointer, Unique
<1>a. OnePerPointer' <=> \A h \in Handles : Unique(queues'[h])
  BY DEF OnePerPointer, Unique
<1>1. ~ Crash
  BY DEF Crash, FreshRun
<1>2. FoundFiles'
  <2>1. CASE ~ up
    BY <2>1, DownSteps DEF FoundFiles, Open
  <2>2. CASE up
    BY <2>2, <1>1, QueueSteps, EnqueueEffect, DrainEffect DEF FoundFiles, Open
  <2> QED BY <2>1, <2>2
<1>3. ASSUME UNCHANGED queues, NEW h \in Handles PROVE Unique(queues'[h])
  BY <1>3, <1>0
<1>4. ASSUME Open, NEW h \in Handles PROVE Unique(queues'[h])
  <2>1. files = Legacy
    BY <1>4 DEF Open, FoundFiles
  <2>2. PICK S \in SUBSET {f \in files : f.handle = h} :
           /\ S \subseteq Envelope /\ IsFiniteSet(S)
           /\ \E s \in Sorted(S) : queues'[h] = RebuiltQueue(s)
    BY <1>4, OpenEffect
  <2>3. \A f, g \in S : f.pointer = g.pointer => f = g
    BY <2>1, <2>2 DEF FreshRun
  <2> QED BY <2>2, <2>3, RebuiltAt
<1>5. ASSUME NEW t \in Handlers, FputEnqueue(t), NEW h \in Handles PROVE Unique(queues'[h])
  <2>1. /\ fresh[t] \in Envelope /\ clock \in Nat
        /\ queues \in [Handles -> Seq(Queued)]
        /\ queues' = [queues EXCEPT ![req[t].handle] =
                         AfterPut(queues[req[t].handle], fresh[t], clock)]
    BY <1>5, EnqueueEffect
  <2>2. CASE h # req[t].handle
    BY <2>1, <2>2, <1>0
  <2>3. CASE h = req[t].handle
    <3>1. queues[h] \in Seq(Queued) /\ Honest(queues[h]) /\ Unique(queues[h])
      BY <2>1, <1>0 DEF QueueInv
    <3>2. queues'[h] = AfterPut(queues[h], fresh[t], clock)
      BY <2>1, <2>3
    <3> QED BY <2>1, <3>1, <3>2, PutUnique
  <2> QED BY <2>2, <2>3
<1>6. ASSUME NEW t \in Handlers, FpopDrain(t), NEW h \in Handles PROVE Unique(queues'[h])
  <2> DEFINE q == queues[h]
             max == req[t].max
  <2>1. max \in Nat /\ queues \in [Handles -> Seq(Queued)]
    BY <1>6, DrainEffect
  <2>2. PICK now \in 0..clock :
           queues' = [queues EXCEPT ![req[t].handle] =
                         DropFirst(queues[req[t].handle],
                                   Taken(queues[req[t].handle], max, now))]
    BY <1>6, DrainEffect
  <2>3. CASE h # req[t].handle
    BY <2>1, <2>2, <2>3, <1>0
  <2>4. CASE h = req[t].handle
    <3> DEFINE n == Taken(q, max, now)
               p == DropFirst(q, n)
    <3>1. queues'[h] = p /\ q \in Seq(Queued) /\ now \in Nat /\ Unique(q)
      BY <2>1, <2>2, <2>4, <1>0
    <3> HIDE DEF q, max
    <3>2. n \in 0..Len(q)
      BY <2>1, <3>1, TakenType
    <3> HIDE DEF n
    <3>3. /\ DOMAIN p = 1..(Len(q) - n)
          /\ \A k \in 1..(Len(q) - n) : p[k] = q[n + k]
      BY <3>1, <3>2, DropFirstKeepsRest
    <3>4. Len(q) \in Nat /\ DOMAIN q = 1..Len(q)
      BY <3>1, LenProperties
    <3> HIDE DEF p
    <3>5. SUFFICES ASSUME NEW k \in 1..(Len(q) - n), NEW l \in 1..(Len(q) - n),
                          p[k].pointer = p[l].pointer
                   PROVE  k = l
      BY <3>1, <3>3 DEF Unique
    <3>6. n + k \in 1..Len(q) /\ n + l \in 1..Len(q)
      BY <3>2, <3>4
    <3>7. n + k = n + l
      BY <3>1, <3>3, <3>4, <3>5, <3>6 DEF Unique
    <3> QED BY <3>2, <3>4, <3>7
  <2> QED BY <2>3, <2>4
<1>7. UNCHANGED queues \/ Open \/ \E t \in Handlers : FputEnqueue(t) \/ FpopDrain(t)
  BY <1>1, QueueSteps
<1>8. \A h \in Handles : Unique(queues'[h])
  BY <1>3, <1>4, <1>5, <1>6, <1>7
<1> QED BY <1>a, <1>2, <1>8

\* In a run without a crash, from files without duplicates, no queue ever
\* holds a pointer twice, whatever fputs race (fabric.rs 441-442, run_fput
\* 538-551).
THEOREM OneEach == ASSUME FreshRun PROVE Spec => []OnePerPointer
<1>1. Init => OnePerPointer /\ FoundFiles
  BY DEF Init, OnePerPointer, FoundFiles
<1>2. TypeOK /\ QueueInv /\ (OnePerPointer /\ FoundFiles) /\ [Next]_vars
        => OnePerPointer' /\ FoundFiles'
  BY UniqueStep
<1> QED BY <1>1, <1>2, TypeCorrect, QueueHolds, PTL DEF Spec

LEMMA OrderStep ==
    ASSUME FreshRun, TypeOK, QueueInv, OnePerPointer, [Next]_vars, NEW h \in Handles,
           NEW i \in DOMAIN queues[h], NEW j \in DOMAIN queues[h],
           i < j, queues[h][j].deadline > clock,
           queues[h][i].pointer \in PointersIn(queues'[h])
    PROVE  \E k, l \in DOMAIN queues'[h] :
              /\ k < l
              /\ queues'[h][k].pointer = queues[h][i].pointer
              /\ queues'[h][l].pointer = queues[h][j].pointer
<1> DEFINE q == queues[h]
<1>0. /\ queues \in [Handles -> Seq(Queued)] /\ clock \in Nat
      /\ q \in Seq(Queued) /\ Honest(q) /\ Unique(q)
  BY RelayAssumption DEF TypeOK, NodeTypeOK, QueueInv, OnePerPointer, Unique
<1>1. CASE UNCHANGED queues
  BY <1>1
<1>2. ~ Crash /\ ~ Open
  <2>1. ~ Crash
    BY DEF Crash, FreshRun
  <2>2. ~ Open
    BY DEF Open, QueueInv
  <2> QED BY <2>1, <2>2
<1>b. Len(q) \in Nat /\ DOMAIN q = 1..Len(q)
  BY <1>0, LenProperties
<1>3. ASSUME NEW t \in Handlers, FputEnqueue(t), req[t].handle = h
      PROVE \E k, l \in DOMAIN queues'[h] :
               /\ k < l
               /\ queues'[h][k].pointer = queues[h][i].pointer
               /\ queues'[h][l].pointer = queues[h][j].pointer
  <2> DEFINE e == fresh[t]
             a == AfterPut(q, e, clock)
             P(x) == Place(q, e, clock, x)
  <2>1. e \in Envelope /\ queues'[h] = a
    BY <1>0, <1>3, EnqueueEffect
  <2>2. PICK x \in DOMAIN a : a[x].pointer = q[i].pointer
    BY <2>1 DEF PointersIn
  <2>3. i \in DOMAIN q /\ j \in DOMAIN q /\ i < j /\ q[j].deadline > clock
    OBVIOUS
  <2> HIDE DEF q, e
  <2>4. /\ \A y \in DOMAIN q : y > Lost(q, e) /\ q[y].deadline > clock =>
              P(y) \in DOMAIN a /\ a[P(y)].pointer = q[y].pointer
        /\ \A y, z \in DOMAIN q :
              /\ y > Lost(q, e) /\ q[y].deadline > clock
              /\ z > y /\ q[z].deadline > clock
              => P(y) < P(z)
    BY <1>0, <2>1, PutAt
  <2>5. \/ \E y \in DOMAIN q :
              /\ y > Lost(q, e) /\ q[y].deadline > clock
              /\ x = P(y) /\ a[x].pointer = q[y].pointer
        \/ Same(q, e) = {} /\ a[x].pointer = e.pointer
    BY <1>0, <2>1, <2>2, PutAt
  <2>6. Lost(q, e) \in Nat
    BY <1>0, <2>1, MergedAt
  <2> HIDE DEF a, P
  <2>7. ~ (Same(q, e) = {} /\ a[x].pointer = e.pointer)
    BY <2>2, <2>3 DEF Same
  <2>8. i > Lost(q, e) /\ q[i].deadline > clock
    BY <1>0, <2>2, <2>3, <2>5, <2>7 DEF Unique
  <2>9. j > Lost(q, e) /\ j > i
    BY <2>3, <2>6, <2>8, <1>b
  <2>10. /\ P(i) \in DOMAIN a /\ a[P(i)].pointer = q[i].pointer
         /\ P(j) \in DOMAIN a /\ a[P(j)].pointer = q[j].pointer
         /\ P(i) < P(j)
    BY <2>3, <2>4, <2>8, <2>9
  <2>11. \E k, l \in DOMAIN a :
            k < l /\ a[k].pointer = q[i].pointer /\ a[l].pointer = q[j].pointer
    BY <2>10
  <2> QED BY <2>1, <2>11 DEF q
<1>4. ASSUME NEW t \in Handlers, FpopDrain(t), req[t].handle = h
      PROVE \E k, l \in DOMAIN queues'[h] :
               /\ k < l
               /\ queues'[h][k].pointer = queues[h][i].pointer
               /\ queues'[h][l].pointer = queues[h][j].pointer
  <2> DEFINE max == req[t].max
  <2>1. max \in Nat
    BY <1>4, DrainEffect
  <2>2. PICK now \in 0..clock :
           queues' = [queues EXCEPT ![req[t].handle] =
                         DropFirst(queues[req[t].handle],
                                   Taken(queues[req[t].handle], max, now))]
    BY <1>4, DrainEffect
  <2> DEFINE n == Taken(q, max, now)
             p == DropFirst(q, n)
  <2>3. queues'[h] = p /\ now \in Nat
    BY <1>0, <1>4, <2>2
  <2>4. i \in DOMAIN q /\ j \in DOMAIN q /\ i < j
    OBVIOUS
  <2>5. PICK x \in DOMAIN p : p[x].pointer = q[i].pointer
    BY <2>3 DEF PointersIn
  <2> HIDE DEF q, max
  <2>6. /\ n \in Nat
        /\ \A y \in DOMAIN q : y > n => y - n \in DOMAIN p /\ p[y - n] = q[y]
        /\ \A k \in DOMAIN p : k + n \in DOMAIN q /\ p[k] = q[k + n]
    BY <1>0, <2>1, <2>3, DrainAt
  <2>7. p \in Seq(Queued)
    BY <1>0, <2>1, <2>3, DrainQueue
  <2>8. Len(p) \in Nat /\ DOMAIN p = 1..Len(p)
    BY <2>7, LenProperties
  <2> HIDE DEF n, p
  <2>9. i = x + n
    BY <1>0, <2>4, <2>5, <2>6 DEF Unique
  <2>10. i > n /\ j > n /\ i - n < j - n
    BY <2>4, <2>5, <2>6, <2>8, <2>9, <1>b
  <2>11. /\ i - n \in DOMAIN p /\ p[i - n].pointer = q[i].pointer
         /\ j - n \in DOMAIN p /\ p[j - n].pointer = q[j].pointer
    BY <2>4, <2>6, <2>10
  <2>12. \E k, l \in DOMAIN p :
            k < l /\ p[k].pointer = q[i].pointer /\ p[l].pointer = q[j].pointer
    BY <2>10, <2>11
  <2> QED BY <2>3, <2>12 DEF q
<1>5. ASSUME NEW t \in Handlers, FputEnqueue(t) \/ FpopDrain(t), req[t].handle # h
      PROVE  queues'[h] = queues[h]
  BY <1>0, <1>5, EnqueueEffect, DrainEffect
<1> QED BY <1>1, <1>2, <1>3, <1>4, <1>5, QueueSteps

\* And its queues are FIFOs for live envelopes (run_fput 538-573, run_fpop
\* 629-636).
THEOREM InOrder == ASSUME FreshRun PROVE Spec => NoOvertaking
<1> DEFINE Orderly ==
        \A h \in Handles : \A i, j \in DOMAIN queues[h] :
            /\ i < j /\ queues[h][j].deadline > clock
            /\ queues[h][i].pointer \in PointersIn(queues'[h])
            => \E k, l \in DOMAIN queues'[h] :
                  /\ k < l
                  /\ queues'[h][k].pointer = queues[h][i].pointer
                  /\ queues'[h][l].pointer = queues[h][j].pointer
<1>1. TypeOK /\ QueueInv /\ OnePerPointer /\ [Next]_vars => [Orderly]_vars
  BY OrderStep
<1> HIDE DEF Orderly
<1>2. Spec => []OnePerPointer
  BY OneEach
<1>3. Spec => [][Orderly]_vars
  BY <1>1, <1>2, TypeCorrect, QueueHolds, PTL DEF Spec
<1> QED BY <1>3 DEF Orderly, NoOvertaking

-----------------------------------------------------------------------------
(* Counting the copies of a pointer. *)

\* The places of pointer p in a queue.
At(q, p) == {i \in DOMAIN q : q[i].pointer = p}

\* A set that a finite one can name has no more elements than that one.
LEMMA Named ==
    ASSUME NEW S, IsFiniteSet(S), NEW T, NEW f,
           \A y \in T : \E x \in S : f[x] = y
    PROVE  IsFiniteSet(T) /\ Cardinality(T) <= Cardinality(S)
<1> DEFINE U == {f[x] : x \in S}
           g == [x \in S |-> f[x]]
<1>1. g \in Surjection(S, U)
  BY DEF Surjection
<1>2. IsFiniteSet(U) /\ Cardinality(U) <= Cardinality(S)
  <2> HIDE DEF U, g
  <2> QED BY <1>1, FS_Surjection
<1>3. T \in SUBSET U
  OBVIOUS
<1> HIDE DEF U
<1>4. IsFiniteSet(T) /\ Cardinality(T) <= Cardinality(U)
  BY <1>2, <1>3, FS_Subset
<1>5. Cardinality(T) \in Nat /\ Cardinality(U) \in Nat /\ Cardinality(S) \in Nat
  BY <1>2, <1>4, FS_CardinalityType
<1> QED BY <1>2, <1>4, <1>5

LEMMA AtFinite ==
    ASSUME NEW q \in Seq(Queued), NEW p
    PROVE  IsFiniteSet(At(q, p)) /\ Cardinality(At(q, p)) \in Nat
<1>1. Len(q) \in Nat /\ At(q, p) \subseteq 1..Len(q)
  BY LenProperties DEF At
<1> QED BY <1>1, IndicesFinite

\* An fput adds one copy of its own pointer at most.
LEMMA PutCount ==
    ASSUME NEW q \in Seq(Queued), Honest(q), NEW e \in Envelope, NEW now \in Nat, NEW p
    PROVE  /\ p # e.pointer =>
                 Cardinality(At(AfterPut(q, e, now), p)) <= Cardinality(At(q, p))
           /\ Cardinality(At(AfterPut(q, e, now), p)) <= Cardinality(At(q, p)) + 1
<1> DEFINE a == AfterPut(q, e, now)
           last == Len(q) + 1
           f == [i \in 1..last |-> Place(q, e, now, i)]
           S == At(q, p)
           T == At(a, p)
<1>1. Len(q) \in Nat /\ DOMAIN q = 1..Len(q)
  BY LenProperties
<1>2. \A i \in DOMAIN q : i \in 1..last
  BY <1>1
<1>3. last \in 1..last
  BY <1>1
<1>4. IsFiniteSet(S) /\ Cardinality(S) \in Nat
  BY AtFinite
<1>5. \A x \in DOMAIN a : \/ \E i \in DOMAIN q : f[i] = x /\ a[x].pointer = q[i].pointer
                          \/ f[last] = x /\ a[x].pointer = e.pointer
  <2>1. \A x \in DOMAIN a :
           \/ \E i \in DOMAIN q : x = Place(q, e, now, i) /\ a[x].pointer = q[i].pointer
           \/ x = Place(q, e, now, Len(q) + 1) /\ a[x].pointer = e.pointer
    BY PutAt
  <2> HIDE DEF a
  <2>2. \A i \in DOMAIN q : f[i] = Place(q, e, now, i)
    BY <1>2
  <2>3. f[last] = Place(q, e, now, Len(q) + 1)
    BY <1>3
  <2> HIDE DEF f
  <2> QED BY <2>1, <2>2, <2>3
<1> HIDE DEF a, f, last
<1>6. p # e.pointer => \A x \in T : \E i \in S : f[i] = x
  BY <1>5 DEF At
<1>7. \A x \in T : \E i \in S \cup {last} : f[i] = x
  BY <1>5 DEF At
<1> HIDE DEF S, T
<1>8. p # e.pointer => Cardinality(T) <= Cardinality(S)
  <2>1. SUFFICES ASSUME p # e.pointer PROVE Cardinality(T) <= Cardinality(S)
    OBVIOUS
  <2>2. \A x \in T : \E i \in S : f[i] = x
    BY <1>6, <2>1
  <2> QED BY <1>4, <2>2, Named
<1>9. Cardinality(T) <= Cardinality(S) + 1
  <2>1. /\ IsFiniteSet(S \cup {last}) /\ Cardinality(S \cup {last}) \in Nat
        /\ Cardinality(S \cup {last}) <= Cardinality(S) + 1
    <3>1. /\ IsFiniteSet(S \cup {last})
          /\ Cardinality(S \cup {last}) =
                IF last \in S THEN Cardinality(S) ELSE Cardinality(S) + 1
      BY <1>4, FS_AddElement
    <3> QED BY <3>1, <1>4
  <2>2. IsFiniteSet(T) /\ Cardinality(T) <= Cardinality(S \cup {last})
    BY <1>7, <2>1, Named
  <2>3. Cardinality(T) \in Nat
    BY <2>2, FS_CardinalityType
  <2> QED BY <1>4, <2>1, <2>2, <2>3
<1> QED BY <1>8, <1>9 DEF S, T, a

\* What a drain leaves and what it answers were both in the queue.
LEMMA DrainCount ==
    ASSUME NEW q \in Seq(Queued), NEW max \in Nat, NEW now \in Nat, NEW p
    PROVE  Cardinality(At(DropFirst(q, Taken(q, max, now)), p))
             + Cardinality({k \in DOMAIN Delivered(q, max, now) :
                               Delivered(q, max, now)[k] = p})
             <= Cardinality(At(q, p))
<1> DEFINE n == Taken(q, max, now)
           r == DropFirst(q, n)
           d == Delivered(q, max, now)
           K == {i \in Unburned(q, now) : i <= n}
           got == Keep(q, K)
           High == {i \in At(q, p) : i > n}
           Low == {i \in At(q, p) : i <= n}
           Given == {k \in DOMAIN d : d[k] = p}
<1>1. Len(q) \in Nat /\ DOMAIN q = 1..Len(q)
  BY LenProperties
<1>2. n \in Nat /\ \A k \in DOMAIN r : k + n \in DOMAIN q /\ r[k] = q[k + n]
  BY DrainAt
<1>3. \A k \in DOMAIN r : k \in Nat /\ k >= 1
  <2>1. r \in Seq(Queued)
    BY DrainQueue
  <2>2. Len(r) \in Nat /\ DOMAIN r = 1..Len(r)
    BY <2>1, LenProperties
  <2> QED BY <2>2
<1>4. d = [k \in DOMAIN got |-> got[k].pointer]
  BY DEF Delivered
<1>5. K \subseteq DOMAIN q /\ \A i \in K : i <= n
  BY DEF Unburned
<1> HIDE DEF n, d, K
<1>6. /\ \A i \in K : Rank(K, i) \in DOMAIN got /\ got[Rank(K, i)] = q[i]
      /\ \A k \in DOMAIN got : \E i \in K : Rank(K, i) = k
  BY <1>5, KeepAt
<1> HIDE DEF got, r
<1>7. IsFiniteSet(At(q, p)) /\ Cardinality(At(q, p)) \in Nat
  BY AtFinite
<1>8. IsFiniteSet(High) /\ IsFiniteSet(Low)
  BY <1>7, FS_Subset
<1>9. IsFiniteSet(At(r, p)) /\ Cardinality(At(r, p)) <= Cardinality(High)
  <2> DEFINE f == [i \in DOMAIN q |-> i - n]
  <2>1. ASSUME NEW k \in At(r, p) PROVE \E i \in High : f[i] = k
    <3>1. k \in DOMAIN r /\ r[k].pointer = p
      BY <2>1 DEF At
    <3>2. k + n \in DOMAIN q /\ q[k + n].pointer = p
      BY <3>1, <1>2
    <3>3. k + n > n /\ (k + n) - n = k
      BY <3>1, <1>2, <1>3
    <3> QED BY <3>2, <3>3 DEF At
  <2> HIDE DEF f, High
  <2> QED BY <2>1, <1>8, Named
<1>10. IsFiniteSet(Given) /\ Cardinality(Given) <= Cardinality(Low)
  <2> DEFINE f == [i \in DOMAIN q |-> Rank(K, i)]
  <2>1. ASSUME NEW k \in Given PROVE \E i \in Low : f[i] = k
    <3>1. k \in DOMAIN got /\ got[k].pointer = p
      BY <1>4
    <3>2. PICK i \in K : Rank(K, i) = k
      BY <3>1, <1>6
    <3>3. i \in DOMAIN q /\ i <= n /\ q[i].pointer = p
      BY <3>1, <3>2, <1>5, <1>6
    <3> QED BY <3>2, <3>3 DEF At
  <2> HIDE DEF f, Low, Given
  <2> QED BY <2>1, <1>8, Named
<1>11. Cardinality(High) + Cardinality(Low) <= Cardinality(At(q, p))
  <2>1. High \cap Low = {}
    <3>1. \A i \in At(q, p) : ~ (i > n /\ i <= n)
      BY <1>1, <1>2 DEF At
    <3> QED BY <3>1
  <2>2. High \cup Low \in SUBSET At(q, p)
    OBVIOUS
  <2> HIDE DEF High, Low
  <2>3. Cardinality(High \cup Low) = Cardinality(High) + Cardinality(Low) - Cardinality({})
    BY <2>1, <1>8, FS_Union
  <2>4. Cardinality({}) = 0
    BY FS_EmptySet
  <2>5. Cardinality(High \cup Low) <= Cardinality(At(q, p))
    BY <2>2, <1>7, FS_Subset
  <2>6. Cardinality(High) \in Nat /\ Cardinality(Low) \in Nat
    BY <1>8, FS_CardinalityType
  <2> QED BY <2>3, <2>4, <2>5, <2>6
<1> HIDE DEF High, Low, Given
<1>12. /\ Cardinality(High) \in Nat /\ Cardinality(Low) \in Nat
       /\ Cardinality(At(r, p)) \in Nat /\ Cardinality(Given) \in Nat
  BY <1>8, <1>9, <1>10, FS_CardinalityType
<1>13. Cardinality(At(r, p)) + Cardinality(Given) <= Cardinality(At(q, p))
  BY <1>7, <1>9, <1>10, <1>11, <1>12
<1> QED BY <1>13 DEF r, n, Given, d

\* A rebuilt queue has no more copies than there are files.
LEMMA RebuiltCount ==
    ASSUME NEW S, S \subseteq Envelope, IsFiniteSet(S), NEW s \in Sorted(S), NEW p
    PROVE  Cardinality(At(RebuiltQueue(s), p)) <= Cardinality({f \in S : f.pointer = p})
<1> DEFINE A == At(RebuiltQueue(s), p)
           F == {f \in S : f.pointer = p}
           g == [i \in A |-> s[i]]
<1>1. Cardinality(S) \in Nat
  BY FS_CardinalityType
<1>2. /\ s \in [1..Cardinality(S) -> S]
      /\ \A i, j \in 1..Cardinality(S) : i < j => s[i] # s[j]
  BY DEF Sorted
<1>3. \A i \in A : i \in 1..Cardinality(S) /\ s[i] \in F
  BY <1>2 DEF RebuiltQueue, NewEntry, At
<1>4. IsFiniteSet(F)
  BY FS_Subset
<1>5. g \in Injection(A, F)
  <2>1. \A i, j \in A : s[i] = s[j] => i = j
    <3>1. \A i, j \in 1..Cardinality(S) : s[i] = s[j] => i = j
      <4>1. \A i, j \in 1..Cardinality(S) : i < j \/ j < i \/ i = j
        BY <1>1
      <4> QED BY <4>1, <1>2
    <3> QED BY <3>1, <1>3
  <2> QED BY <2>1, <1>3 DEF Injection, IsInjective
<1> HIDE DEF A, F, g
<1>6. Cardinality(A) <= Cardinality(F)
  BY <1>4, <1>5, FS_Injection
<1> QED BY <1>6 DEF A, F

-----------------------------------------------------------------------------
(* What the mailbox holds, and what keeps it well-defined. *)

\* The fputs on their way to queue h with pointer p; the files with it.
Flight(h, p) ==
    {t \in Handlers : pc[t] = "enqueue" /\ fresh[t].handle = h /\ fresh[t].pointer = p}
Filed(h, p) == {f \in files : f.handle = h /\ f.pointer = p}

\* Only finitely many fputs are under way, and only a drained fpop has an
\* answer.
Busy == {t \in Handlers : pc[t] = "enqueue"}
MailInv ==
    /\ IsFiniteSet(Busy)
    /\ \A t \in Handlers : pc[t] # "reply" => out[t] = <<>>

LEMMA PendingAt ==
    ASSUME NEW h \in Handles, NEW p \in Pointer
    PROVE  Pending[h][p] = IF up THEN Cardinality(At(queues[h], p)) + Cardinality(Flight(h, p))
                           ELSE Cardinality(Filed(h, p))
  BY DEF Pending, At, Flight, Filed

LEMMA NextPendingAt ==
    ASSUME NEW h \in Handles, NEW p \in Pointer
    PROVE  Pending'[h][p] = IF up' THEN Cardinality(At(queues'[h], p)) + Cardinality(Flight(h, p)')
                            ELSE Cardinality(Filed(h, p)')
  BY DEF Pending, At, Flight, Filed

LEMMA CountsType ==
    ASSUME TypeOK, MailInv, NEW h \in Handles, NEW p
    PROVE  /\ IsFiniteSet(At(queues[h], p)) /\ Cardinality(At(queues[h], p)) \in Nat
           /\ IsFiniteSet(Flight(h, p)) /\ Cardinality(Flight(h, p)) \in Nat
           /\ IsFiniteSet(Filed(h, p)) /\ Cardinality(Filed(h, p)) \in Nat
<1>1. queues[h] \in Seq(Queued)
  BY DEF TypeOK, NodeTypeOK
<1>2. Flight(h, p) \in SUBSET Busy /\ IsFiniteSet(Busy)
  BY DEF Flight, Busy, MailInv
<1>3. Filed(h, p) \in SUBSET files /\ IsFiniteSet(files)
  BY DEF Filed, TypeOK, NodeTypeOK
<1>4. IsFiniteSet(Flight(h, p)) /\ IsFiniteSet(Filed(h, p))
  BY <1>2, <1>3, FS_Subset
<1> QED BY <1>1, <1>4, AtFinite, FS_CardinalityType

LEMMA PendingType ==
    ASSUME TypeOK, MailInv
    PROVE  Pending \in [Handles -> [Pointer -> Nat]]
<1>1. \A h \in Handles, p \in Pointer : Pending[h][p] \in Nat
  BY PendingAt, CountsType
<1>2. Pending = [h \in Handles |-> [p \in Pointer |-> Pending[h][p]]]
  BY DEF Pending
<1> QED BY <1>1, <1>2

\* The steps that change nothing the mailbox sees but perhaps an answer.
LEMMA AsideMoves ==
    ASSUME TypeOK, NEW t \in Handlers,
           \/ \E r \in Request : Receive(t, r)
           \/ Freg(t) \/ FputLookup(t) \/ Limit(t) \/ FputRefuse(t)
           \/ FputPersist(t) \/ FputWrite(t) \/ FputPersistFails(t)
           \/ FpopAuth(t) \/ FpopReply(t)
    PROVE  /\ pc'[t] # "enqueue" /\ pc'[t] # "reply"
           /\ FpopReply(t) \/ (UNCHANGED out /\ pc[t] # "reply")
<1>1. pc'[t] # "enqueue" /\ pc'[t] # "reply"
  BY DEF Receive, Entry, Freg, FputLookup, Limit, AfterLimit, FputRefuse,
     FputPersist, FputWrite, FputPersistFails, FpopAuth, FpopReply, Finish, Goto, TypeOK, HandlerTypeOK,
     Request, FregRequest, FputRequest, FpopRequest
<1>2. FpopReply(t) \/ (UNCHANGED out /\ pc[t] # "reply")
  BY DEF Receive, Freg, FputLookup, Limit, FputRefuse, FputPersist, FputWrite,
     FputPersistFails, FpopAuth
<1> QED BY <1>1, <1>2

LEMMA MailInvInit == Init => MailInv
<1>1. Init => Busy = {}
  BY DEF Init, Busy
<1> QED BY <1>1, FS_EmptySet DEF Init, MailInv

LEMMA MailInvStep ==
    ASSUME TypeOK, MailInv, [Next]_vars
    PROVE  MailInv'
<1>0. pc \in [Handlers -> Labels] /\ out \in [Handlers -> Seq(Pointer)]
  BY DEF TypeOK, HandlerTypeOK
<1>1. CASE UNCHANGED <<pc, out>>
  BY <1>1 DEF MailInv, Busy
<1>2. CASE Crash
  <2>1. Busy' = {}
    BY <1>2 DEF Crash, Busy
  <2> QED BY <1>2, <2>1, FS_EmptySet DEF Crash, MailInv
<1>3. ASSUME NEW t \in Handlers, \A u \in Handlers : u # t => pc'[u] = pc[u]
      PROVE  IsFiniteSet(Busy')
  <2>1. IsFiniteSet(Busy \cup {t})
    BY FS_AddElement DEF MailInv
  <2>2. Busy' \in SUBSET (Busy \cup {t})
    BY <1>3 DEF Busy
  <2> QED BY <2>1, <2>2, FS_Subset
<1>4. ASSUME NEW t \in Handlers,
             \/ \E r \in Request : Receive(t, r)
             \/ Freg(t) \/ FputLookup(t) \/ Limit(t) \/ FputRefuse(t)
             \/ FputPersist(t) \/ FputWrite(t) \/ FputPersistFails(t)
             \/ FpopAuth(t) \/ FpopReply(t)
      PROVE  MailInv'
  <2>1. \A u \in Handlers : u # t => pc'[u] = pc[u]
    BY <1>4, AsideSteps DEF Aside
  <2>2. FpopReply(t) \/ (UNCHANGED out /\ pc[t] # "reply")
    BY <1>4, AsideMoves
  <2>3. ASSUME NEW u \in Handlers, pc'[u] # "reply" PROVE out'[u] = <<>>
    <3>1. CASE FpopReply(t)
      <4>1. out' = [out EXCEPT ![t] = <<>>]
        BY <3>1 DEF FpopReply
      <4> QED BY <4>1, <2>1, <2>3, <1>0 DEF MailInv
    <3>2. CASE UNCHANGED out /\ pc[t] # "reply"
      BY <3>2, <2>1, <2>3 DEF MailInv
    <3> QED BY <2>2, <3>1, <3>2
  <2> QED BY <2>1, <2>3, <1>3 DEF MailInv
<1>5. ASSUME NEW t \in Handlers, FputRename(t) \/ FputEnqueue(t) PROVE MailInv'
  <2>1. /\ pc[t] # "reply" /\ UNCHANGED out
        /\ \A u \in Handlers : u # t => pc'[u] = pc[u]
    BY <1>0, <1>5 DEF FputRename, FputEnqueue, Goto, Finish
  <2> QED BY <2>1, <1>3 DEF MailInv
<1>6. ASSUME NEW t \in Handlers, FpopDrain(t) PROVE MailInv'
  <2>1. \A u \in Handlers : u # t => pc'[u] = pc[u] /\ out'[u] = out[u]
    BY <1>0, <1>6 DEF FpopDrain, Goto
  <2>2. pc'[t] = "reply"
    BY <1>0, <1>6 DEF FpopDrain, Goto
  <2> QED BY <2>1, <2>2, <1>3 DEF MailInv
<1>7. CASE UNCHANGED vars \/ Tick \/ Open
  BY <1>1, <1>7 DEF vars, Tick, Open
<1> QED BY <1>2, <1>4, <1>5, <1>6, <1>7 DEF Next, Step

LEMMA MailHolds == Spec => []MailInv
<1>1. TypeOK /\ MailInv /\ [Next]_vars => MailInv'
  BY MailInvStep
<1> QED BY MailInvInit, <1>1, TypeCorrect, PTL DEF Spec

-----------------------------------------------------------------------------
(* Every step of the relay is one of the mailbox's. *)

LEMMA AskedAt ==
    ASSUME NEW t \in Handlers
    PROVE  /\ Asked[t] = IF req[t].verb = "fput" /\ pc[t] \notin {"idle", "enqueue"}
                         THEN <<req[t].handle, req[t].pointer>> ELSE <<>>
           /\ Asked'[t] = IF req'[t].verb = "fput" /\ pc'[t] \notin {"idle", "enqueue"}
                          THEN <<req'[t].handle, req'[t].pointer>> ELSE <<>>
  BY DEF Asked

LEMMA LosesCopies ==
    ASSUME \A h \in Handles, p \in Pointer : Pending'[h][p] <= Pending[h][p],
           \A t \in Handlers : Asked'[t] \in {Asked[t], <<>>},
           \A t \in Handlers : out'[t] = out[t] \/ out'[t] = <<>>
    PROVE  Promise!Next
  BY DEF Promise!Next, Promise!Lose

\* A region that has no fput under way before or after leaves the copies.
LEMMA AsidePending ==
    ASSUME NEW t \in Handlers, Aside(t), pc'[t] # "enqueue"
    PROVE  Pending' = Pending
<1>1. ASSUME NEW h \in Handles, NEW p \in Pointer PROVE Pending'[h][p] = Pending[h][p]
  <2>1. Flight(h, p)' = Flight(h, p)
    BY DEF Flight, Aside
  <2>2. Filed(h, p)' = Filed(h, p) /\ queues' = queues /\ up' = up
    BY DEF Filed, Aside
  <2> QED BY <2>1, <2>2, PendingAt, NextPendingAt
<1>2. Pending = [h \in Handles |-> [p \in Pointer |-> Pending[h][p]]]
  BY DEF Pending
<1>3. Pending' = [h \in Handles |-> [p \in Pointer |-> Pending'[h][p]]]
  BY DEF Pending
<1> QED BY <1>1, <1>2, <1>3

\* A region after which its request still waits, or is over, asks for nothing.
LEMMA StepAsked ==
    ASSUME TypeOK, NEW t \in Handlers, Step(t), ~ FputRename(t)
    PROVE  \A u \in Handlers : Asked'[u] \in {Asked[u], <<>>}
<1>1. pc \in [Handlers -> Labels] /\ req \in [Handlers -> Request \cup {NoRequest}]
  BY DEF TypeOK, HandlerTypeOK
<1>2. \/ Finish(t)
      \/ \E l \in Labels \ {"idle", "enqueue"} : Goto(t, l) /\ pc[t] \notin {"idle", "enqueue"}
  <2>1. CASE FputLookup(t) \/ FputPersist(t) \/ FputWrite(t) \/ FpopAuth(t) \/ FpopDrain(t)
    BY <2>1 DEF FputLookup, FputPersist, FputWrite, FpopAuth, FpopDrain, Labels
  <2>2. CASE Limit(t)
    <3>1. AfterLimit(req[t].verb) \in Labels \ {"idle", "enqueue"}
      BY DEF AfterLimit, Labels
    <3> QED BY <2>2, <3>1 DEF Limit
  <2>3. CASE Freg(t) \/ FputRefuse(t) \/ FputPersistFails(t) \/ FputEnqueue(t) \/ FpopReply(t)
    BY <2>3 DEF Freg, FputRefuse, FputPersistFails, FputEnqueue, FpopReply
  <2> QED BY <2>1, <2>2, <2>3 DEF Step
<1>3. \A u \in Handlers : u # t => Asked'[u] = Asked[u]
  <2>1. \A u \in Handlers : u # t => pc'[u] = pc[u] /\ req'[u] = req[u]
    BY <1>1, <1>2 DEF Finish, Goto
  <2> QED BY <2>1, AskedAt
<1>4. CASE Finish(t)
  <2>1. pc'[t] = "idle"
    BY <1>1, <1>4 DEF Finish
  <2>2. Asked'[t] = <<>>
    BY <2>1, AskedAt
  <2> QED BY <1>3, <2>2
<1>5. ASSUME NEW l \in Labels \ {"idle", "enqueue"}, Goto(t, l), pc[t] \notin {"idle", "enqueue"}
      PROVE  \A u \in Handlers : Asked'[u] \in {Asked[u], <<>>}
  <2>1. pc'[t] = l /\ req'[t] = req[t]
    BY <1>1, <1>5 DEF Goto
  <2>2. Asked'[t] = Asked[t]
    BY <2>1, <1>5, AskedAt
  <2> QED BY <1>3, <2>2
<1> QED BY <1>2, <1>4, <1>5

\* A request that arrives is a put, or asks for nothing.
LEMMA ReceiveAsks ==
    ASSUME TypeOK, MailInv, NEW t \in Handlers, NEW r \in Request, Receive(t, r)
    PROVE  Promise!Next
<1>1. /\ pc \in [Handlers -> Labels] /\ req \in [Handlers -> Request \cup {NoRequest}]
      /\ UNCHANGED out /\ pc[t] = "idle"
      /\ pc' = [pc EXCEPT ![t] = Entry(r.verb)] /\ req' = [req EXCEPT ![t] = r]
  BY DEF Receive, TypeOK, HandlerTypeOK
<1>2. Pending' = Pending
  BY AsideSteps, AsideMoves, AsidePending
<1>3. Asked[t] = <<>>
  BY <1>1, AskedAt
<1>4. \A u \in Handlers : u # t => Asked'[u] = Asked[u]
  <2>1. \A u \in Handlers : u # t => pc'[u] = pc[u] /\ req'[u] = req[u]
    BY <1>1
  <2> QED BY <2>1, AskedAt
<1>5. pc'[t] = Entry(r.verb) /\ req'[t] = r
  BY <1>1
<1>6. CASE r \in FputRequest
  <2>1. r.verb = "fput" /\ r.handle \in Handles /\ r.pointer \in Pointer
    BY <1>6 DEF FputRequest
  <2>2. pc'[t] = "lookup"
    BY <1>5, <2>1 DEF Entry
  <2>3. Asked'[t] = <<r.handle, r.pointer>>
    BY <1>5, <2>1, <2>2, AskedAt
  <2>4. Asked' = [Asked EXCEPT ![t] = <<r.handle, r.pointer>>]
    <3>1. /\ Asked = [u \in Handlers |-> Asked[u]]
          /\ Asked' = [u \in Handlers |-> Asked'[u]]
      BY DEF Asked
    <3> QED BY <1>4, <2>3, <3>1
  <2>5. Promise!Put(t, r.handle, r.pointer)
    BY <1>1, <1>2, <1>3, <2>4 DEF Promise!Put
  <2> QED BY <2>1, <2>5 DEF Promise!Next
<1>7. CASE r \notin FputRequest
  <2>1. r.verb # "fput"
    BY <1>7 DEF Request, FregRequest, FpopRequest
  <2>2. Asked'[t] = <<>>
    BY <1>5, <2>1, AskedAt
  <2>3. Promise!Lose
    <3>1. \A h \in Handles, p \in Pointer : Pending'[h][p] <= Pending[h][p]
      <4>1. \A h \in Handles, p \in Pointer : Pending[h][p] <= Pending[h][p]
        <5>1. \A h \in Handles, p \in Pointer : Pending[h][p] \in Nat
          BY PendingType
        <5> QED BY <5>1
      <4> QED BY <4>1, <1>2
    <3> QED BY <1>1, <1>4, <2>2, <3>1 DEF Promise!Lose
  <2> QED BY <2>3 DEF Promise!Next
<1> QED BY <1>6, <1>7

\* The rename of an fput's file is the deposit of its copy.
LEMMA RenameDeposits ==
    ASSUME TypeOK, QueueInv, MailInv, NEW t \in Handlers, FputRename(t)
    PROVE  Promise!Next
<1> DEFINE b == req[t].handle
           x == req[t].pointer
<1>1. /\ b \in Handles /\ x \in Pointer /\ pc[t] = "rename" /\ req[t].verb = "fput"
      /\ pc \in [Handlers -> Labels] /\ fresh[t].handle = b /\ fresh[t].pointer = x
  BY DEF FputRename, Stamped, TypeOK, HandlerTypeOK, FputRequest
<1>2. /\ pc' = [pc EXCEPT ![t] = "enqueue"] /\ req' = req
      /\ UNCHANGED <<queues, up, fresh, out>> /\ up
  BY DEF FputRename, Goto, QueueInv
<1>3. pc'[t] = "enqueue" /\ \A u \in Handlers : u # t => pc'[u] = pc[u]
  BY <1>1, <1>2
<1>4. Asked[t] = <<b, x>> /\ Asked' = [Asked EXCEPT ![t] = <<>>]
  <2>1. Asked[t] = <<b, x>> /\ Asked'[t] = <<>>
    BY <1>1, <1>3, AskedAt
  <2>2. \A u \in Handlers : u # t => Asked'[u] = Asked[u]
    BY <1>2, <1>3, AskedAt
  <2>3. /\ Asked = [u \in Handlers |-> Asked[u]]
        /\ Asked' = [u \in Handlers |-> Asked'[u]]
    BY DEF Asked
  <2> HIDE DEF b, x
  <2> QED BY <2>1, <2>2, <2>3
<1> HIDE DEF b, x
<1>5. ASSUME NEW h \in Handles, NEW p \in Pointer
      PROVE  Pending'[h][p] = IF h = b /\ p = x THEN Pending[h][p] + 1 ELSE Pending[h][p]
  <2>1. Pending[h][p] = Cardinality(At(queues[h], p)) + Cardinality(Flight(h, p))
    BY <1>2, PendingAt
  <2>2. Pending'[h][p] = Cardinality(At(queues[h], p)) + Cardinality(Flight(h, p)')
    BY <1>2, NextPendingAt
  <2>3. CASE h = b /\ p = x
    <3>1. Flight(h, p)' = Flight(h, p) \cup {t} /\ t \notin Flight(h, p)
      BY <2>3, <1>1, <1>2, <1>3 DEF Flight
    <3>2. IsFiniteSet(Flight(h, p)) /\ Cardinality(Flight(h, p)) \in Nat
          /\ Cardinality(At(queues[h], p)) \in Nat
      BY CountsType
    <3>3. Cardinality(Flight(h, p) \cup {t}) = Cardinality(Flight(h, p)) + 1
      BY <3>1, <3>2, FS_AddElement
    <3> QED BY <2>1, <2>2, <2>3, <3>1, <3>2, <3>3
  <2>4. CASE ~ (h = b /\ p = x)
    <3>1. Flight(h, p)' = Flight(h, p)
      BY <2>4, <1>1, <1>2, <1>3 DEF Flight
    <3> QED BY <2>1, <2>2, <2>4, <3>1
  <2> QED BY <2>3, <2>4
<1>6. Pending \in [Handles -> [Pointer -> Nat]]
  BY PendingType
<1>7. Pending' = [h \in Handles |-> [p \in Pointer |-> Pending'[h][p]]]
  BY DEF Pending
<1>8. Pending' = [Pending EXCEPT ![b][x] = @ + 1]
  <2> DEFINE Q == [Pending EXCEPT ![b][x] = @ + 1]
  <2>1. Q = [h \in Handles |-> [p \in Pointer |->
                IF h = b /\ p = x THEN Pending[h][p] + 1 ELSE Pending[h][p]]]
    BY <1>1, <1>6
  <2> HIDE DEF Q
  <2>2. Pending' = Q
    BY <2>1, <1>5, <1>7
  <2> QED BY <2>2 DEF Q
<1>9. Promise!Deposit(t, b, x)
  BY <1>2, <1>4, <1>8 DEF Promise!Deposit
<1> QED BY <1>1, <1>9 DEF Promise!Next

\* The enqueue of an fput moves its copy into the queue, or loses it.
LEMMA EnqueueLoses ==
    ASSUME TypeOK, TypeOK', QueueInv, MailInv, MailInv', NEW t \in Handlers, FputEnqueue(t)
    PROVE  Promise!Next
<1> DEFINE b == req[t].handle
           e == fresh[t]
<1>1. /\ b \in Handles /\ e \in Envelope /\ clock \in Nat
      /\ queues \in [Handles -> Seq(Queued)]
      /\ queues' = [queues EXCEPT ![b] = AfterPut(queues[b], e, clock)]
      /\ pc[t] = "enqueue" /\ UNCHANGED <<up, out>>
  BY EnqueueEffect
<1>2. e.handle = b /\ up
  BY DEF FputEnqueue, Stamped, TypeOK, HandlerTypeOK, QueueInv
<1>3. /\ pc'[t] # "enqueue"
      /\ \A u \in Handlers : u # t => pc'[u] = pc[u] /\ fresh'[u] = fresh[u]
  BY DEF FputEnqueue, Finish, TypeOK, HandlerTypeOK
<1>4. \A h \in Handles, p \in Pointer :
         /\ Flight(h, p)' = Flight(h, p) \ {t}
         /\ t \in Flight(h, p) <=> h = b /\ p = e.pointer
  BY <1>1, <1>2, <1>3 DEF Flight
<1>5. ASSUME NEW h \in Handles, NEW p \in Pointer PROVE Pending'[h][p] <= Pending[h][p]
  <2> DEFINE old == Cardinality(At(queues[h], p))
             new == Cardinality(At(queues'[h], p))
             under == Cardinality(Flight(h, p))
             left == Cardinality(Flight(h, p)')
  <2>1. Pending[h][p] = old + under /\ Pending'[h][p] = new + left
    BY <1>1, <1>2, PendingAt, NextPendingAt
  <2>2. IsFiniteSet(Flight(h, p)) /\ under \in Nat /\ old \in Nat
    BY CountsType
  <2>3. left = IF h = b /\ p = e.pointer THEN under - 1 ELSE under
    BY <1>4, <2>2, FS_RemoveElement
  <2>4. new \in Nat
    <3>1. queues'[h] \in Seq(Queued)
      BY DEF TypeOK, NodeTypeOK
    <3> QED BY <3>1, AtFinite
  <2>5. queues[h] \in Seq(Queued) /\ Honest(queues[h])
    BY <1>1 DEF QueueInv
  <2>6. h = b => /\ p # e.pointer => new <= old
                 /\ new <= old + 1
    <3>1. h = b => queues'[h] = AfterPut(queues[h], e, clock)
      BY <1>1
    <3> HIDE DEF e, b
    <3> QED BY <3>1, <2>5, <1>1, PutCount
  <2>7. h # b => new = old
    BY <1>1
  <2> HIDE DEF old, new, under, left, b, e
  <2> QED BY <2>1, <2>2, <2>3, <2>4, <2>6, <2>7
<1>6. \A u \in Handlers : Asked'[u] \in {Asked[u], <<>>}
  <2>1. ~ FputRename(t)
    BY DEF FputEnqueue, FputRename
  <2> QED BY <2>1, StepAsked DEF Step
<1> QED BY <1>1, <1>5, <1>6, LosesCopies

LEMMA CopiesCount ==
    ASSUME NEW s, NEW x
    PROVE  Promise!Copies(s, x) = Cardinality({k \in DOMAIN s : s[k] = x})
  BY DEF Promise!Copies, Promise!Cardinality, Cardinality

\* A drain takes the copies it answers out of its own queue.
LEMMA DrainDelivers ==
    ASSUME TypeOK, TypeOK', QueueInv, MailInv, NEW t \in Handlers, FpopDrain(t)
    PROVE  Promise!Next
<1> DEFINE b == req[t].handle
           max == req[t].max
<1>1. /\ b \in Handles /\ max \in Nat /\ queues \in [Handles -> Seq(Queued)]
      /\ pc[t] = "drain" /\ UNCHANGED up
      /\ \A u \in Handlers : u # t => pc'[u] = pc[u]
  BY DrainEffect
<1>2. PICK now \in 0..clock :
         /\ queues' = [queues EXCEPT ![b] = DropFirst(queues[b], Taken(queues[b], max, now))]
         /\ out'[t] = Delivered(queues[b], max, now)
  BY DrainEffect
<1>3. /\ up /\ UNCHANGED fresh /\ pc'[t] # "enqueue" /\ out[t] = <<>>
      /\ out' = [out EXCEPT ![t] = out'[t]]
  BY DEF FpopDrain, Goto, QueueInv, MailInv, TypeOK, HandlerTypeOK
<1>4. \A h \in Handles, p \in Pointer : Flight(h, p)' = Flight(h, p)
  BY <1>1, <1>3 DEF Flight
<1>5. now \in Nat
  BY RelayAssumption DEF TypeOK, NodeTypeOK
<1> HIDE DEF b, max
<1>6. ASSUME NEW p \in Pointer
      PROVE  Pending'[b][p] + Promise!Copies(out'[t], p) <= Pending[b][p]
  <2> DEFINE q == queues[b]
             r == DropFirst(q, Taken(q, max, now))
             d == Delivered(q, max, now)
             old == Cardinality(At(q, p))
             new == Cardinality(At(r, p))
             got == Cardinality({k \in DOMAIN d : d[k] = p})
             under == Cardinality(Flight(b, p))
  <2>1. q \in Seq(Queued)
    BY <1>1
  <2>2. queues'[b] = r
    BY <1>1, <1>2
  <2>3. Pending[b][p] = old + under /\ Pending'[b][p] = new + under
    BY <1>1, <1>3, <1>4, <2>2, PendingAt, NextPendingAt
  <2>4. Promise!Copies(out'[t], p) = got
    <3>1. out'[t] = d
      BY <1>2
    <3>2. \A s : Promise!Copies(s, p) = Cardinality({k \in DOMAIN s : s[k] = p})
      BY CopiesCount
    <3> HIDE DEF d
    <3> QED BY <3>1, <3>2
  <2>5. new + got <= old
    BY <1>1, <1>5, <2>1, DrainCount
  <2>6. old \in Nat /\ under \in Nat
    BY <1>1, CountsType
  <2>7. r \in Seq(Queued) /\ d \in Seq(Pointer)
    BY <1>1, <1>5, <2>1, DrainQueue
  <2>8. new \in Nat /\ got \in Nat
    <3>1. Len(d) \in Nat /\ {k \in DOMAIN d : d[k] = p} \subseteq 1..Len(d)
      BY <2>7, LenProperties
    <3> QED BY <3>1, <2>7, AtFinite, IndicesFinite
  <2> HIDE DEF q, r, d, old, new, got, under
  <2> QED BY <2>3, <2>4, <2>5, <2>6, <2>8
<1>7. ASSUME NEW k \in Handles \ {b} PROVE Pending'[k] = Pending[k]
  <2>1. queues'[k] = queues[k]
    BY <1>1, <1>2, <1>7
  <2>2. \A p \in Pointer : Pending'[k][p] = Pending[k][p]
    BY <1>1, <1>3, <1>4, <2>1, PendingAt, NextPendingAt
  <2>3. Pending[k] = [p \in Pointer |-> Pending[k][p]]
    BY DEF Pending
  <2>4. Pending'[k] = [p \in Pointer |-> Pending'[k][p]]
    BY DEF Pending
  <2> QED BY <2>2, <2>3, <2>4
<1>8. Asked' = Asked
  <2>1. req' = req /\ pc[t] = "drain" /\ pc'[t] = "reply"
    BY DEF FpopDrain, Goto, TypeOK, HandlerTypeOK
  <2>2. \A u \in Handlers : Asked'[u] = Asked[u]
    BY <1>1, <2>1, AskedAt
  <2>3. /\ Asked = [u \in Handlers |-> Asked[u]]
        /\ Asked' = [u \in Handlers |-> Asked'[u]]
    BY DEF Asked
  <2> QED BY <2>2, <2>3
<1>9. Promise!Deliver(t, b)
  BY <1>3, <1>6, <1>7, <1>8 DEF Promise!Deliver
<1> QED BY <1>1, <1>9 DEF Promise!Next

\* A crash keeps at most one copy per place of the queue and per fput under
\* way: every file that survives is behind one of them.
LEMMA CrashLoses ==
    ASSUME TypeOK, NoStrayFiles, QueueInv, MailInv, Crash
    PROVE  Promise!Next
<1>1. up /\ ~ up' /\ files' \subseteq files /\ \A t \in Handlers : out'[t] = <<>>
  BY DEF Crash
<1>2. ASSUME NEW h \in Handles, NEW p \in Pointer PROVE Pending'[h][p] <= Pending[h][p]
  <2> DEFINE A == At(queues[h], p)
             F == Flight(h, p)
             E == {queues[h][i].env : i \in A}
             G == {fresh[t] : t \in F}
             D == Filed(h, p)'
  <2>1. IsFiniteSet(A) /\ IsFiniteSet(F) /\ Cardinality(A) \in Nat /\ Cardinality(F) \in Nat
    BY CountsType
  <2>2. D \in SUBSET (E \cup G)
    <3>1. SUFFICES ASSUME NEW f \in D PROVE f \in E \cup G
      OBVIOUS
    <3>2. f \in files /\ f.handle = h /\ f.pointer = p
      BY <3>1, <1>1 DEF Filed
    <3>3. CASE InQueue(f)
      <4>1. PICK i \in DOMAIN queues[h] : queues[h][i].env = f
        BY <3>2, <3>3 DEF InQueue
      <4>2. i \in A
        BY <3>2, <4>1 DEF At, QueueInv, Honest
      <4> QED BY <4>1, <4>2
    <3>4. CASE InFlight(f)
      BY <3>2, <3>4 DEF InFlight, Flight
    <3> QED BY <3>2, <3>3, <3>4, <1>1 DEF NoStrayFiles
  <2>3. \A y \in E : \E i \in A : EnvsOf(queues[h])[i] = y
    BY DEF EnvsOf, At
  <2>4. \A y \in G : \E t \in F : fresh[t] = y
    OBVIOUS
  <2>5. Pending[h][p] = Cardinality(A) + Cardinality(F) /\ Pending'[h][p] = Cardinality(D)
    BY <1>1, PendingAt, NextPendingAt
  <2> HIDE DEF A, F, E, G, D
  <2>6. IsFiniteSet(E) /\ Cardinality(E) <= Cardinality(A)
    BY <2>1, <2>3, Named
  <2>7. IsFiniteSet(G) /\ Cardinality(G) <= Cardinality(F)
    BY <2>1, <2>4, Named
  <2>8. /\ IsFiniteSet(E \cup G)
        /\ Cardinality(E \cup G) = Cardinality(E) + Cardinality(G) - Cardinality(E \cap G)
    BY <2>6, <2>7, FS_Union
  <2>9. IsFiniteSet(E \cap G)
    <3>1. E \cap G \in SUBSET E
      OBVIOUS
    <3> QED BY <3>1, <2>6, FS_Subset
  <2>10. IsFiniteSet(D) /\ Cardinality(D) <= Cardinality(E \cup G)
    BY <2>2, <2>8, FS_Subset
  <2>11. /\ Cardinality(E) \in Nat /\ Cardinality(G) \in Nat /\ Cardinality(D) \in Nat
         /\ Cardinality(E \cap G) \in Nat /\ Cardinality(E \cup G) \in Nat
    BY <2>6, <2>7, <2>8, <2>9, <2>10, FS_CardinalityType
  <2> QED BY <2>1, <2>5, <2>6, <2>7, <2>8, <2>10, <2>11
<1>3. \A t \in Handlers : Asked'[t] = <<>>
  <2>1. \A t \in Handlers : pc'[t] = "idle"
    BY DEF Crash
  <2> QED BY <2>1, AskedAt
<1> QED BY <1>1, <1>2, <1>3, LosesCopies

\* The rebuild makes at most one entry of a file.
LEMMA OpenLoses ==
    ASSUME TypeOK, TypeOK', QueueInv, MailInv, Open
    PROVE  Promise!Next
<1>1. ~ up /\ up' /\ UNCHANGED <<pc, out>> /\ \A t \in Handlers : pc[t] = "idle"
  BY DEF Open, QueueInv
<1>2. ASSUME NEW h \in Handles, NEW p \in Pointer PROVE Pending'[h][p] <= Pending[h][p]
  <2> DEFINE A == At(queues'[h], p)
             D == Filed(h, p)
  <2>1. Pending[h][p] = Cardinality(D) /\ Pending'[h][p] = Cardinality(A) + Cardinality({})
    <3>1. Flight(h, p)' = {}
      BY <1>1 DEF Flight
    <3> QED BY <3>1, <1>1, PendingAt, NextPendingAt
  <2>2. PICK S \in SUBSET {f \in files : f.handle = h} :
           /\ S \subseteq Envelope /\ IsFiniteSet(S)
           /\ \E s \in Sorted(S) : queues'[h] = RebuiltQueue(s)
    BY OpenEffect
  <2>3. {f \in S : f.pointer = p} \in SUBSET D
    BY <2>2 DEF Filed
  <2>4. IsFiniteSet(D) /\ Cardinality(D) \in Nat
    BY CountsType
  <2>5. Cardinality({}) = 0
    BY FS_EmptySet
  <2>6. Cardinality(A) <= Cardinality({f \in S : f.pointer = p})
    BY <2>2, RebuiltCount
  <2>7. Cardinality(A) \in Nat
    <3>1. queues'[h] \in Seq(Queued)
      BY DEF TypeOK, NodeTypeOK
    <3> QED BY <3>1, AtFinite
  <2> DEFINE C == {f \in S : f.pointer = p}
  <2> HIDE DEF A, D, C
  <2>8. C \in SUBSET D /\ Cardinality(A) <= Cardinality(C)
    BY <2>3, <2>6 DEF C
  <2>9. IsFiniteSet(C) /\ Cardinality(C) <= Cardinality(D)
    BY <2>4, <2>8, FS_Subset
  <2>10. Cardinality(C) \in Nat
    BY <2>9, FS_CardinalityType
  <2> QED BY <2>1, <2>4, <2>5, <2>7, <2>8, <2>9, <2>10
<1>3. \A t \in Handlers : Asked'[t] = <<>>
  <2>1. \A t \in Handlers : pc'[t] = "idle"
    BY <1>1
  <2> QED BY <2>1, AskedAt
<1> QED BY <1>1, <1>2, <1>3, LosesCopies

LEMMA PromiseStep ==
    ASSUME TypeOK, TypeOK', NoStrayFiles, QueueInv, MailInv, MailInv', [Next]_vars
    PROVE  Promise!Next \/ UNCHANGED <<Asked, Pending, out>>
<1>1. ASSUME UNCHANGED vars \/ Tick PROVE UNCHANGED <<Asked, Pending, out>>
  <2>1. UNCHANGED <<queues, files, up, pc, req, fresh, out>>
    BY <1>1 DEF vars, store, Tick
  <2> QED BY <2>1 DEF Asked, Pending
<1>2. ASSUME NEW t \in Handlers,
             \/ Freg(t) \/ FputLookup(t) \/ Limit(t) \/ FputRefuse(t)
             \/ FputPersist(t) \/ FputWrite(t) \/ FputPersistFails(t)
             \/ FpopAuth(t) \/ FpopReply(t)
      PROVE  Promise!Next
  <2>1. Pending' = Pending
    BY <1>2, AsideSteps, AsideMoves, AsidePending
  <2>2. \A h \in Handles, p \in Pointer : Pending'[h][p] <= Pending[h][p]
    <3>1. \A h \in Handles, p \in Pointer : Pending[h][p] \in Nat
      BY PendingType
    <3>2. \A h \in Handles, p \in Pointer : Pending[h][p] <= Pending[h][p]
      BY <3>1
    <3> QED BY <2>1, <3>2
  <2>3. FpopReply(t) \/ UNCHANGED out
    BY <1>2, AsideMoves
  <2>4. \A u \in Handlers : out'[u] = out[u] \/ out'[u] = <<>>
    BY <2>3 DEF FpopReply, TypeOK, HandlerTypeOK
  <2>5. ~ FputRename(t)
    <3>1. Aside(t) /\ pc'[t] # "enqueue" /\ pc \in [Handlers -> Labels]
      BY <1>2, AsideSteps, AsideMoves DEF TypeOK, HandlerTypeOK
    <3> QED BY <3>1 DEF FputRename, Goto
  <2>6. \A u \in Handlers : Asked'[u] \in {Asked[u], <<>>}
    BY <1>2, <2>5, StepAsked DEF Step
  <2> QED BY <2>2, <2>4, <2>6, LosesCopies
<1>3. ASSUME NEW t \in Handlers, Step(t) \/ \E r \in Request : Receive(t, r)
      PROVE  Promise!Next
  BY <1>2, <1>3, ReceiveAsks, RenameDeposits, EnqueueLoses, DrainDelivers DEF Step
<1>4. Crash \/ Open => Promise!Next
  BY CrashLoses, OpenLoses
<1>5. \/ UNCHANGED vars \/ Tick \/ Crash \/ Open
      \/ \E t \in Handlers : Step(t) \/ \E r \in Request : Receive(t, r)
  BY DEF Next
<1> QED BY <1>1, <1>3, <1>4, <1>5

\* The relay implements Mailbox: across dedupe, eviction, expiry, crashes and
\* rebuilds, every copy that is queued or handed out was left by an fput of its
\* own, at that fput's rename, and is handed out at most once ("deleting on
\* read", fabric.rs 579).
THEOREM RelayIsMailbox == Spec => AtMostOncePerDeposit
<1>1. Init => Promise!Init
  <2>1. SUFFICES ASSUME Init PROVE Promise!Init
    OBVIOUS
  <2>2. TypeOK /\ MailInv
    BY <2>1, TypeInit, MailInvInit
  <2>3. Asked = [t \in Handlers |-> <<>>]
    BY <2>1 DEF Asked, Init
  <2> QED BY <2>1, <2>2, <2>3, PendingType DEF Init, Promise!Init
<1>2. TypeOK /\ TypeOK' /\ NoStrayFiles /\ QueueInv /\ MailInv /\ MailInv' /\ [Next]_vars
        => [Promise!Next]_(Promise!mail)
  BY PromiseStep DEF Promise!mail
<1> QED
  BY <1>1, <1>2, TypeCorrect, NoStray, QueueHolds, MailHolds, PTL
     DEF Spec, AtMostOncePerDeposit, Promise!Spec
=============================================================================
