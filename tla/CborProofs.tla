----------------------------- MODULE CborProofs -----------------------------
(***************************************************************************)
(* Proofs about Cbor: the decoder is well defined on every sequence of     *)
(* bytes, what it makes of an item depends on the bytes of the item alone, *)
(* and it reads back what the encoders write.                              *)
(***************************************************************************)
EXTENDS Cbor, VecProofs

\* Induction, as a statement about a set.
LEMMA Induction ==
    ASSUME NEW S, S \subseteq Nat, 0 \in S, \A n \in S : n + 1 \in S
    PROVE  S = Nat
<1> SUFFICES ASSUME Nat \ S # {} PROVE FALSE
  OBVIOUS
<1>1. PICK x \in Nat \ S : \A y \in Nat \ S : x <= y
  BY HasLeast
<1>2. x # 0 /\ x - 1 \in Nat
  BY <1>1
<1>3. x - 1 \in S
  BY <1>1, <1>2
<1> QED BY <1>1, <1>3

-----------------------------------------------------------------------------
(* Heads and leaves. *)

LEMMA HugeIs == Huge \in Nat /\ Huge >= 16 * 256 * 256 * 256 /\ Huge <= 16 * 256 * 256 * 256
  BY DEF Huge

\* An argument is a number (p2p.rs decode_value, the match on info).
LEMMA ArgumentNumber ==
    ASSUME NEW bytes \in Seq(Byte)
    PROVE  Argument(bytes) \in 0..Huge
<1> DEFINE Digit(k) == IF k < Len(bytes) THEN bytes[Len(bytes) - k] ELSE 0
<1>1. \A k \in 0..3 : Digit(k) \in Byte
  <2> TAKE k \in 0..3
  <2>1. k < Len(bytes) => Len(bytes) - k \in 1..Len(bytes)
    OBVIOUS
  <2>2. k < Len(bytes) => bytes[Len(bytes) - k] \in Byte
    BY <2>1
  <2> QED BY <2>2 DEF Byte
<1> DEFINE far == \E i \in 1..(Len(bytes) - 4) : bytes[i] > 0
<1>2. Argument(bytes) = IF Digit(3) >= 16 \/ far THEN Huge
                        ELSE Digit(0) + 256 * (Digit(1) + 256 * (Digit(2) + 256 * Digit(3)))
  BY DEF Argument
<1>3. Digit(0) \in Byte /\ Digit(1) \in Byte /\ Digit(2) \in Byte /\ Digit(3) \in Byte
  BY <1>1
<1> HIDE DEF Digit, far
<1> DEFINE d0 == Digit(0)
           d1 == Digit(1)
           d2 == Digit(2)
           d3 == Digit(3)
<1>4. d0 \in 0..255 /\ d1 \in 0..255 /\ d2 \in 0..255 /\ d3 \in 0..255
  BY <1>3 DEF Byte
<1>5. Argument(bytes) = IF d3 >= 16 \/ far THEN Huge ELSE d0 + 256 * (d1 + 256 * (d2 + 256 * d3))
  BY <1>2
<1> HIDE DEF d0, d1, d2, d3
<1> QED BY <1>4, <1>5, HugeIs

LEMMA HeadRange ==
    ASSUME NEW buf \in Seq(Byte), NEW at \in Nat, HeadFits(buf, at)
    PROVE  /\ HeadAt(buf, at).major \in 0..7 /\ HeadAt(buf, at).info \in 0..27
           /\ HeadAt(buf, at).next = at + 1 + HeadWidth(buf[at] % 32)
           /\ HeadWidth(buf[at] % 32) \in {0, 1, 2, 4, 8}
           /\ HeadAt(buf, at).next \in (at + 1)..(Len(buf) + 1)
           /\ HeadAt(buf, at).arg \in 0..Huge
<1> DEFINE b == buf[at]
           info == b % 32
           width == HeadWidth(info)
<1>1. b \in Byte /\ at \in 1..Len(buf) /\ info \in 0..27 /\ b \div 32 \in 0..7 /\ at + width <= Len(buf)
  <2>1. b \in Byte /\ at \in 1..Len(buf)
    BY DEF HeadFits
  <2>2. \A x \in Byte : x % 32 \in 0..31 /\ x \div 32 \in 0..7
    BY DEF Byte
  <2>3. info <= 27 /\ at + width <= Len(buf)
    BY DEF HeadFits
  <2>4. info \in 0..31 /\ b \div 32 \in 0..7
    BY <2>1, <2>2
  <2> HIDE DEF b, width, info
  <2> QED BY <2>1, <2>3, <2>4
<1>2. width \in {0, 1, 2, 4, 8}
  <2> HIDE DEF info
  <2>1. info >= 24 => info - 23 \in 1..4
    BY <1>1
  <2> QED BY <1>1, <2>1 DEF HeadWidth, Width
<1>3. SubSeq(buf, at + 1, at + width) \in Seq(Byte)
  <2> HIDE DEF width
  <2> QED BY <1>1, <1>2
<1>4. Argument(SubSeq(buf, at + 1, at + width)) \in 0..Huge
  BY <1>3, ArgumentNumber
<1>5. (IF width = 0 THEN info ELSE Argument(SubSeq(buf, at + 1, at + width))) \in 0..Huge
  <2>1. 0..27 \subseteq 0..Huge
    BY HugeIs
  <2>2. info \in 0..Huge
    BY <1>1, <2>1
  <2> HIDE DEF info, width
  <2> QED BY <2>2, <1>4
<1> HIDE DEF HeadWidth
<1>6. /\ HeadAt(buf, at).major = b \div 32 /\ HeadAt(buf, at).info = info
      /\ HeadAt(buf, at).next = at + 1 + width
      /\ HeadAt(buf, at).arg = IF width = 0 THEN info ELSE Argument(SubSeq(buf, at + 1, at + width))
  BY DEF HeadAt
<1> HIDE DEF b, info, width
<1>7. /\ HeadAt(buf, at).major \in 0..7 /\ HeadAt(buf, at).info \in 0..27
      /\ HeadAt(buf, at).next \in (at + 1)..(Len(buf) + 1)
      /\ HeadAt(buf, at).arg \in 0..Huge
  BY <1>1, <1>2, <1>5, <1>6
<1> QED BY <1>2, <1>6, <1>7 DEF b, info, width

\* A leaf ends within the frame.
LEMMA LeafRange ==
    ASSUME NEW buf \in Seq(Byte), NEW h, h.arg \in Nat, h.next \in 1..(Len(buf) + 1),
           NEW r \in Leaf(buf, h)
    PROVE  r.next \in h.next..(Len(buf) + 1)
BY DEF Leaf, Some, None

-----------------------------------------------------------------------------
(* The recursion of the decoder ends: a task leads to tasks of a smaller    *)
(* measure, since the levels are bounded and the children of a container    *)
(* are no more than its head can say.                                       *)

Measure(t) == t.count + (2 * Huge + 1) * (IF t.depth > MaxDepth THEN 0 ELSE MaxDepth + 1 - t.depth)
Below(t, u) == u \in Task /\ Measure(u) < Measure(t)
\* What has been read ends at a position.
Ends(R, at) == \A r \in R : r.next \in Nat /\ r.next >= at

LEMMA TaskIs ==
    ASSUME NEW n \in Nat, NEW at \in Nat, NEW d \in Nat
    PROVE  /\ TaskOf(n, at, d) \in Task /\ TaskOf(n, at, d).count = n
           /\ TaskOf(n, at, d).at = at /\ TaskOf(n, at, d).depth = d
BY DEF TaskOf, Task

LEMMA TaskParts ==
    ASSUME NEW t \in Task
    PROVE  t.count \in Nat /\ t.at \in Nat /\ t.depth \in Nat /\ t = TaskOf(t.count, t.at, t.depth)
BY DEF TaskOf, Task

LEMMA MeasureNat ==
    ASSUME NEW t \in Task
    PROVE  Measure(t) \in Nat
<1>1. t.count \in Nat /\ t.depth \in Nat /\ MaxDepth \in Nat
  BY TaskParts, CborAssumption
<1>2. PICK H \in Nat : H = 2 * Huge + 1
  BY HugeIs
<1>3. PICK k \in Nat : k = IF t.depth > MaxDepth THEN 0 ELSE MaxDepth + 1 - t.depth
  BY <1>1
<1>4. H * k \in Nat
  BY <1>2, <1>3
<1> QED BY <1>1, <1>2, <1>3, <1>4 DEF Measure

\* The tasks that reading t calls for are smaller.
LEMMA Smaller ==
    ASSUME NEW t \in Task, t.count > 0, ~ (t.depth > MaxDepth), NEW at \in Nat
    PROVE  /\ Below(t, TaskOf(t.count - 1, at, t.depth))
           /\ \A n \in 0..(2 * Huge) : Below(t, TaskOf(n, at, t.depth + 1))
<1>1. t.count \in Nat /\ t.depth \in Nat /\ MaxDepth \in Nat
  BY TaskParts, CborAssumption
<1> DEFINE Levels(d) == IF d > MaxDepth THEN 0 ELSE MaxDepth + 1 - d
<1>2. Levels(t.depth) \in Nat /\ Levels(t.depth + 1) = Levels(t.depth) - 1
  BY <1>1
<1>3. PICK k \in Nat : k = Levels(t.depth)
  BY <1>2
<1>4. PICK H \in Nat : H = 2 * Huge + 1
  BY HugeIs
<1>5. H * (k - 1) = H * k - H /\ H * k \in Nat
  BY <1>3, <1>4
<1>0. \A u : Measure(u) = u.count + H * Levels(u.depth)
  BY <1>4 DEF Measure
<1> HIDE DEF Levels
<1>6. Measure(t) = t.count + H * k
  BY <1>0, <1>3
<1>7. TaskOf(t.count - 1, at, t.depth) \in Task /\ Measure(TaskOf(t.count - 1, at, t.depth)) = t.count - 1 + H * k
  <2>1. PICK n \in Nat : n = t.count - 1
    BY <1>1
  <2> DEFINE u == TaskOf(n, at, t.depth)
  <2>2. u \in Task /\ u.count = n /\ u.depth = t.depth
    BY <1>1, TaskIs
  <2> HIDE DEF u
  <2>3. Measure(u) = n + H * k
    BY <1>0, <1>3, <2>2
  <2> QED BY <2>1, <2>2, <2>3 DEF u
<1>8. ASSUME NEW n \in 0..(2 * Huge) PROVE Below(t, TaskOf(n, at, t.depth + 1))
  <2>1. n \in Nat /\ n < H /\ t.depth + 1 \in Nat
    BY <1>1, <1>4, HugeIs
  <2>2. TaskOf(n, at, t.depth + 1) \in Task /\ Measure(TaskOf(n, at, t.depth + 1)) = n + H * (k - 1)
    <3>1. H * Levels(t.depth + 1) = H * (k - 1)
      BY <1>2, <1>3
    <3> DEFINE u == TaskOf(n, at, t.depth + 1)
    <3>2. u \in Task /\ u.count = n /\ u.depth = t.depth + 1
      BY <2>1, TaskIs
    <3> HIDE DEF u
    <3>3. Measure(u) = n + H * (k - 1)
      BY <1>0, <3>1, <3>2
    <3> QED BY <3>2, <3>3 DEF u
  <2> QED BY <1>1, <1>5, <1>6, <2>1, <2>2 DEF Below
<1>9. t.count - 1 + H * k < t.count + H * k
  BY <1>1, <1>5
<1> QED BY <1>6, <1>7, <1>8, <1>9 DEF Below

\* Induction over tasks.
LEMMA TaskInduction ==
    ASSUME NEW S, \A t \in Task : (\A u : Below(t, u) => u \in S) => t \in S
    PROVE  \A t \in Task : t \in S
<1> SUFFICES ASSUME NEW s \in Task, s \notin S PROVE FALSE
  OBVIOUS
<1> DEFINE bad == {Measure(t) : t \in Task \ S}
<1>1. bad \subseteq Nat /\ bad # {}
  BY MeasureNat
<1>2. PICK m \in bad : \A y \in bad : m <= y
  <2> HIDE DEF bad
  <2> QED BY <1>1, HasLeast
<1>3. PICK t \in Task \ S : m = Measure(t)
  BY <1>2
<1>4. \A u : Below(t, u) => u \in S
  <2> SUFFICES ASSUME NEW u, Below(t, u), u \notin S PROVE FALSE
    OBVIOUS
  <2>1. Measure(u) \in bad /\ Measure(u) < m /\ Measure(u) \in Nat /\ m \in Nat
    BY <1>3, MeasureNat DEF Below
  <2> QED BY <2>1, <1>2
<1> QED BY <1>3, <1>4

Reads(t, buf) == t.count > 0 /\ ~ (t.depth > MaxDepth) /\ HeadFits(buf, t.at)
Joined2(i, rest) == [value |-> <<i.value>> \o rest.value, next |-> rest.next]

LEMMA ReadingAt ==
    ASSUME NEW t \in Task, NEW buf, NEW f
    PROVE  /\ t.count = 0 => Reading(f, buf, t) = {[value |-> <<>>, next |-> t.at]}
           /\ t.count > 0 /\ ~ Reads(t, buf) => Reading(f, buf, t) = {}
           /\ Reads(t, buf) =>
                \A r : r \in Reading(f, buf, t) <=>
                         \E i \in OneItem(f, buf, HeadAt(buf, t.at), t.depth) :
                            \E rest \in f[TaskOf(t.count - 1, i.next, t.depth)] : r = Joined2(i, rest)
<1>1. t.count \in Nat
  BY TaskParts
<1>2. t.count = 0 => Reading(f, buf, t) = {[value |-> <<>>, next |-> t.at]}
  BY DEF Reading, Some
<1>3. t.count > 0 /\ ~ Reads(t, buf) => Reading(f, buf, t) = {}
  BY <1>1 DEF Reading, Reads, None
<1>4. ASSUME Reads(t, buf)
      PROVE  \A r : r \in Reading(f, buf, t) <=>
                      \E i \in OneItem(f, buf, HeadAt(buf, t.at), t.depth) :
                         \E rest \in f[TaskOf(t.count - 1, i.next, t.depth)] : r = Joined2(i, rest)
  <2> DEFINE items == OneItem(f, buf, HeadAt(buf, t.at), t.depth)
             Next(i) == f[TaskOf(t.count - 1, i.next, t.depth)]
  <2>1. Reading(f, buf, t) = UNION {{Joined2(i, rest) : rest \in Next(i)} : i \in items}
    <3>1. ~ (t.count = 0) /\ ~ (t.depth > MaxDepth \/ ~HeadFits(buf, t.at))
      BY <1>1, <1>4 DEF Reads
    <3> QED BY <3>1, Zenon DEF Reading, Joined2
  <2> HIDE DEF items, Next
  <2>2. \A r : r \in Reading(f, buf, t) <=> \E i \in items : \E rest \in Next(i) : r = Joined2(i, rest)
    BY <2>1
  <2> QED BY <2>2 DEF items, Next
<1> QED BY <1>2, <1>3, <1>4

LEMMA OneItemAt ==
    ASSUME NEW f, NEW buf, NEW h, NEW d
    PROVE  /\ h.major \notin {4, 5} => OneItem(f, buf, h, d) = Leaf(buf, h)
           /\ h.major \in {4, 5} =>
                \A i : i \in OneItem(f, buf, h, d) <=>
                         \E c \in f[TaskOf(Inside(h), h.next, d + 1)] :
                            i = [value |-> IF h.major = 4 THEN List(c.value) ELSE Object(AsMap(c.value)),
                                 next |-> c.next]
BY DEF OneItem

\* The children of a container are a smaller task.
LEMMA InsideSmaller ==
    ASSUME NEW t \in Task, NEW buf \in Seq(Byte), Reads(t, buf)
    PROVE  LET h == HeadAt(buf, t.at) IN
           /\ h.next \in (t.at + 1)..(Len(buf) + 1) /\ h.arg \in Nat
           /\ TaskOf(Inside(h), h.next, t.depth + 1).at = h.next
           /\ Below(t, TaskOf(Inside(h), h.next, t.depth + 1))
<1> DEFINE h == HeadAt(buf, t.at)
<1>1. t.at \in Nat /\ t.depth \in Nat
  BY TaskParts
<1>2. h.next \in (t.at + 1)..(Len(buf) + 1) /\ h.arg \in 0..Huge
  BY <1>1, HeadRange DEF Reads
<1>3. h.next \in Nat
  BY <1>1, <1>2
<1>4. Inside(h) \in 0..(2 * Huge)
  <2> HIDE DEF h
  <2> QED BY <1>2, HugeIs DEF Inside
<1> HIDE DEF h
<1>5. Below(t, TaskOf(Inside(h), h.next, t.depth + 1))
  BY <1>3, <1>4, Smaller DEF Reads
<1>6. TaskOf(Inside(h), h.next, t.depth + 1).at = h.next
  BY DEF TaskOf
<1> QED BY <1>2, <1>5, <1>6, HugeIs DEF h

LEMMA RestSmaller ==
    ASSUME NEW t \in Task, NEW buf, Reads(t, buf), NEW at \in Nat
    PROVE  Below(t, TaskOf(t.count - 1, at, t.depth)) /\ TaskOf(t.count - 1, at, t.depth).at = at
BY Smaller DEF Reads, TaskOf

\* What a task makes of a frame is settled by what smaller ones make of it, and
\* it ends behind where it began.
LEMMA ReadingSame ==
    ASSUME NEW buf \in Seq(Byte), NEW t \in Task, NEW f, NEW g,
           \A u : Below(t, u) => f[u] = g[u] /\ Ends(f[u], u.at)
    PROVE  Reading(f, buf, t) = Reading(g, buf, t) /\ Ends(Reading(f, buf, t), t.at)
<1>0. t.count \in Nat /\ t.at \in Nat
  BY TaskParts
<1>1. CASE t.count = 0
  <2>1. Reading(f, buf, t) = {[value |-> <<>>, next |-> t.at]}
        /\ Reading(g, buf, t) = {[value |-> <<>>, next |-> t.at]}
    BY <1>1, ReadingAt
  <2> QED BY <1>0, <2>1 DEF Ends
<1>2. CASE t.count > 0 /\ ~ Reads(t, buf)
  BY <1>2, ReadingAt DEF Ends
<1>3. CASE Reads(t, buf)
  <2>1. PICK h : h = HeadAt(buf, t.at)
    OBVIOUS
  <2>2. PICK u : u = TaskOf(Inside(h), h.next, t.depth + 1)
    OBVIOUS
  <2>3. /\ h.next \in (t.at + 1)..(Len(buf) + 1) /\ h.arg \in Nat /\ u.at = h.next
        /\ f[u] = g[u] /\ Ends(f[u], h.next)
    BY <1>3, <2>1, <2>2, InsideSmaller
  <2>4. OneItem(f, buf, h, t.depth) = OneItem(g, buf, h, t.depth) /\ Ends(OneItem(f, buf, h, t.depth), h.next)
    <3>1. CASE h.major \notin {4, 5}
      <4>1. \A r \in Leaf(buf, h) : r.next \in h.next..(Len(buf) + 1)
        BY <1>0, <2>3, LeafRange
      <4> QED BY <1>0, <2>3, <3>1, <4>1, OneItemAt DEF Ends
    <3>2. CASE h.major \in {4, 5}
      <4>1. OneItem(f, buf, h, t.depth) = OneItem(g, buf, h, t.depth)
        BY <2>2, <2>3, <3>2 DEF OneItem
      <4>2. \A i \in OneItem(f, buf, h, t.depth) : \E c \in f[u] : i.next = c.next
        BY <2>2, <3>2, OneItemAt
      <4> QED BY <2>3, <4>1, <4>2 DEF Ends
    <3> QED BY <3>1, <3>2
  <2> DEFINE items == OneItem(f, buf, h, t.depth)
             Next(fn, i) == fn[TaskOf(t.count - 1, i.next, t.depth)]
  <2>5. \A i \in items : i.next \in Nat /\ i.next > t.at
    BY <1>0, <2>3, <2>4 DEF Ends
  <2>6. ASSUME NEW i \in items PROVE Next(f, i) = Next(g, i) /\ Ends(Next(f, i), i.next)
    BY <1>3, <2>5, RestSmaller
  <2> HIDE DEF Next
  <2>7. /\ \A r : r \in Reading(f, buf, t) <=> \E i \in items : \E rest \in Next(f, i) : r = Joined2(i, rest)
        /\ \A r : r \in Reading(g, buf, t) <=> \E i \in items : \E rest \in Next(g, i) : r = Joined2(i, rest)
    BY <1>3, <2>1, <2>4, ReadingAt DEF Next
  <2> HIDE DEF items
  <2>8. Reading(f, buf, t) = Reading(g, buf, t)
    BY <2>6, <2>7
  <2>9. ASSUME NEW r \in Reading(f, buf, t) PROVE r.next \in Nat /\ r.next >= t.at
    <3>1. PICK i \in items : \E rest \in Next(f, i) : r = Joined2(i, rest)
      BY <2>7
    <3>2. PICK rest \in Next(f, i) : r.next = rest.next
      BY <3>1 DEF Joined2
    <3> QED BY <1>0, <2>5, <2>6, <3>1, <3>2 DEF Ends
  <2> QED BY <2>8, <2>9 DEF Ends
<1> QED BY <1>0, <1>1, <1>2, <1>3

-----------------------------------------------------------------------------
(* The decoder is well defined: the recursive function of Items exists.      *)

IsRead(buf, f) == f = [t \in Task |-> Reading(f, buf, t)]
Read(buf) == CHOOSE f : IsRead(buf, f)
\* f reads the tasks of a measure below k.
ReadsTo(buf, k, f) ==
    \A t \in Task : Measure(t) < k => f[t] = Reading(f, buf, t) /\ Ends(f[t], t.at)

LEMMA Agree ==
    ASSUME NEW buf \in Seq(Byte), NEW k \in Nat, NEW l \in Nat, NEW f, NEW g,
           ReadsTo(buf, k, f), ReadsTo(buf, l, g)
    PROVE  \A t \in Task : Measure(t) < k /\ Measure(t) < l => f[t] = g[t]
<1> DEFINE S == {t \in Task : Measure(t) < k /\ Measure(t) < l => f[t] = g[t]}
<1>1. ASSUME NEW t \in Task, \A u : Below(t, u) => u \in S PROVE t \in S
  <2> SUFFICES ASSUME Measure(t) < k, Measure(t) < l PROVE f[t] = g[t]
    OBVIOUS
  <2>1. \A u : Below(t, u) => f[u] = g[u] /\ Ends(f[u], u.at)
    <3> SUFFICES ASSUME NEW u, Below(t, u) PROVE f[u] = g[u] /\ Ends(f[u], u.at)
      OBVIOUS
    <3>1. u \in Task /\ Measure(u) < k /\ Measure(u) < l
      BY MeasureNat DEF Below
    <3> QED BY <1>1, <3>1 DEF ReadsTo
  <2>2. Reading(f, buf, t) = Reading(g, buf, t)
    BY <2>1, ReadingSame
  <2> QED BY <2>2 DEF ReadsTo
<1> HIDE DEF S
<1>2. \A t \in Task : t \in S
  BY <1>1, TaskInduction
<1> QED BY <1>2 DEF S

LEMMA ReadsFurther ==
    ASSUME NEW buf \in Seq(Byte), NEW k \in Nat, NEW f, ReadsTo(buf, k, f)
    PROVE  ReadsTo(buf, k + 1, [t \in Task |-> Reading(f, buf, t)])
<1> DEFINE g == [t \in Task |-> Reading(f, buf, t)]
<1>0. \A t \in Task : g[t] = Reading(f, buf, t)
  OBVIOUS
<1> HIDE DEF g
<1>1. ASSUME NEW t \in Task, Measure(t) < k + 1 PROVE g[t] = Reading(g, buf, t) /\ Ends(g[t], t.at)
  <2>1. \A u : Below(t, u) => f[u] = g[u] /\ Ends(f[u], u.at)
    <3> SUFFICES ASSUME NEW u, Below(t, u) PROVE f[u] = g[u] /\ Ends(f[u], u.at)
      OBVIOUS
    <3>1. u \in Task /\ Measure(u) < k
      BY <1>1, MeasureNat DEF Below
    <3> QED BY <1>0, <3>1 DEF ReadsTo
  <2>2. Reading(f, buf, t) = Reading(g, buf, t) /\ Ends(Reading(f, buf, t), t.at)
    BY <2>1, ReadingSame
  <2> QED BY <1>0, <2>2
<1> QED BY <1>1 DEF ReadsTo, g

LEMMA ReadsAll ==
    ASSUME NEW buf \in Seq(Byte), NEW k \in Nat
    PROVE  \E f : ReadsTo(buf, k, f)
<1> DEFINE S == {n \in Nat : \E f : ReadsTo(buf, n, f)}
<1>1. 0 \in S
  BY MeasureNat DEF ReadsTo
<1>2. ASSUME NEW n \in S PROVE n + 1 \in S
  <2>1. n \in Nat /\ \E f : ReadsTo(buf, n, f)
    OBVIOUS
  <2>2. PICK f : ReadsTo(buf, n, f)
    BY <2>1
  <2>3. ReadsTo(buf, n + 1, [t \in Task |-> Reading(f, buf, t)])
    BY <2>1, <2>2, ReadsFurther
  <2> QED BY <2>1, <2>3
<1> HIDE DEF S
<1>3. S \subseteq Nat
  BY DEF S
<1>4. S = Nat
  BY <1>1, <1>2, <1>3, Induction
<1> QED BY <1>4 DEF S

\* Items is what its recursive definition says (decode_value).
LEMMA ReadExists ==
    ASSUME NEW buf \in Seq(Byte)
    PROVE  IsRead(buf, Read(buf)) /\ \A t \in Task : Ends(Read(buf)[t], t.at)
<1> DEFINE To(t) == CHOOSE f : ReadsTo(buf, Measure(t) + 1, f)
           F == [t \in Task |-> To(t)[t]]
<1>1. \A t \in Task : Measure(t) \in Nat /\ Measure(t) + 1 \in Nat /\ Measure(t) < Measure(t) + 1
  BY MeasureNat
<1>2. ASSUME NEW t \in Task PROVE ReadsTo(buf, Measure(t) + 1, To(t))
  BY <1>1, ReadsAll
<1>3. \A t \in Task : F[t] = To(t)[t]
  OBVIOUS
<1> HIDE DEF F, To
<1>4. ASSUME NEW t \in Task PROVE F[t] = Reading(F, buf, t) /\ Ends(F[t], t.at)
  <2>1. \A u : Below(t, u) => To(t)[u] = F[u] /\ Ends(To(t)[u], u.at)
    <3> SUFFICES ASSUME NEW u, Below(t, u) PROVE To(t)[u] = F[u] /\ Ends(To(t)[u], u.at)
      OBVIOUS
    <3>1. u \in Task /\ Measure(u) < Measure(t)
      BY DEF Below
    <3>2. Measure(u) < Measure(t) + 1 /\ Measure(u) < Measure(u) + 1
      BY <1>1, <3>1
    <3>3. To(t)[u] = To(u)[u]
      BY <1>1, <1>2, <3>1, <3>2, Agree
    <3> QED BY <1>2, <1>3, <3>1, <3>2, <3>3 DEF ReadsTo
  <2>2. Reading(To(t), buf, t) = Reading(F, buf, t)
    BY <2>1, ReadingSame
  <2> QED BY <1>1, <1>2, <1>3, <2>2 DEF ReadsTo
<1>5. IsRead(buf, F)
  <2>1. F = [t \in Task |-> F[t]]
    BY DEF F
  <2> QED BY <1>4, <2>1 DEF IsRead
<1>6. IsRead(buf, Read(buf))
  BY <1>5 DEF Read
<1>7. ASSUME NEW R, IsRead(buf, R) PROVE \A t \in Task : R[t] = F[t]
  <2> DEFINE S == {t \in Task : R[t] = F[t]}
  <2>0. \A t \in Task : R[t] = Reading(R, buf, t)
    BY <1>7, Zenon DEF IsRead
  <2>1. ASSUME NEW t \in Task, \A u : Below(t, u) => u \in S PROVE t \in S
    <3>1. \A u : Below(t, u) => F[u] = R[u] /\ Ends(F[u], u.at)
      BY <1>4, <2>1 DEF Below
    <3>2. Reading(F, buf, t) = Reading(R, buf, t)
      BY <3>1, ReadingSame
    <3> QED BY <1>4, <2>0, <3>2
  <2> HIDE DEF S
  <2>2. \A t \in Task : t \in S
    BY <2>1, TaskInduction
  <2> QED BY <2>2 DEF S
<1> QED BY <1>4, <1>6, <1>7

LEMMA ItemsAt ==
    ASSUME NEW buf, NEW n, NEW at, NEW d
    PROVE  Items(buf, n, at, d) = Read(buf)[TaskOf(n, at, d)]
BY DEF Items, Read, IsRead

LEMMA ReadAt ==
    ASSUME NEW buf \in Seq(Byte), NEW t \in Task
    PROVE  Read(buf)[t] = Reading(Read(buf), buf, t) /\ Ends(Read(buf)[t], t.at)
<1>1. IsRead(buf, Read(buf)) /\ Ends(Read(buf)[t], t.at)
  BY ReadExists
<1> QED BY <1>1, Zenon DEF IsRead

-----------------------------------------------------------------------------
(* What the decoder makes of an item depends on the bytes of the item alone. *)

\* other begins with the bytes of buf before position next.
Same(buf, other, next) == next - 1 <= Len(other) /\ \A i \in 1..(next - 1) : other[i] = buf[i]

LEMMA SameLess ==
    ASSUME NEW buf, NEW other \in Seq(Byte), NEW next \in Nat, NEW n \in Nat, n <= next, Same(buf, other, next)
    PROVE  Same(buf, other, n)
BY DEF Same

LEMMA PartSame ==
    ASSUME NEW buf \in Seq(Byte), NEW other \in Seq(Byte), NEW at \in Nat, NEW to \in Int, at >= 1,
           to <= Len(buf), NEW next \in Int, Same(buf, other, next), to + 1 = next
    PROVE  SubSeq(other, at, to) = SubSeq(buf, at, to)
<1>1. \A i \in at..to : other[i] = buf[i]
  BY DEF Same
<1>2. to <= Len(other)
  BY DEF Same
<1> QED BY <1>1, <1>2

LEMMA HeadSame ==
    ASSUME NEW buf \in Seq(Byte), NEW other \in Seq(Byte), NEW at \in Nat, HeadFits(buf, at),
           Same(buf, other, HeadAt(buf, at).next)
    PROVE  HeadFits(other, at) /\ HeadAt(other, at) = HeadAt(buf, at)
<1> DEFINE w == HeadWidth(buf[at] % 32)
<1>1. /\ HeadAt(buf, at).next = at + 1 + w /\ w \in {0, 1, 2, 4, 8}
      /\ at + 1 + w \in (at + 1)..(Len(buf) + 1)
  BY HeadRange
<1>2. at \in 1..Len(buf) /\ buf[at] % 32 <= 27
  BY DEF HeadFits
<1> HIDE DEF w
<1>3. Same(buf, other, at + 1 + w) /\ at + w <= Len(buf) /\ at + w <= Len(other)
  BY <1>1, <1>2 DEF Same
<1>4. other[at] = buf[at]
  BY <1>1, <1>2, <1>3 DEF Same
<1>5. SubSeq(other, at + 1, at + w) = SubSeq(buf, at + 1, at + w)
  <2>1. PICK to \in Nat, next \in Nat : to = at + w /\ next = at + 1 + w
    BY <1>1, <1>2
  <2>2. PICK n \in Nat : n = at + 1 /\ n >= 1
    OBVIOUS
  <2>3. Same(buf, other, next) /\ to <= Len(buf) /\ to + 1 = next
    BY <1>1, <1>2, <1>3, <2>1
  <2>4. SubSeq(other, n, to) = SubSeq(buf, n, to)
    BY <2>2, <2>3, PartSame
  <2> QED BY <2>1, <2>2, <2>4
<1>6. at \in 1..Len(other)
  BY <1>1, <1>2, <1>3
<1>7. HeadFits(other, at)
  BY <1>2, <1>3, <1>4, <1>6 DEF HeadFits, w
<1> QED BY <1>4, <1>5, <1>7 DEF HeadAt, w

LEMMA LeafIs ==
    ASSUME NEW buf, NEW h, NEW payload, payload = SubSeq(buf, h.next, h.next + h.arg - 1)
    PROVE  /\ h.major = 0 => Leaf(buf, h) = {[value |-> Number(h.arg), next |-> h.next]}
           /\ h.major = 2 =>
                Leaf(buf, h) = IF h.next + h.arg <= Len(buf) + 1
                               THEN {[value |-> String(Hex(payload)), next |-> h.next + h.arg]} ELSE {}
           /\ h.major = 3 =>
                Leaf(buf, h) = IF h.next + h.arg <= Len(buf) + 1 /\ Ascii(payload)
                               THEN {[value |-> String(payload), next |-> h.next + h.arg]} ELSE {}
<1>1. h.major = 0 => Leaf(buf, h) = {[value |-> Number(h.arg), next |-> h.next]}
  BY DEF Leaf, Some
<1>2. ASSUME h.major = 2
      PROVE  Leaf(buf, h) = IF h.next + h.arg <= Len(buf) + 1
                            THEN {[value |-> String(Hex(payload)), next |-> h.next + h.arg]} ELSE {}
  BY <1>2 DEF Leaf, Some, None
<1>3. ASSUME h.major = 3
      PROVE  Leaf(buf, h) = IF h.next + h.arg <= Len(buf) + 1 /\ Ascii(payload)
                            THEN {[value |-> String(payload), next |-> h.next + h.arg]} ELSE {}
  BY <1>3 DEF Leaf, Some, None
<1> QED BY <1>1, <1>2, <1>3

LEMMA LeafSame ==
    ASSUME NEW buf \in Seq(Byte), NEW other \in Seq(Byte), NEW h, h.arg \in Nat,
           h.next \in 1..(Len(buf) + 1), NEW r \in Leaf(buf, h), Same(buf, other, r.next)
    PROVE  Leaf(other, h) = {r}
<1>1. r.next \in h.next..(Len(buf) + 1)
  BY LeafRange
<1>2. CASE h.major \in {2, 3}
  <2>1. r.next = h.next + h.arg
    BY <1>2 DEF Leaf, Some, None
  <2>2. PICK to \in Int : to = h.next + h.arg - 1
    OBVIOUS
  <2>3. SubSeq(other, h.next, to) = SubSeq(buf, h.next, to)
    <3>0. PICK n \in Nat : n = h.next /\ n >= 1
      OBVIOUS
    <3> DEFINE m == n + h.arg
    <3>a. m \in Int
      BY <3>0
    <3>1. PICK next \in Int : next = n + h.arg
      <4> HIDE DEF m
      <4>1. PICK next \in Int : next = m
        BY <3>a
      <4> QED BY <4>1 DEF m
    <3>2. to <= Len(buf) /\ to + 1 = next /\ next = r.next
      BY <1>1, <2>1, <2>2, <3>0, <3>1
    <3>3. Same(buf, other, next)
      BY <3>2
    <3> QED BY <3>0, <3>1, <3>2, <3>3, PartSame
  <2>4. h.next + h.arg <= Len(other) + 1 /\ h.next + h.arg <= Len(buf) + 1
    BY <1>1, <2>1 DEF Same
  <2>5. PICK payload : payload = SubSeq(buf, h.next, h.next + h.arg - 1)
    OBVIOUS
  <2>6. payload = SubSeq(other, h.next, h.next + h.arg - 1)
    BY <2>2, <2>3, <2>5
  <2>7. PICK x : x = [value |-> IF h.major = 2 THEN String(Hex(payload)) ELSE String(payload), next |-> h.next + h.arg]
    OBVIOUS
  <2>8. ASSUME NEW any, payload = SubSeq(any, h.next, h.next + h.arg - 1), h.next + h.arg <= Len(any) + 1
        PROVE  Leaf(any, h) = IF h.major = 2 \/ Ascii(payload) THEN {x} ELSE {}
    <3>1. CASE h.major = 2
      <4>1. Leaf(any, h) = {[value |-> String(Hex(payload)), next |-> h.next + h.arg]}
        BY <2>8, <3>1, LeafIs
      <4>2. x = [value |-> String(Hex(payload)), next |-> h.next + h.arg]
        BY <2>7, <3>1
      <4> QED BY <3>1, <4>1, <4>2
    <3>2. CASE h.major = 3
      BY <2>7, <2>8, <3>2, LeafIs
    <3> QED BY <1>2, <3>1, <3>2
  <2>9. Leaf(buf, h) = IF h.major = 2 \/ Ascii(payload) THEN {x} ELSE {}
    BY <2>4, <2>5, <2>8
  <2>10. Leaf(other, h) = IF h.major = 2 \/ Ascii(payload) THEN {x} ELSE {}
    BY <2>4, <2>6, <2>8
  <2> QED BY <2>9, <2>10, Zenon
<1>3. CASE h.major \notin {2, 3}
  BY <1>3 DEF Leaf, Some, None
<1> QED BY <1>2, <1>3

LEMMA TaskSame ==
    ASSUME NEW buf \in Seq(Byte), NEW other \in Seq(Byte), NEW t \in Task,
           NEW r \in Read(buf)[t], Same(buf, other, r.next),
           \A u : Below(t, u) => \A c \in Read(buf)[u] :
                    Same(buf, other, c.next) => Read(other)[u] = {c}
    PROVE  Read(other)[t] = {r}
<1> DEFINE f == Read(buf)
           g == Read(other)
<1>0. /\ f[t] = Reading(f, buf, t) /\ g[t] = Reading(g, other, t)
      /\ \A u \in Task : Ends(f[u], u.at)
      /\ t.count \in Nat /\ t.at \in Nat
  BY ReadAt, TaskParts
<1> HIDE DEF f, g
<1>1. CASE t.count = 0
  <2>1. f[t] = {[value |-> <<>>, next |-> t.at]} /\ g[t] = {[value |-> <<>>, next |-> t.at]}
    BY <1>0, <1>1, ReadingAt
  <2> QED BY <2>1 DEF f, g
<1>2. CASE t.count > 0
  <2>1. Reads(t, buf)
    BY <1>0, <1>2, ReadingAt DEF f
  <2>2. PICK h : h = HeadAt(buf, t.at)
    OBVIOUS
  <2>3. PICK u : u = TaskOf(Inside(h), h.next, t.depth + 1)
    OBVIOUS
  <2>4. /\ h.next \in (t.at + 1)..(Len(buf) + 1) /\ h.arg \in Nat /\ u.at = h.next
        /\ Below(t, u) /\ Ends(f[u], h.next)
    BY <1>0, <2>1, <2>2, <2>3, InsideSmaller DEF Below
  <2>5. PICK i \in OneItem(f, buf, h, t.depth) :
             \E rest \in f[TaskOf(t.count - 1, i.next, t.depth)] : r = Joined2(i, rest)
    BY <1>0, <2>1, <2>2, ReadingAt DEF f
  <2>6. i.next \in Nat /\ i.next >= h.next
    <3>1. CASE h.major \notin {4, 5}
      <4>1. i \in Leaf(buf, h) /\ h.next \in 1..(Len(buf) + 1)
        BY <1>0, <2>4, <3>1, OneItemAt
      <4> QED BY <2>4, <4>1, LeafRange
    <3>2. CASE h.major \in {4, 5}
      BY <2>3, <2>4, <3>2, OneItemAt DEF Ends
    <3> QED BY <3>1, <3>2
  <2>7. PICK v : v = TaskOf(t.count - 1, i.next, t.depth)
    OBVIOUS
  <2>8. Below(t, v) /\ Ends(f[v], i.next)
    BY <1>0, <2>1, <2>6, <2>7, RestSmaller DEF Below
  <2>9. PICK rest \in f[v] : r = Joined2(i, rest)
    BY <2>5, <2>7
  <2>10. r.next = rest.next /\ r.next \in Nat /\ r.next >= i.next
    BY <2>8, <2>9 DEF Joined2, Ends
  <2>11. Same(buf, other, i.next) /\ Same(buf, other, h.next)
    <3>1. PICK next \in Nat : next = r.next
      BY <2>10
    <3>2. PICK n \in Nat : n = h.next
      BY <1>0, <2>4
    <3> QED BY <2>6, <2>10, <3>1, <3>2, SameLess
  <2>12. HeadFits(other, t.at) /\ HeadAt(other, t.at) = h
    BY <1>0, <2>1, <2>2, <2>11, HeadSame DEF Reads
  <2>13. OneItem(g, other, h, t.depth) = {i}
    <3>1. CASE h.major \notin {4, 5}
      <4>1. i \in Leaf(buf, h) /\ h.next \in 1..(Len(buf) + 1)
        BY <1>0, <2>4, <3>1, OneItemAt
      <4>2. Leaf(other, h) = {i}
        BY <2>4, <2>11, <4>1, LeafSame
      <4> QED BY <3>1, <4>2, OneItemAt
    <3>2. CASE h.major \in {4, 5}
      <4> DEFINE Made(c) == [value |-> IF h.major = 4 THEN List(c.value) ELSE Object(AsMap(c.value)),
                             next |-> c.next]
      <4>1. PICK c \in f[u] : i = Made(c)
        BY <2>3, <3>2, OneItemAt
      <4>2. i.next = c.next
        BY <4>1
      <4>3. g[u] = {c}
        BY <2>4, <2>11, <4>1, <4>2 DEF f, g
      <4>4. OneItem(g, other, h, t.depth) = {Made(k) : k \in g[u]}
        BY <2>3, <3>2, Zenon DEF OneItem
      <4> HIDE DEF Made
      <4> QED BY <4>1, <4>3, <4>4
    <3> QED BY <3>1, <3>2
  <2>14. g[v] = {rest}
    BY <2>8, <2>9, <2>10 DEF f, g
  <2>15. Reads(t, other)
    BY <2>1, <2>12 DEF Reads
  <2>16. \A q : q \in g[t] <=> \E j \in {i} : \E k \in g[TaskOf(t.count - 1, j.next, t.depth)] : q = Joined2(j, k)
    BY <1>0, <2>12, <2>13, <2>15, ReadingAt
  <2>17. \A q : q \in g[t] <=> q = r
    BY <2>7, <2>9, <2>14, <2>16
  <2> QED BY <2>17 DEF g
<1> QED BY <1>0, <1>1, <1>2

\* The same item is read from every frame that has its bytes, and nothing else
\* (decode_value 163-165: every decode consumes a measured byte count).
LEMMA ReadSame ==
    ASSUME NEW buf \in Seq(Byte), NEW other \in Seq(Byte), NEW t \in Task,
           NEW r \in Read(buf)[t], Same(buf, other, r.next)
    PROVE  Read(other)[t] = {r}
<1> DEFINE S == {s \in Task : \A c \in Read(buf)[s] : Same(buf, other, c.next) => Read(other)[s] = {c}}
<1>1. ASSUME NEW s \in Task, \A u : Below(s, u) => u \in S PROVE s \in S
  BY <1>1, TaskSame
<1> HIDE DEF S
<1>2. \A s \in Task : s \in S
  BY <1>1, TaskInduction
<1> QED BY <1>2 DEF S

\* At most one value is read, and it ends within the frame.
LEMMA ReadOnce ==
    ASSUME NEW buf \in Seq(Byte), NEW t \in Task, NEW r \in Read(buf)[t]
    PROVE  r.next \in Nat /\ (r.next <= Len(buf) + 1 => Read(buf)[t] = {r})
<1>1. r.next \in Nat
  BY ReadAt DEF Ends
<1>2. r.next <= Len(buf) + 1 => Same(buf, buf, r.next)
  BY <1>1 DEF Same
<1> QED BY <1>1, <1>2, ReadSame

\* What is read ends within the frame.
LEMMA ReadWithin ==
    ASSUME NEW buf \in Seq(Byte), NEW t \in Task, t.at <= Len(buf) + 1, NEW r \in Read(buf)[t]
    PROVE  r.next \in t.at..(Len(buf) + 1)
<1> DEFINE f == Read(buf)
           S == {s \in Task : s.at <= Len(buf) + 1 => \A c \in f[s] : c.next <= Len(buf) + 1}
<1>1. ASSUME NEW s \in Task, \A u : Below(s, u) => u \in S PROVE s \in S
  <2> SUFFICES ASSUME s.at <= Len(buf) + 1, NEW c \in f[s] PROVE c.next <= Len(buf) + 1
    OBVIOUS
  <2>0. /\ f[s] = Reading(f, buf, s) /\ s.count \in Nat /\ s.at \in Nat
        /\ \A u \in Task : Ends(f[u], u.at)
    BY ReadAt, TaskParts
  <2>1. CASE s.count = 0
    <3> HIDE DEF f
    <3>1. f[s] = {[value |-> <<>>, next |-> s.at]}
      BY <2>0, <2>1, ReadingAt
    <3> QED BY <3>1
  <2>2. CASE s.count > 0
    <3> HIDE DEF f
    <3>1. Reads(s, buf)
      BY <2>0, <2>2, ReadingAt
    <3>2. PICK h : h = HeadAt(buf, s.at)
      OBVIOUS
    <3>3. PICK u : u = TaskOf(Inside(h), h.next, s.depth + 1)
      OBVIOUS
    <3>4. /\ h.next \in (s.at + 1)..(Len(buf) + 1) /\ h.arg \in Nat /\ u.at = h.next
          /\ Below(s, u) /\ Ends(f[u], h.next)
      BY <2>0, <3>1, <3>2, <3>3, InsideSmaller DEF Below
    <3>5. PICK i \in OneItem(f, buf, h, s.depth) :
               \E rest \in f[TaskOf(s.count - 1, i.next, s.depth)] : c = Joined2(i, rest)
      BY <2>0, <3>1, <3>2, ReadingAt
    <3>6. i.next \in Nat /\ i.next <= Len(buf) + 1
      <4>1. CASE h.major \notin {4, 5}
        <5>1. i \in Leaf(buf, h) /\ h.next \in 1..(Len(buf) + 1)
          BY <2>0, <3>4, <4>1, OneItemAt
        <5>2. i.next \in h.next..(Len(buf) + 1)
          BY <3>4, <5>1, LeafRange
        <5> QED BY <2>0, <3>4, <5>1, <5>2
      <4>2. CASE h.major \in {4, 5}
        <5>1. PICK k \in f[u] : i.next = k.next
          BY <3>3, <4>2, OneItemAt
        <5>2. \A k2 \in f[u] : k2.next <= Len(buf) + 1
          BY <1>1, <3>4
        <5> QED BY <3>4, <5>1, <5>2 DEF Ends
      <4> QED BY <4>1, <4>2
    <3>7. PICK v : v = TaskOf(s.count - 1, i.next, s.depth)
      OBVIOUS
    <3>8. Below(s, v) /\ v.at = i.next
      BY <3>1, <3>6, <3>7, RestSmaller
    <3>9. PICK rest \in f[v] : c = Joined2(i, rest)
      BY <3>5, <3>7
    <3>10. rest.next <= Len(buf) + 1
      BY <1>1, <3>6, <3>8, <3>9
    <3> QED BY <3>9, <3>10 DEF Joined2
  <2> QED BY <2>0, <2>1, <2>2
<1> HIDE DEF S
<1>2. \A s \in Task : s \in S
  BY <1>1, TaskInduction
<1>3. r.next \in Nat /\ r.next >= t.at /\ t.at \in Nat
  BY ReadAt, TaskParts DEF Ends
<1>4. r.next <= Len(buf) + 1
  BY <1>2 DEF S
<1> QED BY <1>3, <1>4

\* The decoder measures what it consumes: of one count of items from a position
\* on at most one reading exists, it ends between that position and the end of
\* the frame, and every frame that goes the same up to there reads the same -
\* so one that is cut off before reads as nothing (p2p.rs:163-165 and
\* decode_value).
THEOREM DecoderMeasures ==
    ASSUME NEW buf \in Seq(Byte), NEW n \in Nat, NEW at \in 1..(Len(buf) + 1), NEW d \in Nat,
           NEW r \in Items(buf, n, at, d)
    PROVE  /\ r.next \in at..(Len(buf) + 1)
           /\ Items(buf, n, at, d) = {r}
           /\ \A other \in Seq(Byte) :
                 /\ Same(buf, other, r.next) => Items(other, n, at, d) = {r}
                 /\ Len(other) \in at - 1..r.next - 2 /\ Same(other, buf, Len(other) + 1)
                       => Items(other, n, at, d) = {}
<1>1. PICK t \in Task : t = TaskOf(n, at, d) /\ t.at = at
  BY TaskIs
<1>2. \A any : Items(any, n, at, d) = Read(any)[t]
  BY <1>1, ItemsAt
<1>3. r \in Read(buf)[t]
  BY <1>2
<1>4. r.next \in at..(Len(buf) + 1)
  BY <1>1, <1>3, ReadWithin
<1>5. Read(buf)[t] = {r}
  BY <1>3, <1>4, ReadOnce
<1>6. ASSUME NEW other \in Seq(Byte), Same(buf, other, r.next) PROVE Read(other)[t] = {r}
  BY <1>3, <1>6, ReadSame
<1>7. ASSUME NEW other \in Seq(Byte), Len(other) \in at - 1..r.next - 2, Same(other, buf, Len(other) + 1)
      PROVE  Read(other)[t] = {}
  <2> SUFFICES ASSUME NEW c \in Read(other)[t] PROVE FALSE
    OBVIOUS
  <2>1. at <= Len(other) + 1 /\ Len(other) \in Nat
    BY <1>7
  <2>2. c.next \in at..(Len(other) + 1)
    BY <1>1, <2>1, ReadWithin
  <2>3. PICK next \in Nat, m \in Nat : next = c.next /\ m = Len(other) + 1
    BY <2>1, <2>2
  <2>4. Same(other, buf, c.next)
    BY <1>7, <2>2, <2>3, SameLess
  <2>5. Read(buf)[t] = {c}
    BY <2>4, ReadSame
  <2> QED BY <1>3, <1>4, <1>7, <2>2, <2>5
<1> QED BY <1>2, <1>4, <1>5, <1>6, <1>7

-----------------------------------------------------------------------------
(* The encoders, read back.  The bytes e sit in a frame at a position. *)

Sits(buf, at, e) ==
    /\ at \in Nat /\ at >= 1 /\ at + Len(e) <= Len(buf) + 1
    /\ \A i \in 1..Len(e) : buf[at + i - 1] = e[i]

LEMMA SitsJoin ==
    ASSUME NEW e \in Seq(Byte), NEW f \in Seq(Byte), NEW buf \in Seq(Byte), NEW at, Sits(buf, at, e \o f)
    PROVE  Sits(buf, at, e) /\ Sits(buf, at + Len(e), f)
<1>1. PICK m \in Nat, n \in Nat : m = Len(e) /\ n = Len(f) /\ Len(e \o f) = m + n
  OBVIOUS
<1>2. at \in Nat /\ at >= 1 /\ at + m + n <= Len(buf) + 1
  BY <1>1 DEF Sits
<1>3. \A i \in 1..m : buf[at + i - 1] = e[i]
  BY <1>1 DEF Sits
<1>4. ASSUME NEW i \in 1..n PROVE buf[at + m + i - 1] = f[i]
  <2>1. PICK j \in 1..(m + n) : j = m + i
    BY <1>1
  <2>2. (e \o f)[j] = f[i]
    BY <1>1, <2>1
  <2>3. buf[at + j - 1] = (e \o f)[j]
    BY <1>1, <2>1 DEF Sits
  <2>4. at + j - 1 = at + m + i - 1
    BY <1>2, <2>1
  <2> QED BY <2>2, <2>3, <2>4
<1> QED BY <1>1, <1>2, <1>3, <1>4 DEF Sits

Digit0(n) == n % 256
Digit1(n) == (n \div 256) % 256
Digit2(n) == (n \div (256 * 256)) % 256
Digit3(n) == (n \div (256 * 256 * 256)) % 256

LEMMA DivMod ==
    ASSUME NEW n \in Nat, NEW q, NEW r, q = n \div 256, r = n % 256
    PROVE  q \in Nat /\ r \in 0..255 /\ n = 256 * q + r
<1>1. q \in Nat
  OBVIOUS
<1>2. n >= 256 * q /\ n <= 256 * q + 255
  BY <1>1
<1>3. PICK s \in 0..255 : n = 256 * q + s
  <2>1. n - 256 * q \in 0..255 /\ n = 256 * q + (n - 256 * q)
    BY <1>1, <1>2
  <2> QED BY <2>1
<1>4. s = n % 256
  BY <1>1, <1>3
<1>5. s = r
  BY <1>4
<1> QED BY <1>1, <1>3, <1>5

\* The digits of a number below 2^28.
LEMMA Digits ==
    ASSUME NEW n \in Nat, n < 16 * 256 * 256 * 256
    PROVE  /\ Digit0(n) \in 0..255 /\ Digit1(n) \in 0..255 /\ Digit2(n) \in 0..255 /\ Digit3(n) \in 0..15
           /\ n = Digit0(n) + 256 * (Digit1(n) + 256 * (Digit2(n) + 256 * Digit3(n)))
           /\ n < 256 * 256 => n = Digit0(n) + 256 * Digit1(n)
           /\ n < 256 => n = Digit0(n)
<1>1. PICK q : q = n \div 256
  OBVIOUS
<1>2. PICK a : a = n % 256
  OBVIOUS
<1>3. q \in Nat /\ a \in 0..255 /\ n = 256 * q + a
  BY <1>1, <1>2, DivMod
<1>4. PICK s : s = q \div 256
  OBVIOUS
<1>5. PICK b : b = q % 256
  OBVIOUS
<1>6. s \in Nat /\ b \in 0..255 /\ q = 256 * s + b
  BY <1>3, <1>4, <1>5, DivMod
<1>7. PICK v : v = s \div 256
  OBVIOUS
<1>8. PICK c : c = s % 256
  OBVIOUS
<1>9. v \in Nat /\ c \in 0..255 /\ s = 256 * v + c
  BY <1>6, <1>7, <1>8, DivMod
<1>10. n = 256 * (256 * s + b) + a /\ n = 256 * (256 * (256 * v + c) + b) + a
  BY <1>3, <1>6, <1>9
<1>11. s = n \div (256 * 256)
  BY <1>3, <1>6, <1>10
<1>12. v = n \div (256 * 256 * 256)
  BY <1>3, <1>6, <1>9, <1>10
<1>13. v < 16 /\ v % 256 = v
  BY <1>3, <1>6, <1>9, <1>10
<1>14. Digit0(n) = a /\ Digit1(n) = b /\ Digit2(n) = c /\ Digit3(n) = v
  <2>1. Digit0(n) = a
    BY <1>2 DEF Digit0
  <2>2. Digit1(n) = b
    BY <1>1, <1>5 DEF Digit1
  <2>3. Digit2(n) = c
    BY <1>8, <1>11 DEF Digit2
  <2>4. Digit3(n) = v
    BY <1>12, <1>13 DEF Digit3
  <2> QED BY <2>1, <2>2, <2>3, <2>4
<1>15. (n < 256 * 256 => s = 0) /\ (n < 256 => q = 0)
  BY <1>3, <1>6, <1>9, <1>10
<1> QED BY <1>3, <1>6, <1>9, <1>10, <1>13, <1>14, <1>15

\* What an argument spells, by its digits from the last.
DigitAt(bytes, k) == IF k < Len(bytes) THEN bytes[Len(bytes) - k] ELSE 0

LEMMA ArgumentIs ==
    ASSUME NEW bytes, Len(bytes) \in 1..4
    PROVE  Argument(bytes) =
             IF DigitAt(bytes, 3) >= 16 THEN Huge
             ELSE DigitAt(bytes, 0) + 256 * (DigitAt(bytes, 1) + 256 * (DigitAt(bytes, 2) + 256 * DigitAt(bytes, 3)))
<1>1. \A k \in 1..4 : \A i \in 1..(k - 4) : FALSE
  OBVIOUS
<1>2. ~ \E i \in 1..(Len(bytes) - 4) : bytes[i] > 0
  <2>1. PICK k \in 1..4 : Len(bytes) = k
    OBVIOUS
  <2>2. \A i \in 1..(k - 4) : FALSE
    BY <1>1
  <2>3. ~ \E i \in 1..(k - 4) : bytes[i] > 0
    BY <2>2
  <2> QED BY <2>1, <2>3
<1>3. Argument(bytes) =
        IF DigitAt(bytes, 3) >= 16 \/ \E i \in 1..(Len(bytes) - 4) : bytes[i] > 0 THEN Huge
        ELSE DigitAt(bytes, 0) + 256 * (DigitAt(bytes, 1) + 256 * (DigitAt(bytes, 2) + 256 * DigitAt(bytes, 3)))
  BY Zenon DEF Argument, DigitAt
<1> QED BY <1>2, <1>3

\* BigEndian and Argument, one for each width.
LEMMA ArgumentOf1 ==
    ASSUME NEW n \in Nat, n < 256
    PROVE  BigEndian(n, 1) \in Seq(Byte) /\ Len(BigEndian(n, 1)) = 1 /\ Argument(BigEndian(n, 1)) = n
<1>0. ~ (n >= Huge) /\ n < 16 * 256 * 256 * 256
  BY HugeIs
<1>1. BigEndian(n, 1) = <<n>>
  <2>1. n \div 1 = n /\ n % 256 = n
    OBVIOUS
  <2>2. BigEndian(n, 1) = [i \in 1..1 |-> n]
    BY <1>0, <2>1 DEF BigEndian, Place
  <2> QED BY <2>2
<1>2. PICK x : x = <<n>>
  OBVIOUS
<1>3. Len(x) = 1 /\ x[1] = n
  BY <1>2
<1>4. DigitAt(x, 0) = n /\ DigitAt(x, 1) = 0 /\ DigitAt(x, 2) = 0 /\ DigitAt(x, 3) = 0
  BY <1>3 DEF DigitAt
<1>5. Argument(x) = n
  BY <1>3, <1>4, ArgumentIs
<1>6. x \in Seq(Byte)
  <2>1. n \in Byte
    BY DEF Byte
  <2> QED BY <1>2, <2>1
<1>7. BigEndian(n, 1) = x
  BY <1>1, <1>2
<1> QED BY <1>3, <1>5, <1>6, <1>7

LEMMA ArgumentOf2 ==
    ASSUME NEW n \in Nat, n < 256 * 256
    PROVE  BigEndian(n, 2) \in Seq(Byte) /\ Len(BigEndian(n, 2)) = 2 /\ Argument(BigEndian(n, 2)) = n
<1>0. ~ (n >= Huge) /\ n < 16 * 256 * 256 * 256
  BY HugeIs
<1> DEFINE a == Digit0(n)
           b == Digit1(n)
<1>1. a \in 0..255 /\ b \in 0..255 /\ n = a + 256 * b
  BY <1>0, Digits
<1>2. BigEndian(n, 2) = <<b, a>>
  <2>1. n \div 1 = n
    OBVIOUS
  <2>2. BigEndian(n, 2) = [i \in 1..2 |-> IF i = 1 THEN b ELSE a]
    BY <1>0, <2>1 DEF BigEndian, Place, Digit0, Digit1
  <2> QED BY <2>2
<1> HIDE DEF a, b
<1>3. PICK x : x = <<b, a>>
  OBVIOUS
<1>4. Len(x) = 2 /\ x[1] = b /\ x[2] = a
  BY <1>3
<1>5. DigitAt(x, 0) = a /\ DigitAt(x, 1) = b /\ DigitAt(x, 2) = 0 /\ DigitAt(x, 3) = 0
  BY <1>4 DEF DigitAt
<1>6. Argument(x) = n
  BY <1>1, <1>4, <1>5, ArgumentIs
<1>7. x \in Seq(Byte)
  <2>1. a \in Byte /\ b \in Byte
    BY <1>1 DEF Byte
  <2> QED BY <1>3, <2>1
<1>8. BigEndian(n, 2) = x
  BY <1>2, <1>3
<1> QED BY <1>4, <1>6, <1>7, <1>8

LEMMA ArgumentOf4 ==
    ASSUME NEW n \in Nat, n < Huge
    PROVE  BigEndian(n, 4) \in Seq(Byte) /\ Len(BigEndian(n, 4)) = 4 /\ Argument(BigEndian(n, 4)) = n
<1>0. ~ (n >= Huge) /\ n < 16 * 256 * 256 * 256
  BY HugeIs
<1> DEFINE a == Digit0(n)
           b == Digit1(n)
           c == Digit2(n)
           d == Digit3(n)
<1>1. /\ a \in 0..255 /\ b \in 0..255 /\ c \in 0..255 /\ d \in 0..15
      /\ n = a + 256 * (b + 256 * (c + 256 * d))
  BY <1>0, Digits
<1>2. BigEndian(n, 4) = <<d, c, b, a>>
  <2>1. n \div 1 = n
    OBVIOUS
  <2>2. BigEndian(n, 4) = [i \in 1..4 |-> IF i = 1 THEN d ELSE IF i = 2 THEN c ELSE IF i = 3 THEN b ELSE a]
    BY <1>0, <2>1 DEF BigEndian, Place, Digit0, Digit1, Digit2, Digit3
  <2> QED BY <2>2
<1> HIDE DEF a, b, c, d
<1>3. PICK x : x = <<d, c, b, a>>
  OBVIOUS
<1>4. Len(x) = 4 /\ x[1] = d /\ x[2] = c /\ x[3] = b /\ x[4] = a
  BY <1>3
<1>5. DigitAt(x, 0) = a /\ DigitAt(x, 1) = b /\ DigitAt(x, 2) = c /\ DigitAt(x, 3) = d
  BY <1>4 DEF DigitAt
<1>6. Argument(x) = n
  BY <1>1, <1>4, <1>5, ArgumentIs
<1>7. x \in Seq(Byte)
  <2>1. a \in Byte /\ b \in Byte /\ c \in Byte /\ d \in Byte
    BY <1>1 DEF Byte
  <2> QED BY <1>3, <2>1
<1>8. BigEndian(n, 4) = x
  BY <1>2, <1>3
<1> QED BY <1>4, <1>6, <1>7, <1>8

LEMMA ArgumentOf8 ==
    ASSUME NEW n \in Nat, n >= Huge
    PROVE  BigEndian(n, 8) \in Seq(Byte) /\ Len(BigEndian(n, 8)) = 8 /\ Argument(BigEndian(n, 8)) = Huge
<1>1. BigEndian(n, 8) = [i \in 1..8 |-> 255]
  BY DEF BigEndian
<1>2. PICK b : b = [i \in 1..8 |-> 255]
  OBVIOUS
<1>3. b \in Seq(Byte) /\ Len(b) = 8 /\ b[5] = 255 /\ b[4] = 255
  BY <1>2 DEF Byte
<1>4. Argument(b) = Huge
  BY <1>3 DEF Argument
<1> QED BY <1>1, <1>2, <1>3, <1>4

\* The leading byte of a head.
LEMMA LeadingByte ==
    ASSUME NEW major \in 0..7, NEW info \in 0..31, NEW b, b = 32 * major + info
    PROVE  b \in Byte /\ b \div 32 = major /\ b % 32 = info
<1>1. b \in 0..255
  OBVIOUS
<1>2. b \div 32 = major
  OBVIOUS
<1>3. b % 32 = info
  OBVIOUS
<1> QED BY <1>1, <1>2, <1>3 DEF Byte

LEMMA PartIs ==
    ASSUME NEW buf \in Seq(Byte), NEW e \in Seq(Byte), NEW at, Sits(buf, at, e)
    PROVE  SubSeq(buf, at, at + Len(e) - 1) = e
<1>0. PICK to \in Int : to = at + Len(e) - 1
  <2>1. at + Len(e) - 1 \in Int
    BY DEF Sits
  <2> QED BY <2>1, Zenon
<1>1. at \in Nat /\ at >= 1 /\ to <= Len(buf) /\ at + Len(e) <= Len(buf) + 1
  BY <1>0 DEF Sits
<1>2. PICK m \in Nat : m = Len(e) /\ to = at + m - 1
  BY <1>0
<1>3. PICK x : x = SubSeq(buf, at, to)
  OBVIOUS
<1>4. x \in Seq(Byte) /\ Len(x) = m
  BY <1>1, <1>2, <1>3
<1>5. \A i \in 1..m : x[i] = buf[at + i - 1]
  BY <1>1, <1>2, <1>3
<1>6. \A i \in 1..m : e[i] = buf[at + i - 1]
  BY <1>2 DEF Sits
<1>7. \A i \in 1..m : x[i] = e[i]
  BY <1>5, <1>6
<1> QED BY <1>0, <1>2, <1>3, <1>4, <1>7, SeqEqual

\* The head that was written is the head that is read.
IsHead(buf, at, major, next, arg) ==
    /\ HeadFits(buf, at)
    /\ HeadAt(buf, at).major = major /\ HeadAt(buf, at).next = next /\ HeadAt(buf, at).arg = arg

Spelt(n, w, arg) ==
    /\ w \in {1, 2, 4, 8} /\ BigEndian(n, w) \in Seq(Byte) /\ Len(BigEndian(n, w)) = w
    /\ Argument(BigEndian(n, w)) = arg
HeadOf(e, major, arg) ==
    /\ e \in Seq(Byte) /\ Len(e) \in 1..9
    /\ \A buf \in Seq(Byte), at \in Nat : Sits(buf, at, e) => IsHead(buf, at, major, at + Len(e), arg)

LEMMA HeadedRead ==
    ASSUME NEW major \in 0..7, NEW info \in 24..27, NEW n, NEW arg, Spelt(n, Width[info - 23], arg)
    PROVE  HeadOf(Headed(major, info, n), major, arg)
<1>0. PICK w : w = Width[info - 23]
  OBVIOUS
<1>1. w \in {1, 2, 4, 8}
  BY <1>0 DEF Spelt
<1>2. PICK b \in Byte : b = 32 * major + info /\ b \div 32 = major /\ b % 32 = info
  <2>1. info \in 0..31
    OBVIOUS
  <2> QED BY <2>1, LeadingByte
<1>3. PICK e \in Seq(Byte) : e = BigEndian(n, w) /\ Len(e) = w /\ Argument(e) = arg
  BY <1>0 DEF Spelt
<1>4. Headed(major, info, n) = <<b>> \o e
  BY <1>0, <1>2, <1>3 DEF Headed
<1>5. <<b>> \in Seq(Byte) /\ Len(<<b>>) = 1 /\ <<b>>[1] = b
  BY <1>2
<1>6. <<b>> \o e \in Seq(Byte) /\ Len(<<b>> \o e) = 1 + w
  BY <1>3, <1>5
<1>7. ASSUME NEW buf \in Seq(Byte), NEW at \in Nat, Sits(buf, at, <<b>> \o e)
      PROVE  IsHead(buf, at, major, at + 1 + w, arg)
  <2>1. Sits(buf, at, <<b>>) /\ Sits(buf, at + 1, e)
    BY <1>3, <1>5, <1>7, SitsJoin
  <2>2. at >= 1 /\ at \in DOMAIN buf /\ buf[at] = b
    <3>1. buf[at + 1 - 1] = b
      BY <1>5, <2>1 DEF Sits
    <3>2. at >= 1 /\ at + 1 <= Len(buf) + 1
      BY <1>5, <2>1 DEF Sits
    <3> QED BY <3>1, <3>2
  <2>3. at + w <= Len(buf)
    BY <1>3, <2>1 DEF Sits
  <2>4. SubSeq(buf, at + 1, at + w) = e
    <3>1. at + w \in Int /\ at + w = at + 1 + w - 1
      BY <1>1
    <3>2. PICK to \in Int : to = at + w /\ to = at + 1 + w - 1
      BY <3>1, Zenon
    <3>3. PICK k : k = at + 1
      OBVIOUS
    <3>4. SubSeq(buf, k, to) = e
      <4>1. Sits(buf, k, e)
        BY <2>1, <3>3
      <4>2. SubSeq(buf, k, k + Len(e) - 1) = e
        BY <4>1, PartIs
      <4>3. k + Len(e) - 1 = to
        BY <1>3, <3>2, <3>3
      <4> QED BY <4>2, <4>3
    <3> QED BY <3>2, <3>3, <3>4
  <2>5. HeadWidth(info) = w
    <3>1. ~ (info < 24)
      OBVIOUS
    <3> QED BY <1>0, <3>1 DEF HeadWidth
  <2>6. HeadFits(buf, at)
    <3>1. buf[at] % 32 = info /\ info <= 27
      BY <1>2, <2>2
    <3> QED BY <2>2, <2>3, <2>5, <3>1, Zenon DEF HeadFits
  <2>7. w # 0
    BY <1>1
  <2>8. /\ HeadAt(buf, at).major = buf[at] \div 32 /\ HeadAt(buf, at).next = at + 1 + HeadWidth(buf[at] % 32)
        /\ HeadAt(buf, at).arg = IF HeadWidth(buf[at] % 32) = 0 THEN buf[at] % 32
                                 ELSE Argument(SubSeq(buf, at + 1, at + HeadWidth(buf[at] % 32)))
    BY DEF HeadAt
  <2> QED BY <1>2, <1>3, <2>2, <2>4, <2>5, <2>6, <2>7, <2>8 DEF IsHead
<1>8. Len(Headed(major, info, n)) = 1 + w /\ Headed(major, info, n) \in Seq(Byte) /\ 1 + w \in 1..9
  BY <1>1, <1>4, <1>6
<1>9. \A at \in Nat : at + 1 + w = at + (1 + w)
  BY <1>1
<1> QED BY <1>4, <1>7, <1>8, <1>9 DEF HeadOf

\* What stands for a number on the wire.
Seen(n) == IF n < Huge THEN n ELSE Huge

\* cbor::head is read back, at 24, 256, 65536 and beyond (p2p.rs 60-79).
LEMMA LeadRead ==
    ASSUME NEW major \in 0..7, NEW n \in Nat
    PROVE  HeadOf(Lead(major, n), major, Seen(n))
<1>1. CASE n < 24
  <2>1. PICK b \in Byte : b = 32 * major + n /\ b \div 32 = major /\ b % 32 = n
    <3>1. n \in 0..31
      BY <1>1
    <3> QED BY <3>1, LeadingByte
  <2>2. Lead(major, n) = <<b>>
    BY <1>1, <2>1 DEF Lead
  <2>3. <<b>> \in Seq(Byte) /\ Len(<<b>>) = 1 /\ <<b>>[1] = b
    OBVIOUS
  <2>4. ASSUME NEW buf \in Seq(Byte), NEW at \in Nat, Sits(buf, at, <<b>>)
        PROVE  IsHead(buf, at, major, at + 1, n)
    <3>1. buf[at + 1 - 1] = b /\ at >= 1 /\ at + 1 <= Len(buf) + 1
      BY <2>3, <2>4 DEF Sits
    <3>2. buf[at] = b /\ at \in DOMAIN buf /\ at + 0 <= Len(buf)
      BY <3>1
    <3>3. HeadWidth(n) = 0
      BY <1>1 DEF HeadWidth
    <3>4. HeadFits(buf, at)
      BY <1>1, <2>1, <3>2, <3>3 DEF HeadFits
    <3>5. /\ HeadAt(buf, at).major = buf[at] \div 32
          /\ HeadAt(buf, at).next = at + 1 + HeadWidth(buf[at] % 32)
          /\ HeadAt(buf, at).arg = IF HeadWidth(buf[at] % 32) = 0 THEN buf[at] % 32
                                   ELSE Argument(SubSeq(buf, at + 1, at + HeadWidth(buf[at] % 32)))
      BY DEF HeadAt
    <3>6. at + 1 + 0 = at + 1
      OBVIOUS
    <3> QED BY <2>1, <3>2, <3>3, <3>4, <3>5, <3>6 DEF IsHead
  <2>5. Seen(n) = n
    BY <1>1, HugeIs DEF Seen
  <2> QED BY <2>2, <2>3, <2>4, <2>5 DEF HeadOf
<1>2. CASE ~ (n < 24)
  <2>1. ASSUME NEW info \in 24..27, Lead(major, n) = Headed(major, info, n),
               Spelt(n, Width[info - 23], Seen(n))
        PROVE  HeadOf(Lead(major, n), major, Seen(n))
    BY <2>1, HeadedRead
  <2>2. Width[24 - 23] = 1 /\ Width[25 - 23] = 2 /\ Width[26 - 23] = 4 /\ Width[27 - 23] = 8
    BY DEF Width
  <2>3. CASE n < 256
    <3>1. n < Huge
      BY <2>3, HugeIs
    <3>2. Spelt(n, 1, Seen(n))
      BY <2>3, <3>1, ArgumentOf1 DEF Spelt, Seen
    <3>3. Lead(major, n) = Headed(major, 24, n)
      BY <1>2, <2>3 DEF Lead
    <3> QED BY <2>1, <2>2, <3>2, <3>3
  <2>4. CASE ~ (n < 256) /\ n < 256 * 256
    <3>1. n < Huge
      BY <2>4, HugeIs
    <3>2. Spelt(n, 2, Seen(n))
      BY <2>4, <3>1, ArgumentOf2 DEF Spelt, Seen
    <3>3. Lead(major, n) = Headed(major, 25, n)
      BY <1>2, <2>4 DEF Lead
    <3> QED BY <2>1, <2>2, <3>2, <3>3
  <2>5. CASE ~ (n < 256) /\ ~ (n < 256 * 256) /\ n < Huge
    <3>1. Spelt(n, 4, Seen(n))
      BY <2>5, ArgumentOf4 DEF Spelt, Seen
    <3>2. Lead(major, n) = Headed(major, 26, n)
      BY <1>2, <2>5 DEF Lead
    <3> QED BY <2>1, <2>2, <3>1, <3>2
  <2>6. CASE ~ (n < 256) /\ ~ (n < 256 * 256) /\ ~ (n < Huge)
    <3>0. n >= Huge
      BY <2>6, HugeIs
    <3>1. Spelt(n, 8, Seen(n))
      BY <2>6, <3>0, ArgumentOf8 DEF Spelt, Seen
    <3>2. Lead(major, n) = Headed(major, 27, n)
      BY <1>2, <2>6 DEF Lead
    <3> QED BY <2>1, <2>2, <3>1, <3>2
  <2> QED BY <2>3, <2>4, <2>5, <2>6
<1> QED BY <1>1, <1>2

-----------------------------------------------------------------------------
(* Items, read back.                                                         *)

Items1(buf, at, d) == OneItem(Read(buf), buf, HeadAt(buf, at), d)

LEMMA ReadNothing ==
    ASSUME NEW buf \in Seq(Byte), NEW at \in Nat, NEW d \in Nat
    PROVE  Read(buf)[TaskOf(0, at, d)] = {[value |-> <<>>, next |-> at]}
<1>1. PICK t \in Task : t = TaskOf(0, at, d) /\ t.count = 0 /\ t.at = at
  BY TaskIs
<1>2. Read(buf)[t] = Reading(Read(buf), buf, t)
  BY ReadAt
<1> QED BY <1>1, <1>2, ReadingAt

LEMMA ReadStep ==
    ASSUME NEW buf \in Seq(Byte), NEW m \in Nat, NEW n \in Nat, m = n + 1, NEW at \in Nat, NEW d \in Nat, NEW r
    PROVE  r \in Read(buf)[TaskOf(m, at, d)] <=>
             /\ d <= MaxDepth /\ HeadFits(buf, at)
             /\ \E i \in Items1(buf, at, d) : \E rest \in Read(buf)[TaskOf(n, i.next, d)] : r = Joined2(i, rest)
<1> DEFINE f == Read(buf)
<1>0. m - 1 = n /\ m > 0
  OBVIOUS
<1>1. PICK t \in Task : t = TaskOf(m, at, d) /\ t.count = m /\ t.at = at /\ t.depth = d
  BY TaskIs
<1>2. f[t] = Reading(f, buf, t)
  BY ReadAt
<1>3. MaxDepth \in Nat
  BY CborAssumption
<1>4. CASE Reads(t, buf)
  <2>1. d <= MaxDepth /\ HeadFits(buf, at)
    BY <1>1, <1>3, <1>4 DEF Reads
  <2>2. r \in Reading(f, buf, t) <=>
          \E i \in OneItem(f, buf, HeadAt(buf, t.at), t.depth) :
             \E rest \in f[TaskOf(t.count - 1, i.next, t.depth)] : r = Joined2(i, rest)
    BY <1>4, ReadingAt
  <2> QED BY <1>0, <1>1, <1>2, <2>1, <2>2 DEF Items1
<1>5. CASE ~ Reads(t, buf)
  <2>1. Reading(f, buf, t) = {}
    BY <1>0, <1>1, <1>5, ReadingAt
  <2>2. ~ (d <= MaxDepth /\ HeadFits(buf, at))
    BY <1>0, <1>1, <1>3, <1>5 DEF Reads
  <2> QED BY <1>0, <1>1, <1>2, <2>1, <2>2
<1> QED BY <1>4, <1>5

\* An item ends behind where it begins.
LEMMA ItemsEnd ==
    ASSUME NEW buf \in Seq(Byte), NEW at \in Nat, NEW d \in Nat, d <= MaxDepth, HeadFits(buf, at)
    PROVE  Ends(Items1(buf, at, d), at)
<1>1. PICK t \in Task : t = TaskOf(1, at, d) /\ t.count = 1 /\ t.at = at /\ t.depth = d
  BY TaskIs
<1>2. Reads(t, buf)
  BY <1>1, CborAssumption DEF Reads
<1>3. PICK h : h = HeadAt(buf, at)
  OBVIOUS
<1>4. PICK u : u = TaskOf(Inside(h), h.next, d + 1)
  OBVIOUS
<1>5. /\ h.next \in (at + 1)..(Len(buf) + 1) /\ h.arg \in Nat /\ u.at = h.next /\ u \in Task
  BY <1>1, <1>2, <1>3, <1>4, InsideSmaller DEF Below
<1>6. Ends(Read(buf)[u], h.next)
  BY <1>5, ReadAt
<1>7. CASE h.major \notin {4, 5}
  <2>1. ASSUME NEW i \in Leaf(buf, h) PROVE i.next \in Nat /\ i.next >= at
    <3>1. h.next \in 1..(Len(buf) + 1)
      BY <1>5
    <3>2. i.next \in h.next..(Len(buf) + 1)
      BY <1>5, <3>1, LeafRange
    <3> QED BY <1>5, <3>2
  <2> QED BY <1>3, <1>7, <2>1, OneItemAt DEF Ends, Items1
<1>8. CASE h.major \in {4, 5}
  <2>1. \A i \in Items1(buf, at, d) : \E c \in Read(buf)[u] : i.next = c.next
    BY <1>3, <1>4, <1>8, OneItemAt DEF Items1
  <2> QED BY <1>5, <1>6, <2>1 DEF Ends
<1> QED BY <1>7, <1>8

\* One item.
LEMMA ReadOne ==
    ASSUME NEW buf \in Seq(Byte), NEW at \in Nat, NEW d \in Nat, NEW v, NEW next \in Nat,
           d <= MaxDepth, HeadFits(buf, at), [value |-> v, next |-> next] \in Items1(buf, at, d)
    PROVE  [value |-> <<v>>, next |-> next] \in Read(buf)[TaskOf(1, at, d)]
<1>1. PICK i \in Items1(buf, at, d) : i = [value |-> v, next |-> next]
  OBVIOUS
<1>2. PICK rest : rest = [value |-> <<>>, next |-> next]
  OBVIOUS
<1>3. rest \in Read(buf)[TaskOf(0, i.next, d)]
  BY <1>1, <1>2, ReadNothing
<1>4. Joined2(i, rest) = [value |-> <<v>>, next |-> next]
  BY <1>1, <1>2 DEF Joined2
<1>5. PICK m \in Nat, n \in Nat : m = 1 /\ n = 0 /\ m = n + 1
  OBVIOUS
<1>6. Joined2(i, rest) \in Read(buf)[TaskOf(m, at, d)]
  BY <1>1, <1>3, <1>5, ReadStep
<1> QED BY <1>4, <1>5, <1>6

LEMMA ReadBack ==
    ASSUME NEW buf \in Seq(Byte), NEW m \in Nat, NEW n \in Nat, m = n + 1, NEW at \in Nat, NEW d \in Nat,
           NEW r \in Read(buf)[TaskOf(m, at, d)]
    PROVE  /\ d <= MaxDepth /\ HeadFits(buf, at)
           /\ \E i \in Items1(buf, at, d) : \E rest \in Read(buf)[TaskOf(n, i.next, d)] : r = Joined2(i, rest)
<1>1. r \in Read(buf)[TaskOf(m, at, d)] <=>
             /\ d <= MaxDepth /\ HeadFits(buf, at)
             /\ \E i \in Items1(buf, at, d) : \E rest \in Read(buf)[TaskOf(n, i.next, d)] : r = Joined2(i, rest)
  BY ReadStep
<1> QED BY <1>1

\* An item with this value is read there.
ItemFound(buf, at, d, v, next) == \E i \in Items1(buf, at, d) : i.value = v /\ i.next = next

LEMMA OneRead ==
    ASSUME NEW buf \in Seq(Byte), NEW at \in Nat, NEW d \in Nat, NEW v, NEW next,
           [value |-> <<v>>, next |-> next] \in Read(buf)[TaskOf(1, at, d)]
    PROVE  /\ d <= MaxDepth /\ HeadFits(buf, at)
           /\ ItemFound(buf, at, d, v, next)
<1>r. PICK r : r = [value |-> <<v>>, next |-> next]
  OBVIOUS
<1>0. PICK m \in Nat, n \in Nat : m = 1 /\ n = 0 /\ m = n + 1
  OBVIOUS
<1>1. r \in Read(buf)[TaskOf(m, at, d)]
  BY <1>0, <1>r
<1>2. /\ d <= MaxDepth /\ HeadFits(buf, at)
      /\ \E i \in Items1(buf, at, d) : \E rest \in Read(buf)[TaskOf(0, i.next, d)] : r = Joined2(i, rest)
  <2>1. /\ d <= MaxDepth /\ HeadFits(buf, at)
        /\ \E i \in Items1(buf, at, d) : \E rest \in Read(buf)[TaskOf(n, i.next, d)] : r = Joined2(i, rest)
    BY <1>0, <1>1, ReadBack
  <2> QED BY <1>0, <2>1, Zenon
<1>3. PICK i \in Items1(buf, at, d) : \E rest \in Read(buf)[TaskOf(0, i.next, d)] : r = Joined2(i, rest)
  BY <1>2
<1>4. PICK rest \in Read(buf)[TaskOf(0, i.next, d)] : r = Joined2(i, rest)
  BY <1>3
<1>5. i.next \in Nat
  <2>1. Ends(Items1(buf, at, d), at)
    BY <1>2, ItemsEnd
  <2> QED BY <2>1 DEF Ends
<1>6. rest = [value |-> <<>>, next |-> i.next]
  BY <1>4, <1>5, ReadNothing
<1>7. <<i.value>> \o <<>> = <<v>> /\ i.next = next
  BY <1>4, <1>6, <1>r DEF Joined2
<1>8. i.value = v
  BY <1>7
<1> QED BY <1>2, <1>7, <1>8 DEF ItemFound

\* e spells the values, none of which nests deeper than k levels below its own:
\* where these bytes sit in a frame, these values are read.  A frame is shorter
\* than Huge.
Spells(e, vals, k) ==
    /\ e \in Seq(Byte) /\ k \in Nat /\ Len(vals) \in Nat /\ Len(e) >= Len(vals)
    /\ \A buf \in Seq(Byte), at \in Nat, d \in Nat :
          Len(buf) < Huge /\ Sits(buf, at, e) /\ d + k <= MaxDepth =>
             [value |-> vals, next |-> at + Len(e)] \in Read(buf)[TaskOf(Len(vals), at, d)]

LEMMA SpellsNothing == ASSUME NEW k \in Nat PROVE Spells(<<>>, <<>>, k)
<1>1. <<>> \in Seq(Byte) /\ Len(<<>>) = 0
  OBVIOUS
<1>2. \A buf \in Seq(Byte), at \in Nat, d \in Nat :
         [value |-> <<>>, next |-> at + 0] \in Read(buf)[TaskOf(0, at, d)]
  BY ReadNothing
<1> QED BY <1>1, <1>2 DEF Spells

LEMMA SpellsDeeper ==
    ASSUME NEW e, NEW vals, NEW k \in Nat, NEW l \in Nat, k <= l, Spells(e, vals, k)
    PROVE  Spells(e, vals, l)
<1>1. \A d \in Nat : d + l <= MaxDepth => d + k <= MaxDepth
  BY CborAssumption
<1> QED BY <1>1 DEF Spells

\* An item and what follows it.
LEMMA SpellsThen ==
    ASSUME NEW e, NEW f, NEW v, NEW vals, NEW k \in Nat,
           Spells(e, <<v>>, k), Spells(f, vals, k), NEW all, all = <<v>> \o vals, Len(all) = Len(vals) + 1
    PROVE  Spells(e \o f, all, k)
<1>0. e \in Seq(Byte) /\ f \in Seq(Byte) /\ Len(vals) \in Nat /\ Len(<<v>>) = 1
  BY DEF Spells
<1>1. e \o f \in Seq(Byte) /\ Len(e \o f) = Len(e) + Len(f)
  BY <1>0
<1>2. Len(e \o f) >= Len(all) /\ Len(all) \in Nat
  BY <1>0, <1>1 DEF Spells
<1>3. ASSUME NEW buf \in Seq(Byte), NEW at \in Nat, NEW d \in Nat,
             Len(buf) < Huge, Sits(buf, at, e \o f), d + k <= MaxDepth
      PROVE  [value |-> all, next |-> at + Len(e \o f)] \in Read(buf)[TaskOf(Len(all), at, d)]
  <2>1. Sits(buf, at, e) /\ Sits(buf, at + Len(e), f)
    BY <1>0, <1>3, SitsJoin
  <2>a. at + Len(e) \in Nat /\ at + Len(e) + Len(f) \in Nat
    BY <1>0
  <2>b. PICK mid \in Nat : mid = at + Len(e)
    BY <2>a, Zenon
  <2>c. PICK end \in Nat : end = mid + Len(f)
    BY <2>a, <2>b, Zenon
  <2>2. mid = at + Len(e) /\ end = mid + Len(f) /\ end = at + Len(e \o f)
    BY <1>0, <1>1, <2>b, <2>c
  <2>3. [value |-> <<v>>, next |-> mid] \in Read(buf)[TaskOf(1, at, d)]
    BY <1>0, <1>3, <2>1, <2>2 DEF Spells
  <2>4. [value |-> vals, next |-> end] \in Read(buf)[TaskOf(Len(vals), mid, d)]
    BY <1>0, <1>3, <2>1, <2>2 DEF Spells
  <2>5. d <= MaxDepth /\ HeadFits(buf, at) /\ ItemFound(buf, at, d, v, mid)
    BY <2>3, OneRead
  <2>6. PICK i \in Items1(buf, at, d) : i.value = v /\ i.next = mid
    BY <2>5, Zenon DEF ItemFound
  <2>7. PICK rest : rest = [value |-> vals, next |-> end]
    OBVIOUS
  <2>8. PICK m \in Nat, n \in Nat : m = Len(all) /\ n = Len(vals) /\ m = n + 1
    BY <1>0
  <2>9. rest \in Read(buf)[TaskOf(n, i.next, d)]
    BY <2>4, <2>6, <2>7, <2>8
  <2>10. Joined2(i, rest) \in Read(buf)[TaskOf(m, at, d)]
    BY <2>5, <2>8, <2>9, ReadStep
  <2>11. Joined2(i, rest) = [value |-> all, next |-> at + Len(e \o f)]
    BY <2>2, <2>6, <2>7 DEF Joined2
  <2> QED BY <2>8, <2>10, <2>11
<1> QED BY <1>1, <1>2, <1>3 DEF Spells

\* The item that a head of this major type and number makes with the payload
\* after it is v.
Makes(major, n, body, v, k) ==
    \A buf \in Seq(Byte), at \in Nat, d \in Nat, next \in Nat :
       /\ Len(buf) < Huge /\ d + k <= MaxDepth /\ Sits(buf, next, body)
       /\ HeadAt(buf, at).major = major /\ HeadAt(buf, at).next = next
       /\ HeadAt(buf, at).arg = Seen(n)
       => [value |-> v, next |-> next + Len(body)] \in Items1(buf, at, d)

LEMMA SpellsHead ==
    ASSUME NEW major \in 0..7, NEW n \in Nat, NEW body \in Seq(Byte), NEW v, NEW k \in Nat,
           Makes(major, n, body, v, k)
    PROVE  Spells(Lead(major, n) \o body, <<v>>, k)
<1>1. PICK e : e = Lead(major, n)
  OBVIOUS
<1>2. HeadOf(e, major, Seen(n))
  BY <1>1, LeadRead
<1>3. e \in Seq(Byte) /\ Len(e) \in 1..9
  BY <1>2 DEF HeadOf
<1>4. e \o body \in Seq(Byte) /\ Len(e \o body) = Len(e) + Len(body) /\ Len(e \o body) >= 1 /\ Len(<<v>>) = 1
  <2>1. e \o body \in Seq(Byte) /\ Len(e \o body) = Len(e) + Len(body) /\ Len(<<v>>) = 1
    BY <1>3
  <2>2. Len(e) + Len(body) >= 1
    <3>1. Len(body) \in Nat
      OBVIOUS
    <3>2. \A m \in 1..9, l \in Nat : m + l >= 1
      OBVIOUS
    <3> QED BY <1>3, <3>1, <3>2
  <2> QED BY <2>1, <2>2
<1>5. ASSUME NEW buf \in Seq(Byte), NEW at \in Nat, NEW d \in Nat,
             Len(buf) < Huge, Sits(buf, at, e \o body), d + k <= MaxDepth
      PROVE  [value |-> <<v>>, next |-> at + Len(e \o body)] \in Read(buf)[TaskOf(1, at, d)]
  <2>a. at + Len(e) \in Nat /\ at + Len(e) + Len(body) \in Nat
    BY <1>3
  <2>b. PICK next \in Nat : next = at + Len(e)
    BY <2>a, Zenon
  <2>c. PICK end \in Nat : end = next + Len(body)
    BY <2>a, <2>b, Zenon
  <2>1. next = at + Len(e) /\ end = next + Len(body) /\ end = at + Len(e \o body)
    BY <1>3, <1>4, <2>b, <2>c
  <2>2. Sits(buf, at, e) /\ Sits(buf, next, body)
    BY <1>3, <1>5, <2>1, SitsJoin
  <2>3. IsHead(buf, at, major, next, Seen(n))
    BY <1>2, <2>1, <2>2 DEF HeadOf
  <2>4. [value |-> v, next |-> end] \in Items1(buf, at, d)
    BY <1>5, <2>1, <2>2, <2>3 DEF IsHead, Makes
  <2>5. d <= MaxDepth
    BY <1>5, CborAssumption
  <2>6. HeadFits(buf, at)
    BY <2>3 DEF IsHead
  <2> QED BY <2>1, <2>4, <2>5, <2>6, ReadOne
<1> QED BY <1>1, <1>4, <1>5 DEF Spells

\* The encoders of src/p2p.rs: uint, bytes, text, an array, a map.
LEMMA SpellsUint ==
    ASSUME NEW n \in Nat
    PROVE  Spells(Uint(n), <<Number(Seen(n))>>, 0)
<1>1. ASSUME NEW buf \in Seq(Byte), NEW at \in Nat, NEW d \in Nat, NEW next \in Nat,
             HeadAt(buf, at).major = 0, HeadAt(buf, at).next = next, HeadAt(buf, at).arg = Seen(n)
      PROVE  [value |-> Number(Seen(n)), next |-> next + Len(<<>>)] \in Items1(buf, at, d)
  <2>1. PICK h : h = HeadAt(buf, at)
    OBVIOUS
  <2>2. Items1(buf, at, d) = Leaf(buf, h)
    BY <1>1, <2>1, OneItemAt DEF Items1
  <2>3. PICK payload : payload = SubSeq(buf, h.next, h.next + h.arg - 1)
    OBVIOUS
  <2>4. Leaf(buf, h) = {[value |-> Number(Seen(n)), next |-> next]}
    BY <1>1, <2>1, <2>3, LeafIs
  <2>5. next + Len(<<>>) = next
    OBVIOUS
  <2> QED BY <2>2, <2>4, <2>5
<1>2. PICK major, k, none : major = 0 /\ k = 0 /\ none = <<>> /\ major \in 0..7 /\ k \in Nat /\ none \in Seq(Byte)
  <2>1. 0 \in 0..7 /\ 0 \in Nat /\ <<>> \in Seq(Byte)
    OBVIOUS
  <2> QED BY <2>1, Zenon
<1>3. Makes(major, n, none, Number(Seen(n)), k)
  <2>1. Makes(0, n, <<>>, Number(Seen(n)), 0)
    BY <1>1, Zenon DEF Makes
  <2> QED BY <1>2, <2>1, Zenon
<1>7. Spells(Lead(major, n) \o none, <<Number(Seen(n))>>, k)
  BY <1>2, <1>3, SpellsHead
<1>6. Spells(Lead(0, n) \o <<>>, <<Number(Seen(n))>>, 0)
  BY <1>2, <1>7
<1>4. Lead(0, n) \in Seq(Byte)
  BY LeadRead DEF HeadOf
<1>5. Lead(0, n) \o <<>> = Lead(0, n)
  BY <1>4
<1> QED BY <1>5, <1>6 DEF Uint

LeafSays(buf, h, v, end) == Leaf(buf, h) = {[value |-> v, next |-> end]}

LEMMA LeafPayload ==
    ASSUME NEW buf, NEW h, NEW end, end = h.next + h.arg, end <= Len(buf) + 1,
           NEW to, to = h.next + h.arg - 1, NEW b, b = SubSeq(buf, h.next, to)
    PROVE  /\ h.major = 2 => LeafSays(buf, h, String(Hex(b)), end)
           /\ h.major = 3 /\ Ascii(b) => LeafSays(buf, h, String(b), end)
<1>1. ASSUME h.major = 2 PROVE LeafSays(buf, h, String(Hex(b)), end)
  BY <1>1 DEF Leaf, Some, LeafSays
<1>2. ASSUME h.major = 3, Ascii(b) PROVE LeafSays(buf, h, String(b), end)
  BY <1>2 DEF Leaf, Some, LeafSays
<1> QED BY <1>1, <1>2

\* A payload that follows its head.
LEMMA PayloadRead ==
    ASSUME NEW b \in Seq(Byte), NEW buf \in Seq(Byte), NEW at \in Nat, NEW next \in Nat,
           Len(buf) < Huge, Sits(buf, next, b),
           HeadAt(buf, at).next = next, HeadAt(buf, at).arg = Seen(Len(b))
    PROVE  LET h == HeadAt(buf, at) IN
           /\ b = SubSeq(buf, h.next, h.next + h.arg - 1) /\ h.next + h.arg = next + Len(b)
           /\ h.next + h.arg <= Len(buf) + 1
<1>1. Len(b) \in Nat /\ next + Len(b) <= Len(buf) + 1 /\ next >= 1
  BY DEF Sits
<1>2. Len(b) < Huge
  BY <1>1, HugeIs
<1>3. HeadAt(buf, at).arg = Len(b)
  BY <1>2 DEF Seen
<1>4. SubSeq(buf, next, next + Len(b) - 1) = b
  BY PartIs
<1> QED BY <1>1, <1>3, <1>4

LEMMA SpellsBytes ==
    ASSUME NEW b \in Seq(Byte)
    PROVE  Spells(Bytes(b), <<String(Hex(b))>>, 0)
<1>1. ASSUME NEW buf \in Seq(Byte), NEW at \in Nat, NEW d \in Nat, NEW next \in Nat, Len(buf) < Huge,
             Sits(buf, next, b),
             HeadAt(buf, at).major = 2, HeadAt(buf, at).next = next, HeadAt(buf, at).arg = Seen(Len(b))
      PROVE  [value |-> String(Hex(b)), next |-> next + Len(b)] \in Items1(buf, at, d)
  <2>1. PICK h : h = HeadAt(buf, at)
    OBVIOUS
  <2>2. Items1(buf, at, d) = Leaf(buf, h)
    BY <1>1, <2>1, OneItemAt DEF Items1
  <2>3. b = SubSeq(buf, h.next, h.next + h.arg - 1) /\ h.next + h.arg = next + Len(b) /\ h.next + h.arg <= Len(buf) + 1
    BY <1>1, <2>1, PayloadRead
  <2>4. PICK end : end = next + Len(b)
    OBVIOUS
  <2>5. LeafSays(buf, h, String(Hex(b)), end)
    <3>1. end = h.next + h.arg /\ end <= Len(buf) + 1 /\ h.major = 2
      BY <1>1, <2>1, <2>3, <2>4
    <3>2. PICK to : to = h.next + h.arg - 1
      OBVIOUS
    <3>3. b = SubSeq(buf, h.next, to)
      BY <2>3, <3>2
    <3> QED BY <3>1, <3>2, <3>3, LeafPayload
  <2> QED BY <2>2, <2>4, <2>5 DEF LeafSays
<1>2. Makes(2, Len(b), b, String(Hex(b)), 0)
  BY <1>1 DEF Makes
<1>3. Spells(Lead(2, Len(b)) \o b, <<String(Hex(b))>>, 0)
  BY <1>2, SpellsHead
<1> QED BY <1>3 DEF Bytes

\* Text of the program is ASCII here.
LEMMA SpellsText ==
    ASSUME NEW s \in Seq(Byte), Ascii(s)
    PROVE  Spells(Text(s), <<String(s)>>, 0)
<1>1. ASSUME NEW buf \in Seq(Byte), NEW at \in Nat, NEW d \in Nat, NEW next \in Nat, Len(buf) < Huge,
             Sits(buf, next, s),
             HeadAt(buf, at).major = 3, HeadAt(buf, at).next = next, HeadAt(buf, at).arg = Seen(Len(s))
      PROVE  [value |-> String(s), next |-> next + Len(s)] \in Items1(buf, at, d)
  <2>1. PICK h : h = HeadAt(buf, at)
    OBVIOUS
  <2>2. Items1(buf, at, d) = Leaf(buf, h)
    BY <1>1, <2>1, OneItemAt DEF Items1
  <2>3. s = SubSeq(buf, h.next, h.next + h.arg - 1) /\ h.next + h.arg = next + Len(s) /\ h.next + h.arg <= Len(buf) + 1
    BY <1>1, <2>1, PayloadRead
  <2>4. PICK end : end = next + Len(s)
    OBVIOUS
  <2>5. LeafSays(buf, h, String(s), end)
    <3>1. end = h.next + h.arg /\ end <= Len(buf) + 1 /\ h.major = 3
      BY <1>1, <2>1, <2>3, <2>4
    <3>2. PICK to : to = h.next + h.arg - 1
      OBVIOUS
    <3>3. s = SubSeq(buf, h.next, to)
      BY <2>3, <3>2
    <3> QED BY <3>1, <3>2, <3>3, LeafPayload
  <2> QED BY <2>2, <2>4, <2>5 DEF LeafSays
<1>2. Makes(3, Len(s), s, String(s), 0)
  BY <1>1 DEF Makes
<1>3. Spells(Lead(3, Len(s)) \o s, <<String(s)>>, 0)
  BY <1>2, SpellsHead
<1> QED BY <1>3 DEF Text

\* A container: n is the number its head says.
LEMMA SpellsContainer ==
    ASSUME NEW major \in {4, 5}, NEW f, NEW vals, NEW n \in Nat, NEW k \in Nat, Spells(f, vals, k),
           Len(vals) = (IF major = 4 THEN n ELSE 2 * n)
    PROVE  Spells(Lead(major, n) \o f, <<IF major = 4 THEN List(vals) ELSE Object(AsMap(vals))>>, k + 1)
<1> DEFINE v == IF major = 4 THEN List(vals) ELSE Object(AsMap(vals))
<1>0. f \in Seq(Byte) /\ Len(f) >= Len(vals) /\ n <= Len(vals) /\ major \in 0..7
  BY DEF Spells
<1>1. ASSUME NEW buf \in Seq(Byte), NEW at \in Nat, NEW d \in Nat, NEW next \in Nat, Len(buf) < Huge,
             d + (k + 1) <= MaxDepth, Sits(buf, next, f),
             HeadAt(buf, at).major = major, HeadAt(buf, at).next = next, HeadAt(buf, at).arg = Seen(n)
      PROVE  [value |-> v, next |-> next + Len(f)] \in Items1(buf, at, d)
  <2>1. PICK h : h = HeadAt(buf, at)
    OBVIOUS
  <2>2. Len(f) <= Len(buf) /\ n < Huge
    <3>1. next + Len(f) <= Len(buf) + 1 /\ next >= 1
      BY <1>1 DEF Sits
    <3> QED BY <1>0, <1>1, <3>1, HugeIs
  <2>3. h.arg = n /\ Inside(h) = Len(vals)
    BY <1>1, <2>1, <2>2 DEF Seen, Inside
  <2>4. PICK e \in Nat : e = d + 1 /\ e + k <= MaxDepth
    <3>1. d + 1 \in Nat /\ d + 1 + k <= MaxDepth
      BY <1>1, CborAssumption
    <3> QED BY <3>1, Zenon
  <2>5. [value |-> vals, next |-> next + Len(f)] \in Read(buf)[TaskOf(Len(vals), next, e)]
    BY <1>1, <2>4 DEF Spells
  <2>6. PICK c \in Read(buf)[TaskOf(Inside(h), h.next, d + 1)] : c = [value |-> vals, next |-> next + Len(f)]
    BY <1>1, <2>1, <2>3, <2>4, <2>5
  <2>7. [value |-> IF h.major = 4 THEN List(c.value) ELSE Object(AsMap(c.value)), next |-> c.next]
          \in OneItem(Read(buf), buf, h, d)
    BY <1>1, <2>1, <2>6, OneItemAt
  <2>8. c.value = vals /\ c.next = next + Len(f) /\ h.major = major
    BY <1>1, <2>1, <2>6
  <2> QED BY <2>1, <2>7, <2>8 DEF Items1
<1> HIDE DEF v
<1>2. k + 1 \in Nat
  OBVIOUS
<1>3. Makes(major, n, f, v, k + 1)
  BY <1>1 DEF Makes
<1>4. Spells(Lead(major, n) \o f, <<v>>, k + 1)
  BY <1>0, <1>2, <1>3, SpellsHead
<1> QED BY <1>4 DEF v

-----------------------------------------------------------------------------
(* Sequences of items. *)

\* The values of items read in a frame.
ValuesOf(buf) == UNION {{i.value : i \in Items1(buf, t.at, t.depth)} : t \in {s \in Task : HeadFits(buf, s.at)}}

\* As many values are read as are asked for.
LEMMA ReadLength ==
    ASSUME NEW buf \in Seq(Byte), NEW t \in Task, NEW r \in Read(buf)[t]
    PROVE  r.value \in Seq(ValuesOf(buf)) /\ Len(r.value) = t.count /\ r = [value |-> r.value, next |-> r.next]
<1> DEFINE V == ValuesOf(buf)
           S == {s \in Task : \A c \in Read(buf)[s] : c.value \in Seq(V) /\ Len(c.value) = s.count}
<1>1. ASSUME NEW s \in Task, \A u : Below(s, u) => u \in S PROVE s \in S
  <2> SUFFICES ASSUME NEW c \in Read(buf)[s] PROVE c.value \in Seq(V) /\ Len(c.value) = s.count
    OBVIOUS
  <2>0. Read(buf)[s] = Reading(Read(buf), buf, s) /\ s.count \in Nat /\ s.at \in Nat /\ s.depth \in Nat
    BY ReadAt, TaskParts
  <2>1. CASE s.count = 0
    <3>1. c = [value |-> <<>>, next |-> s.at]
      BY <2>0, <2>1, ReadingAt
    <3> QED BY <2>1, <3>1
  <2>2. CASE s.count > 0
    <3>1. Reads(s, buf)
      BY <2>0, <2>2, ReadingAt
    <3>2. PICK i \in Items1(buf, s.at, s.depth) :
               \E rest \in Read(buf)[TaskOf(s.count - 1, i.next, s.depth)] : c = Joined2(i, rest)
      BY <2>0, <3>1, ReadingAt DEF Items1
    <3>3. i.next \in Nat
      <4>1. s.depth <= MaxDepth /\ HeadFits(buf, s.at)
        BY <2>0, <3>1, CborAssumption DEF Reads
      <4>2. Ends(Items1(buf, s.at, s.depth), s.at)
        BY <2>0, <4>1, ItemsEnd
      <4> QED BY <4>2 DEF Ends
    <3>4. PICK u : u = TaskOf(s.count - 1, i.next, s.depth)
      OBVIOUS
    <3>5. PICK rest \in Read(buf)[u] : c = Joined2(i, rest)
      BY <3>2, <3>4
    <3>6. PICK n \in Nat : n = s.count - 1
      BY <2>0, <2>2
    <3>7. Below(s, u) /\ u.count = n
      <4>1. Below(s, u)
        BY <2>0, <3>1, <3>3, <3>4, RestSmaller
      <4>2. PICK at \in Nat, d \in Nat : at = i.next /\ d = s.depth
        BY <2>0, <3>3
      <4>3. u = TaskOf(n, at, d)
        BY <3>4, <3>6, <4>2
      <4>4. TaskOf(n, at, d).count = n
        BY TaskIs
      <4> QED BY <4>1, <4>3, <4>4
    <3>8. rest.value \in Seq(V) /\ Len(rest.value) = n
      BY <1>1, <3>5, <3>7
    <3>9. i.value \in V
      BY <3>1, <3>2 DEF ValuesOf, Reads
    <3> HIDE DEF V
    <3>10. <<i.value>> \o rest.value \in Seq(V) /\ Len(<<i.value>> \o rest.value) = n + 1
      <4>1. <<i.value>> \in Seq(V) /\ Len(<<i.value>>) = 1
        BY <3>9
      <4> QED BY <3>8, <4>1
    <3>11. c.value = <<i.value>> \o rest.value
      BY <3>5 DEF Joined2
    <3> QED BY <2>0, <3>6, <3>10, <3>11
  <2> QED BY <2>0, <2>1, <2>2
<1> HIDE DEF S
<1>2. \A s \in Task : s \in S
  BY <1>1, TaskInduction
<1>3. r = [value |-> r.value, next |-> r.next]
  <2>0. Read(buf)[t] = Reading(Read(buf), buf, t) /\ t.count \in Nat
    BY ReadAt, TaskParts
  <2>1. CASE t.count = 0
    <3>1. r = [value |-> <<>>, next |-> t.at]
      BY <2>0, <2>1, ReadingAt
    <3> QED BY <3>1
  <2>2. CASE t.count > 0
    <3>1. \E i, rest : r = Joined2(i, rest)
      BY <2>0, <2>2, ReadingAt
    <3> QED BY <3>1 DEF Joined2
  <2> QED BY <2>0, <2>1, <2>2
<1> QED BY <1>2, <1>3 DEF S

LEMMA ConcatOneMore ==
    ASSUME NEW V, NEW x \in V, NEW y \in Seq(V), NEW z \in Seq(V)
    PROVE  <<x>> \o (y \o z) = (<<x>> \o y) \o z
<1>1. <<x>> \in Seq(V) /\ Len(<<x>>) = 1
  OBVIOUS
<1> QED BY <1>1

\* What n items are read as, and then m.
LEMMA ReadJoin ==
    ASSUME NEW buf \in Seq(Byte), NEW k \in Nat, NEW m \in Nat, NEW d \in Nat, NEW start \in Nat,
           NEW a1, NEW mid1, [value |-> a1, next |-> mid1] \in Read(buf)[TaskOf(k, start, d)],
           NEW b, NEW end, [value |-> b, next |-> end] \in Read(buf)[TaskOf(m, mid1, d)]
    PROVE  [value |-> a1 \o b, next |-> end] \in Read(buf)[TaskOf(k + m, start, d)]
<1> DEFINE Joins(n) ==
             \A at \in Nat : \A a, mid :
                /\ [value |-> a, next |-> mid] \in Read(buf)[TaskOf(n, at, d)]
                /\ [value |-> b, next |-> end] \in Read(buf)[TaskOf(m, mid, d)]
                => [value |-> a \o b, next |-> end] \in Read(buf)[TaskOf(n + m, at, d)]
           S == {n \in Nat : Joins(n)}
<1>0. b \in Seq(ValuesOf(buf))
  <2>1. PICK t1 \in Task : t1 = TaskOf(k, start, d)
    BY TaskIs
  <2>2. PICK r1 \in Read(buf)[t1] : r1 = [value |-> a1, next |-> mid1]
    BY <2>1
  <2>3. mid1 \in Nat
    BY <2>2, ReadAt DEF Ends
  <2>4. PICK t \in Task : t = TaskOf(m, mid1, d)
    BY <2>3, TaskIs
  <2>5. PICK r \in Read(buf)[t] : r = [value |-> b, next |-> end]
    BY <2>4
  <2>6. r.value = b
    BY <2>5
  <2> QED BY <2>6, ReadLength
<1>1. 0 \in S
  <2> SUFFICES ASSUME NEW at \in Nat, NEW a, NEW mid,
                      [value |-> a, next |-> mid] \in Read(buf)[TaskOf(0, at, d)],
                      [value |-> b, next |-> end] \in Read(buf)[TaskOf(m, mid, d)]
               PROVE  [value |-> a \o b, next |-> end] \in Read(buf)[TaskOf(0 + m, at, d)]
    OBVIOUS
  <2>1. a = <<>> /\ mid = at
    BY ReadNothing
  <2>3. a \o b = b /\ 0 + m = m
    BY <1>0, <2>1
  <2> QED BY <2>1, <2>3
<1>2. ASSUME NEW n \in S PROVE n + 1 \in S
  <2> HIDE DEF Joins
  <2>0. n \in Nat /\ n + 1 \in Nat
    OBVIOUS
  <2>i. Joins(n)
    OBVIOUS
  <2> HIDE DEF S
  <2> SUFFICES Joins(n + 1)
    BY <2>0 DEF S
  <2> SUFFICES ASSUME NEW at \in Nat, NEW a, NEW mid,
                      [value |-> a, next |-> mid] \in Read(buf)[TaskOf(n + 1, at, d)],
                      [value |-> b, next |-> end] \in Read(buf)[TaskOf(m, mid, d)]
               PROVE  [value |-> a \o b, next |-> end] \in Read(buf)[TaskOf(n + 1 + m, at, d)]
    BY DEF Joins
  <2>a. n + 1 \in Nat /\ n + m \in Nat /\ n + 1 + m \in Nat /\ n + 1 + m = n + m + 1
    BY <2>0
  <2>b. PICK p \in Nat : p = n + 1
    BY <2>a, Zenon
  <2>c. PICK s \in Nat : s = n + m
    BY <2>a, Zenon
  <2>1. PICK q \in Nat : q = n + 1 + m /\ q = s + 1
    BY <2>a, <2>c, Zenon
  <2>2. PICK r : r = [value |-> a, next |-> mid]
    OBVIOUS
  <2>3. r \in Read(buf)[TaskOf(p, at, d)]
    BY <2>b, <2>2
  <2>4. /\ d <= MaxDepth /\ HeadFits(buf, at)
        /\ \E i \in Items1(buf, at, d) : \E rest \in Read(buf)[TaskOf(n, i.next, d)] : r = Joined2(i, rest)
    BY <2>0, <2>b, <2>3, ReadBack
  <2>5. PICK i \in Items1(buf, at, d) : \E rest \in Read(buf)[TaskOf(n, i.next, d)] : r = Joined2(i, rest)
    BY <2>4
  <2>6. i.next \in Nat
    BY <2>4, ItemsEnd DEF Ends
  <2>n. PICK nn \in Nat : nn = n
    BY <2>0, Zenon
  <2>7. PICK t \in Task : t = TaskOf(n, i.next, d) /\ t.count = n
    <3>1. TaskOf(nn, i.next, d) \in Task /\ TaskOf(nn, i.next, d).count = nn
      BY <2>6 DEF TaskOf, Task
    <3> QED BY <2>n, <3>1, Zenon
  <2>8. PICK rest \in Read(buf)[t] : r = Joined2(i, rest)
    BY <2>5, <2>7
  <2>9. /\ rest.value \in Seq(ValuesOf(buf)) /\ Len(rest.value) = n
        /\ rest = [value |-> rest.value, next |-> rest.next]
    BY <2>7, <2>8, ReadLength
  <2>10. a = <<i.value>> \o rest.value /\ rest.next = mid
    <3>1. r.value = a /\ r.next = mid
      BY <2>2
    <3>2. r.value = <<i.value>> \o rest.value /\ r.next = rest.next
      BY <2>8 DEF Joined2
    <3> QED BY <3>1, <3>2
  <2>11. [value |-> rest.value, next |-> mid] \in Read(buf)[TaskOf(n, i.next, d)]
    BY <2>7, <2>8, <2>9, <2>10
  <2>12. [value |-> rest.value \o b, next |-> end] \in Read(buf)[TaskOf(n + m, i.next, d)]
    BY <2>i, <2>6, <2>11 DEF Joins
  <2>13. PICK tail : tail = [value |-> rest.value \o b, next |-> end]
    OBVIOUS
  <2>14. tail \in Read(buf)[TaskOf(s, i.next, d)]
    BY <2>c, <2>12, <2>13
  <2>15. Joined2(i, tail) \in Read(buf)[TaskOf(q, at, d)]
    BY <2>1, <2>4, <2>14, ReadStep
  <2>16. <<i.value>> \o (rest.value \o b) = a \o b
    <3>1. i.value \in ValuesOf(buf)
      <4>1. PICK t1 \in Task : t1.at = at /\ t1.depth = d
        <5>1. TaskOf(p, at, d) \in Task /\ TaskOf(p, at, d).at = at /\ TaskOf(p, at, d).depth = d
          BY DEF TaskOf, Task
        <5> QED BY <5>1, Zenon
      <4> QED BY <2>4, <4>1 DEF ValuesOf
    <3>2. PICK V : V = ValuesOf(buf)
      OBVIOUS
    <3>3. PICK x \in V, y \in Seq(V), z \in Seq(V) : x = i.value /\ y = rest.value /\ z = b
      <4>1. i.value \in V /\ rest.value \in Seq(V) /\ b \in Seq(V)
        BY <1>0, <2>9, <3>1, <3>2, Zenon
      <4> QED BY <4>1, Zenon
    <3>4. <<x>> \o (y \o z) = (<<x>> \o y) \o z
      BY ConcatOneMore
    <3> QED BY <2>10, <3>3, <3>4, Zenon
  <2>17. Joined2(i, tail) = [value |-> a \o b, next |-> end]
    BY <2>13, <2>16 DEF Joined2
  <2> QED BY <2>1, <2>15, <2>17
<1> HIDE DEF S
<1>3. S = Nat
  <2>1. S \subseteq Nat
    BY DEF S
  <2> QED BY <1>1, <1>2, <2>1, Induction
<1>4. Joins(k)
  BY <1>3 DEF S
<1> QED BY <1>4

-----------------------------------------------------------------------------
(* Arrays and maps: encodings one after the other. *)

\* The partial concatenations of a sequence of byte sequences.
Partial(f, seqs, m) ==
    /\ f \in [1..m -> Seq(Byte)]
    /\ \A i \in 1..m : f[i] = IF i = 1 THEN seqs[i] ELSE f[i - 1] \o seqs[i]

LEMMA PartialMore ==
    ASSUME NEW seqs \in Seq(Seq(Byte)), NEW n \in Nat, n + 1 <= Len(seqs), NEW f, Partial(f, seqs, n)
    PROVE  \E g : Partial(g, seqs, n + 1)
<1>1. n + 1 \in 1..Len(seqs)
  OBVIOUS
<1>2. seqs[n + 1] \in Seq(Byte)
  BY <1>1
<1>3. n > 0 => n \in 1..n /\ f[n] \in Seq(Byte)
  BY DEF Partial
<1>4. PICK last \in Seq(Byte) : last = IF n = 0 THEN seqs[n + 1] ELSE f[n] \o seqs[n + 1]
  <2>1. CASE n = 0
    BY <1>2, <2>1
  <2>2. CASE n # 0
    <3>1. f[n] \o seqs[n + 1] \in Seq(Byte)
      BY <1>2, <1>3, <2>2
    <3> QED BY <2>2, <3>1
  <2> QED BY <2>1, <2>2
<1> DEFINE g == [i \in 1..(n + 1) |-> IF i = n + 1 THEN last ELSE f[i]]
<1>5. g \in [1..(n + 1) -> Seq(Byte)]
  BY DEF Partial
<1>6. ASSUME NEW i \in 1..(n + 1) PROVE g[i] = IF i = 1 THEN seqs[i] ELSE g[i - 1] \o seqs[i]
  <2>1. CASE i = n + 1
    <3>1. g[i] = last /\ (n > 0 => g[i - 1] = f[n])
      BY <2>1
    <3> QED BY <1>4, <2>1, <3>1
  <2>2. CASE i # n + 1
    <3>1. i \in 1..n /\ g[i] = f[i] /\ (i # 1 => g[i - 1] = f[i - 1])
      BY <2>2
    <3> QED BY <3>1 DEF Partial
  <2> QED BY <2>1, <2>2
<1> HIDE DEF g
<1> QED BY <1>5, <1>6 DEF Partial

LEMMA PartialThere ==
    ASSUME NEW seqs \in Seq(Seq(Byte))
    PROVE  \E f : Partial(f, seqs, Len(seqs))
<1> DEFINE S == {n \in Nat : n <= Len(seqs) => \E f : Partial(f, seqs, n)}
<1>1. 0 \in S
  <2>1. Partial(<<>>, seqs, 0)
    BY DEF Partial
  <2> QED BY <2>1
<1>2. ASSUME NEW n \in S PROVE n + 1 \in S
  <2>1. n \in Nat /\ n + 1 \in Nat
    OBVIOUS
  <2>2. ASSUME n + 1 <= Len(seqs) PROVE \E g : Partial(g, seqs, n + 1)
    <3>1. PICK k \in Nat : k = n
      BY <2>1
    <3>2. PICK f : Partial(f, seqs, k)
      BY <2>2, <3>1
    <3>3. \E g : Partial(g, seqs, k + 1)
      BY <2>2, <3>1, <3>2, PartialMore
    <3> QED BY <3>1, <3>3
  <2> QED BY <2>1, <2>2
<1> HIDE DEF S
<1>3. S = Nat
  <2>1. S \subseteq Nat
    BY DEF S
  <2>2. \A n \in S : n + 1 \in S
    BY <1>2
  <2> QED BY <1>1, <2>1, <2>2, Induction
<1>4. PICK n \in Nat : n = Len(seqs)
  OBVIOUS
<1>5. n <= Len(seqs) => \E f : Partial(f, seqs, n)
  BY <1>3, <1>4 DEF S
<1> QED BY <1>4, <1>5

\* FlattenSeq of the community modules.
LEMMA FlattenIs ==
    ASSUME NEW seqs \in Seq(Seq(Byte))
    PROVE  /\ Len(seqs) = 0 => FlattenSeq(seqs) = <<>>
           /\ Len(seqs) > 0 => \E f : Partial(f, seqs, Len(seqs)) /\ FlattenSeq(seqs) = f[Len(seqs)]
<1>1. ASSUME Len(seqs) = 0 PROVE FlattenSeq(seqs) = <<>>
  <2>1. seqs = <<>>
    BY <1>1
  <2> QED BY <1>1, <2>1 DEF FlattenSeq
<1>2. ASSUME Len(seqs) > 0
      PROVE  \E f : Partial(f, seqs, Len(seqs)) /\ FlattenSeq(seqs) = f[Len(seqs)]
  <2> DEFINE Step(f) == [i \in 1..Len(seqs) |-> IF i = 1 THEN seqs[i] ELSE f[i - 1] \o seqs[i]]
             flatten == CHOOSE f : f = Step(f)
  <2>1. PICK g : Partial(g, seqs, Len(seqs))
    BY PartialThere
  <2>2. g = Step(g)
    BY <2>1 DEF Partial
  <2>3. FlattenSeq(seqs) = flatten[Len(seqs)]
    BY <1>2 DEF FlattenSeq
  <2>4. flatten = Step(flatten)
    <3> HIDE DEF Step
    <3> QED BY <2>2
  <2> HIDE DEF flatten
  <2>5. \A i \in 1..Len(seqs) : flatten[i] = IF i = 1 THEN seqs[i] ELSE flatten[i - 1] \o seqs[i]
    BY <2>4
  <2>6. flatten = [i \in 1..Len(seqs) |-> flatten[i]]
    BY <2>4
  <2> HIDE DEF Step
  <2> DEFINE T == {n \in Nat : n \in 1..Len(seqs) => flatten[n] = g[n]}
  <2>7. 0 \in T
    OBVIOUS
  <2>8. ASSUME NEW n \in T PROVE n + 1 \in T
    <3>1. n \in Nat
      OBVIOUS
    <3>2. ASSUME n + 1 \in 1..Len(seqs) PROVE flatten[n + 1] = g[n + 1]
      <4>1. PICK k \in Nat : k = n
        BY <3>1
      <4>2. PICK m \in 1..Len(seqs) : m = k + 1 /\ m - 1 = k
        BY <3>2, <4>1
      <4>3. m # 1 => flatten[m - 1] = g[m - 1]
        BY <4>1, <4>2
      <4>4. flatten[m] = g[m]
        <5>1. flatten[m] = IF m = 1 THEN seqs[m] ELSE flatten[m - 1] \o seqs[m]
          BY <2>5
        <5>2. g[m] = IF m = 1 THEN seqs[m] ELSE g[m - 1] \o seqs[m]
          BY <2>1 DEF Partial
        <5> QED BY <4>3, <5>1, <5>2, Zenon
      <4> QED BY <4>1, <4>2, <4>4
    <3> QED BY <3>1, <3>2
  <2> HIDE DEF T
  <2>9. T = Nat
    <3>1. T \subseteq Nat
      BY DEF T
    <3> QED BY <2>7, <2>8, <3>1, Induction
  <2>10. flatten[Len(seqs)] = g[Len(seqs)]
    <3>1. Len(seqs) \in Nat /\ Len(seqs) \in 1..Len(seqs)
      BY <1>2
    <3> QED BY <2>9, <3>1 DEF T
  <2> QED BY <2>1, <2>3, <2>10
<1> QED BY <1>1, <1>2

\* Encodings one after the other.
LEMMA SpellsJoin ==
    ASSUME NEW e, NEW f, NEW A, NEW a \in Seq(A), NEW B, NEW b \in Seq(B), NEW k \in Nat,
           Spells(e, a, k), Spells(f, b, k)
    PROVE  Spells(e \o f, a \o b, k) /\ a \o b \in Seq(A \cup B) /\ Len(a \o b) = Len(a) + Len(b)
<1>0. e \in Seq(Byte) /\ f \in Seq(Byte) /\ Len(a) \in Nat /\ Len(b) \in Nat
  BY DEF Spells
<1>1. e \o f \in Seq(Byte) /\ Len(e \o f) = Len(e) + Len(f)
  BY <1>0
<1>2. a \o b \in Seq(A \cup B) /\ Len(a \o b) = Len(a) + Len(b)
  <2>1. a \in Seq(A \cup B) /\ b \in Seq(A \cup B)
    OBVIOUS
  <2> QED BY <2>1
<1>3. Len(e \o f) >= Len(a \o b) /\ Len(a \o b) \in Nat
  BY <1>0, <1>1, <1>2 DEF Spells
<1>4. ASSUME NEW buf \in Seq(Byte), NEW at \in Nat, NEW d \in Nat,
             Len(buf) < Huge, Sits(buf, at, e \o f), d + k <= MaxDepth
      PROVE  [value |-> a \o b, next |-> at + Len(e \o f)] \in Read(buf)[TaskOf(Len(a \o b), at, d)]
  <2>1. Sits(buf, at, e) /\ Sits(buf, at + Len(e), f)
    BY <1>0, <1>4, SitsJoin
  <2>a. at + Len(e) \in Nat /\ at + Len(e) + Len(f) \in Nat
    BY <1>0
  <2>b. PICK mid \in Nat : mid = at + Len(e)
    BY <2>a, Zenon
  <2>c. PICK end \in Nat : end = mid + Len(f)
    BY <2>a, <2>b, Zenon
  <2>2. mid = at + Len(e) /\ end = mid + Len(f) /\ end = at + Len(e \o f)
    BY <1>0, <1>1, <2>b, <2>c
  <2>d. PICK m \in Nat, n \in Nat : m = Len(a) /\ n = Len(b)
    BY <1>0
  <2>3. [value |-> a, next |-> mid] \in Read(buf)[TaskOf(m, at, d)]
    BY <1>0, <1>4, <2>1, <2>2, <2>d DEF Spells
  <2>4. [value |-> b, next |-> end] \in Read(buf)[TaskOf(n, mid, d)]
    BY <1>0, <1>4, <2>1, <2>2, <2>d DEF Spells
  <2>5. [value |-> a \o b, next |-> end] \in Read(buf)[TaskOf(m + n, at, d)]
    BY <2>3, <2>4, ReadJoin
  <2>6. m + n = Len(a \o b)
    BY <1>2, <2>d
  <2> QED BY <2>2, <2>5, <2>6
<1> QED BY <1>1, <1>2, <1>3, <1>4 DEF Spells

\* e spells n values, whichever they are.
Spelled(e, n, k) == \E V : \E vals \in Seq(V) : Len(vals) = n /\ Spells(e, vals, k)

LEMMA SpelledOne ==
    ASSUME NEW e, NEW v, NEW k, Spells(e, <<v>>, k)
    PROVE  Spelled(e, 1, k)
<1>1. <<v>> \in Seq({v}) /\ Len(<<v>>) = 1
  OBVIOUS
<1> QED BY <1>1 DEF Spelled

LEMMA SpelledNone == ASSUME NEW k \in Nat PROVE Spelled(<<>>, 0, k)
<1>1. <<>> \in Seq({}) /\ Len(<<>>) = 0
  OBVIOUS
<1> QED BY <1>1, SpellsNothing DEF Spelled

LEMMA SpelledDeeper ==
    ASSUME NEW e, NEW n, NEW k \in Nat, NEW l \in Nat, k <= l, Spelled(e, n, k)
    PROVE  Spelled(e, n, l)
<1>1. PICK V : \E vals \in Seq(V) : Len(vals) = n /\ Spells(e, vals, k)
  BY DEF Spelled
<1>2. PICK vals \in Seq(V) : Len(vals) = n /\ Spells(e, vals, k)
  BY <1>1
<1>3. Spells(e, vals, l)
  BY <1>2, SpellsDeeper
<1> QED BY <1>2, <1>3 DEF Spelled

LEMMA SpelledType ==
    ASSUME NEW e, NEW n, NEW k, Spelled(e, n, k)
    PROVE  e \in Seq(Byte) /\ k \in Nat /\ n \in Nat
BY DEF Spelled, Spells

LEMMA SpelledJoin ==
    ASSUME NEW e, NEW f, NEW m, NEW n, NEW k \in Nat, Spelled(e, m, k), Spelled(f, n, k), NEW sum, sum = m + n
    PROVE  Spelled(e \o f, sum, k)
<1>1. PICK A : \E a \in Seq(A) : Len(a) = m /\ Spells(e, a, k)
  BY DEF Spelled
<1>2. PICK a \in Seq(A) : Len(a) = m /\ Spells(e, a, k)
  BY <1>1
<1>3. PICK B : \E b \in Seq(B) : Len(b) = n /\ Spells(f, b, k)
  BY DEF Spelled
<1>4. PICK b \in Seq(B) : Len(b) = n /\ Spells(f, b, k)
  BY <1>3
<1>6. PICK V : V = A \cup B
  OBVIOUS
<1>5. Spells(e \o f, a \o b, k) /\ a \o b \in Seq(V) /\ Len(a \o b) = Len(a) + Len(b)
  <2>1. a \in Seq(V) /\ b \in Seq(V)
    BY <1>6
  <2>2. Spells(e \o f, a \o b, k)
    BY <1>2, <1>4, <2>1, SpellsJoin
  <2> QED BY <2>1, <2>2
<1>7. PICK c \in Seq(V) : c = a \o b
  BY <1>5, <1>6
<1>8. Len(c) = sum /\ Spells(e \o f, c, k)
  BY <1>2, <1>4, <1>5, <1>7
<1> QED BY <1>8 DEF Spelled

\* What each spells w values spells together w times as many.
LEMMA SpelledFlat ==
    ASSUME NEW w \in {1, 2}, NEW k \in Nat, NEW seqs \in Seq(Seq(Byte)),
           \A i \in 1..Len(seqs) : Spelled(seqs[i], w, k)
    PROVE  Spelled(FlattenSeq(seqs), w * Len(seqs), k)
<1>1. CASE Len(seqs) = 0
  <2>1. FlattenSeq(seqs) = <<>>
    BY <1>1, FlattenIs
  <2>2. w * Len(seqs) = 0
    BY <1>1
  <2> QED BY <2>1, <2>2, SpelledNone
<1>2. CASE Len(seqs) > 0
  <2>1. PICK f : Partial(f, seqs, Len(seqs)) /\ FlattenSeq(seqs) = f[Len(seqs)]
    BY <1>2, FlattenIs
  <2> DEFINE Times(n) == IF w = 1 THEN n ELSE 2 * n
             T == {n \in Nat : n \in 1..Len(seqs) => Spelled(f[n], Times(n), k)}
  <2>2. 0 \in T
    OBVIOUS
  <2>3. ASSUME NEW n \in T PROVE n + 1 \in T
    <3> HIDE DEF Times
    <3>1. n \in Nat /\ n + 1 \in Nat
      OBVIOUS
    <3>2. ASSUME n + 1 \in 1..Len(seqs) PROVE Spelled(f[n + 1], Times(n + 1), k)
      <4>1. PICK j \in Nat : j = n
        BY <3>1
      <4>2. PICK m \in 1..Len(seqs) : m = j + 1 /\ m - 1 = j
        BY <3>2, <4>1
      <4>3. f[m] = (IF m = 1 THEN seqs[m] ELSE f[m - 1] \o seqs[m]) /\ Spelled(seqs[m], w, k)
        BY <2>1 DEF Partial
      <4>4. CASE m = 1
        <5>1. Times(m) = w
          BY <4>4 DEF Times
        <5>2. f[m] = seqs[m]
          BY <4>3, <4>4
        <5>3. Spelled(f[m], Times(m), k)
          BY <4>3, <5>1, <5>2
        <5> QED BY <4>1, <4>2, <5>3
      <4>5. CASE m # 1
        <5>0. j \in 1..Len(seqs)
          BY <4>2, <4>5
        <5>1. j \in 1..Len(seqs) /\ f[m] = f[j] \o seqs[m]
          BY <5>0, <4>2, <4>3, <4>5, Zenon
        <5>2. Spelled(f[j], Times(j), k)
          BY <4>1, <5>1
        <5>3. Times(m) = Times(j) + w
          BY <4>2 DEF Times
        <5>4. Spelled(f[m], Times(m), k)
          BY <4>3, <5>1, <5>2, <5>3, SpelledJoin
        <5> QED BY <4>1, <4>2, <5>4
      <4> QED BY <4>4, <4>5
    <3> QED BY <3>1, <3>2
  <2> HIDE DEF T
  <2>4. T = Nat
    <3>1. T \subseteq Nat
      BY DEF T
    <3>2. \A n \in T : n + 1 \in T
      BY <2>3
    <3> QED BY <2>2, <3>1, <3>2, Induction
  <2>5. PICK n \in Nat : n = Len(seqs) /\ n \in 1..Len(seqs)
    BY <1>2
  <2> HIDE DEF Times
  <2>6. Spelled(f[n], Times(n), k)
    BY <2>4, <2>5 DEF T
  <2>7. Times(n) = w * Len(seqs)
    <3>1. CASE w = 1
      BY <2>5, <3>1 DEF Times
    <3>2. CASE w = 2
      BY <2>5, <3>2 DEF Times
    <3> QED BY <3>1, <3>2
  <2> QED BY <2>1, <2>5, <2>6, <2>7
<1> QED BY <1>1, <1>2

\* One item, at any level.
LEMMA SpelledLeaves ==
    ASSUME NEW k \in Nat
    PROVE  /\ \A n \in Nat : Spelled(Uint(n), 1, k)
           /\ \A b \in Seq(Byte) : Spelled(Bytes(b), 1, k)
           /\ \A s \in Seq(Byte) : Ascii(s) => Spelled(Text(s), 1, k)
<1>1. PICK o \in Nat : o = 0
  OBVIOUS
<1>2. \A e : Spelled(e, 1, o) => Spelled(e, 1, k)
  <2>1. o <= k
    BY <1>1
  <2> QED BY <2>1, SpelledDeeper
<1>3. ASSUME NEW n \in Nat PROVE Spelled(Uint(n), 1, k)
  BY <1>1, <1>2, SpellsUint, SpelledOne
<1>4. ASSUME NEW b \in Seq(Byte) PROVE Spelled(Bytes(b), 1, k)
  BY <1>1, <1>2, SpellsBytes, SpelledOne
<1>5. ASSUME NEW s \in Seq(Byte), Ascii(s) PROVE Spelled(Text(s), 1, k)
  BY <1>1, <1>2, <1>5, SpellsText, SpelledOne
<1> QED BY <1>3, <1>4, <1>5

\* What a leading byte of major type 7 with a small number is read as.
LEMMA SpelledSimple ==
    ASSUME NEW n \in 0..23, NEW k \in Nat
    PROVE  Spelled(Lead(7, n), 1, k)
<1> DEFINE v == IF n \in {20, 21} THEN Bool(n = 21) ELSE Null
<1>0. PICK e : e = <<224 + n>>
  OBVIOUS
<1>1. Lead(7, n) = e /\ e \in Seq(Byte) /\ Len(e) = 1 /\ e[1] = 224 + n
  <2>1. 224 + n \in Byte
    BY DEF Byte
  <2>2. Lead(7, n) = <<224 + n>>
    BY DEF Lead
  <2> QED BY <1>0, <2>1, <2>2
<1>2. ASSUME NEW buf \in Seq(Byte), NEW at \in Nat, NEW d \in Nat,
             Len(buf) < Huge, Sits(buf, at, e), d + k <= MaxDepth
      PROVE  [value |-> <<v>>, next |-> at + 1] \in Read(buf)[TaskOf(1, at, d)]
  <2>1. at \in 1..Len(buf) /\ buf[at] = 224 + n
    <3>1. at >= 1 /\ at + 1 <= Len(buf) + 1 /\ buf[at + 1 - 1] = e[1]
      BY <1>1, <1>2 DEF Sits
    <3>2. at + 1 - 1 = at
      OBVIOUS
    <3> QED BY <1>1, <3>1, <3>2
  <2>2. buf[at] % 32 = n /\ buf[at] \div 32 = 7
    <3>1. \A m \in 0..23 : (224 + m) % 32 = m /\ (224 + m) \div 32 = 7
      OBVIOUS
    <3> QED BY <2>1, <3>1
  <2>3. HeadWidth(buf[at] % 32) = 0
    <3>1. HeadWidth(n) = 0
      BY DEF HeadWidth
    <3> QED BY <2>2, <3>1
  <2>4. HeadFits(buf, at)
    BY <2>1, <2>2, <2>3 DEF HeadFits
  <2>5. PICK h : h = HeadAt(buf, at)
    OBVIOUS
  <2>6. h.major = 7 /\ h.info = n /\ h.next = at + 1
    BY <2>2, <2>3, <2>5 DEF HeadAt
  <2>7. Leaf(buf, h) = {[value |-> v, next |-> at + 1]}
    <3>1. CASE n \in {20, 21}
      BY <2>6, <3>1 DEF Leaf, Some
    <3>2. CASE n \notin {20, 21}
      BY <2>6, <3>2 DEF Leaf, Some
    <3> QED BY <3>1, <3>2
  <2> HIDE DEF v
  <2>8. PICK next \in Nat : next = at + 1
    OBVIOUS
  <2>9. [value |-> v, next |-> next] \in Items1(buf, at, d)
    BY <2>5, <2>6, <2>7, <2>8, OneItemAt DEF Items1
  <2>10. d <= MaxDepth
    BY <1>2, CborAssumption
  <2> QED BY <2>4, <2>8, <2>9, <2>10, ReadOne
<1>3. Spells(e, <<v>>, k)
  <2> HIDE DEF v
  <2>1. Len(<<v>>) = 1
    OBVIOUS
  <2> QED BY <1>1, <1>2, <2>1 DEF Spells
<1> HIDE DEF v
<1> QED BY <1>1, <1>3, SpelledOne

\* An array, and a map.
LEMMA SpelledArray ==
    ASSUME NEW k \in Nat, NEW items \in Seq(Seq(Byte)), \A i \in 1..Len(items) : Spelled(items[i], 1, k),
           NEW l, l = k + 1
    PROVE  Spelled(Array(items), 1, l)
<1>1. PICK n \in Nat, w \in {1, 2} : n = Len(items) /\ w = 1
  OBVIOUS
<1>2. PICK f : f = FlattenSeq(items)
  OBVIOUS
<1>3. Spelled(f, n, k)
  <2>1. Spelled(f, w * Len(items), k)
    BY <1>1, <1>2, SpelledFlat
  <2>2. w * Len(items) = n
    BY <1>1
  <2> QED BY <2>1, <2>2
<1>4. PICK V : \E vals \in Seq(V) : Len(vals) = n /\ Spells(f, vals, k)
  BY <1>3 DEF Spelled
<1>5. PICK vals \in Seq(V) : Len(vals) = n /\ Spells(f, vals, k)
  BY <1>4
<1>6. PICK major \in {4, 5} : major = 4
  OBVIOUS
<1>7. Spells(Lead(major, n) \o f, <<IF major = 4 THEN List(vals) ELSE Object(AsMap(vals))>>, k + 1)
  BY <1>5, <1>6, SpellsContainer
<1>8. PICK v : v = IF major = 4 THEN List(vals) ELSE Object(AsMap(vals))
  OBVIOUS
<1>9. Spells(Array(items), <<v>>, l)
  BY <1>1, <1>2, <1>6, <1>7, <1>8 DEF Array
<1> QED BY <1>9, SpelledOne

\* The pairs of a map.
PairsOf(kvs, n, k) ==
    /\ n \in Nat /\ Len(kvs) = n /\ DOMAIN kvs = 1..n
    /\ \A i \in 1..n : kvs[i][1] \in Seq(Byte) /\ Ascii(kvs[i][1]) /\ Spelled(kvs[i][2], 1, k)

LEMMA SpellsPairs ==
    ASSUME NEW k \in Nat, NEW kvs, NEW n, PairsOf(kvs, n, k), NEW l, l = k + 1
    PROVE  \E fields : Spells(Pairs(kvs), <<Object(fields)>>, l)
<1> DEFINE items == [i \in 1..n |-> Text(kvs[i][1]) \o kvs[i][2]]
<1>0. n \in Nat /\ DOMAIN kvs = 1..n /\ Len(kvs) = n
  BY DEF PairsOf
<1>1. \A i \in 1..n : Spelled(items[i], 2, k)
  <2> TAKE i \in 1..n
  <2>1. Spelled(Text(kvs[i][1]), 1, k) /\ Spelled(kvs[i][2], 1, k)
    BY SpelledLeaves DEF PairsOf
  <2>2. PICK s : s = 1 + 1
    OBVIOUS
  <2>3. Spelled(Text(kvs[i][1]) \o kvs[i][2], s, k)
    BY <2>1, <2>2, SpelledJoin
  <2> QED BY <2>2, <2>3
<1>2. \A i \in 1..n : items[i] \in Seq(Byte)
  BY <1>1, SpelledType
<1>3. Pairs(kvs) = Lead(5, n) \o FlattenSeq(items)
  BY <1>0 DEF Pairs
<1>4. items \in Seq(Seq(Byte)) /\ Len(items) = n
  <2>1. items \in [1..n -> Seq(Byte)]
    BY <1>2
  <2> HIDE DEF items
  <2> QED BY <1>0, <2>1
<1> HIDE DEF items
<1>5. PICK w \in {1, 2} : w = 2
  OBVIOUS
<1>6. PICK f : f = FlattenSeq(items)
  OBVIOUS
<1>7. Spelled(f, 2 * n, k)
  <2>1. Spelled(f, w * Len(items), k)
    BY <1>1, <1>4, <1>5, <1>6, SpelledFlat
  <2> QED BY <1>4, <1>5, <2>1
<1>8. PICK V : \E vals \in Seq(V) : Len(vals) = 2 * n /\ Spells(f, vals, k)
  BY <1>7 DEF Spelled
<1>9. PICK vals \in Seq(V) : Len(vals) = 2 * n /\ Spells(f, vals, k)
  BY <1>8
<1>10. PICK major \in {4, 5} : major = 5
  OBVIOUS
<1>11. Spells(Lead(major, n) \o f, <<IF major = 4 THEN List(vals) ELSE Object(AsMap(vals))>>, k + 1)
  BY <1>0, <1>9, <1>10, SpellsContainer
<1>12. Spells(Pairs(kvs), <<Object(AsMap(vals))>>, l)
  BY <1>3, <1>6, <1>10, <1>11
<1> QED BY <1>12

LEMMA SpelledPairs ==
    ASSUME NEW k \in Nat, NEW kvs, NEW n, PairsOf(kvs, n, k), NEW l, l = k + 1
    PROVE  Spelled(Pairs(kvs), 1, l)
<1>1. PICK fields : Spells(Pairs(kvs), <<Object(fields)>>, l)
  BY SpellsPairs
<1> QED BY <1>1, SpelledOne
-----------------------------------------------------------------------------
(* What is read has a type: text and bytes are characters, numbers are     *)
(* integers, and so it is in lists and objects.                            *)

Plain(v) ==
    /\ IsString(v) => v.chars \in Seq(Byte) /\ Ascii(v.chars)
    /\ v.type = "number" => v.number \in Int

\* The characters of hexadecimal text.
LEMMA DigitIs ==
    /\ \A c : c \in 48..57 \cup 97..102 => c < 128 /\ HexValue(c) >= 0
    /\ \A c : HexValue(c) >= 0 => HexValue(c) \in 0..15
<1>1. ASSUME NEW c, c \in 48..57 PROVE c < 128 /\ HexValue(c) >= 0
  BY <1>1 DEF HexValue
<1>2. ASSUME NEW c, c \in 97..102 PROVE c < 128 /\ HexValue(c) >= 0
  BY <1>2 DEF HexValue
<1>3. ASSUME NEW c, HexValue(c) >= 0 PROVE HexValue(c) \in 0..15
  <2>1. CASE c \in 48..57
    BY <2>1 DEF HexValue
  <2>2. CASE c \in 97..102
    BY <2>2 DEF HexValue
  <2>3. CASE c \in 65..70
    BY <2>3 DEF HexValue
  <2> QED BY <1>3, <2>1, <2>2, <2>3 DEF HexValue
<1> QED BY <1>1, <1>2, <1>3

LEMMA HexIs ==
    ASSUME NEW b \in Seq(Byte)
    PROVE  Hex(b) \in Seq(Byte) /\ Ascii(Hex(b)) /\ IsHex(Hex(b)) /\ Len(Hex(b)) = 2 * Len(b)
<1>1. PICK n \in Nat : n = 2 * Len(b)
  OBVIOUS
<1>2. Hex(b) = [i \in 1..n |-> HexDigit(IF i % 2 = 1 THEN b[(i + 1) \div 2] \div 16 ELSE b[i \div 2] % 16)]
  BY <1>1 DEF Hex
<1>3. ASSUME NEW i \in 1..n PROVE Hex(b)[i] \in 48..57 \cup 97..102
  <2>1. PICK d : d = (IF i % 2 = 1 THEN b[(i + 1) \div 2] \div 16 ELSE b[i \div 2] % 16)
    OBVIOUS
  <2>2. d \in 0..15
    <3>1. CASE i % 2 = 1
      <4>1. PICK j : j = (i + 1) \div 2
        OBVIOUS
      <4>2. j \in 1..Len(b)
        BY <1>1, <3>1, <4>1
      <4>3. b[j] \in Byte
        BY <4>2
      <4>4. PICK x \in 0..255 : x = b[j]
        BY <4>3 DEF Byte
      <4>5. x \div 16 \in 0..15
        OBVIOUS
      <4> QED BY <2>1, <3>1, <4>1, <4>4, <4>5
    <3>2. CASE i % 2 # 1
      <4>1. PICK j : j = i \div 2
        OBVIOUS
      <4>2. j \in 1..Len(b)
        BY <1>1, <3>2, <4>1
      <4>3. b[j] \in Byte
        BY <4>2
      <4>4. PICK x \in 0..255 : x = b[j]
        BY <4>3 DEF Byte
      <4>5. x % 16 \in 0..15
        OBVIOUS
      <4> QED BY <2>1, <3>2, <4>1, <4>4, <4>5
    <3> QED BY <3>1, <3>2
  <2>3. Hex(b)[i] = HexDigit(d)
    BY <1>2, <2>1
  <2> QED BY <2>2, <2>3 DEF HexDigit
<1>4. Hex(b) \in Seq(Byte) /\ Len(Hex(b)) = n /\ DOMAIN Hex(b) = 1..n
  <2>1. \A i \in 1..n : Hex(b)[i] \in Byte
    BY <1>3 DEF Byte
  <2>2. DOMAIN Hex(b) = 1..n /\ Hex(b) = [i \in 1..n |-> Hex(b)[i]]
    BY <1>2
  <2> HIDE DEF Byte
  <2> QED BY <1>1, <2>1, <2>2
<1>5. PICK s : s = Hex(b)
  OBVIOUS
<1>6. \A i \in 1..n : s[i] \in 48..57 \cup 97..102
  BY <1>3, <1>5
<1>7. Ascii(s)
  <2>1. \A i \in 1..n : s[i] < 128
    BY <1>6, DigitIs
  <2> QED BY <1>4, <1>5, <2>1 DEF Ascii
<1>8. IsHex(s)
  <2>1. Len(s) % 2 = 0
    BY <1>1, <1>4, <1>5
  <2>2. \A i \in 1..n : HexValue(s[i]) >= 0
    BY <1>6, DigitIs
  <2> QED BY <1>4, <1>5, <2>1, <2>2 DEF IsHex
<1> QED BY <1>1, <1>4, <1>5, <1>7, <1>8

\* Hexadecimal text names bytes.
LEMMA UnhexIs ==
    ASSUME NEW V, NEW s \in Seq(V), IsHex(s)
    PROVE  Unhex(s) \in Seq(Byte)
<1>1. Len(s) \in Nat /\ DOMAIN s = 1..Len(s) /\ Len(s) % 2 = 0
  BY DEF IsHex
<1>2. PICK n \in Nat : n = Len(s) \div 2
  BY <1>1
<1>3. ASSUME NEW i \in 1..n PROVE 16 * HexValue(s[2 * i - 1]) + HexValue(s[2 * i]) \in Byte
  <2>1. PICK j \in 1..Len(s), k \in 1..Len(s) : j = 2 * i - 1 /\ k = 2 * i
    <3>1. 2 * i - 1 \in 1..Len(s) /\ 2 * i \in 1..Len(s)
      BY <1>1, <1>2
    <3> QED BY <3>1, Zenon
  <2>2. HexValue(s[j]) >= 0 /\ HexValue(s[k]) >= 0
    BY <1>1 DEF IsHex
  <2>3. PICK a, b : a = HexValue(s[j]) /\ b = HexValue(s[k])
    OBVIOUS
  <2>4. a \in 0..15 /\ b \in 0..15
    BY <2>2, <2>3, DigitIs
  <2>5. 16 * a + b \in 0..255
    BY <2>4
  <2> QED BY <2>1, <2>3, <2>5 DEF Byte
<1>5. Unhex(s) = [i \in 1..n |-> 16 * HexValue(s[2 * i - 1]) + HexValue(s[2 * i])]
  BY <1>2 DEF Unhex
<1> QED BY <1>2, <1>3, <1>5

LEMMA NullPlain == Plain(Null) /\ ~ IsObject(Null) /\ ~ IsString(Null) /\ Null.type = "null"
BY DEF Plain, Null, IsObject, IsString

\* A piece of a frame is bytes.
LEMMA PieceIs ==
    ASSUME NEW buf \in Seq(Byte), NEW from \in Nat, from >= 1, NEW to \in Int, to <= Len(buf)
    PROVE  SubSeq(buf, from, to) \in Seq(Byte)
<1>1. \A i \in from..to : buf[i] \in Byte
  BY ElementOfSeq, LenProperties
<1> QED BY <1>1, SubSeqProperties

LEMMA LeafPlain ==
    ASSUME NEW buf \in Seq(Byte), NEW h, h.arg \in Nat, h.next \in 1..(Len(buf) + 1), h.major \notin {4, 5},
           NEW r \in Leaf(buf, h)
    PROVE  Plain(r.value) /\ r.value.type \notin {"list", "object"}
<1>1. PICK to, payload : to = h.next + h.arg - 1 /\ payload = SubSeq(buf, h.next, to)
  OBVIOUS
<1>2. h.next + h.arg <= Len(buf) + 1 => payload \in Seq(Byte)
  <2> SUFFICES ASSUME h.next + h.arg <= Len(buf) + 1 PROVE payload \in Seq(Byte)
    OBVIOUS
  <2>1. PICK from \in Nat : from = h.next /\ from >= 1
    OBVIOUS
  <2>2. PICK arg \in Nat : arg = h.arg
    OBVIOUS
  <2>3. Len(buf) \in Nat /\ to = from + arg - 1 /\ from + arg <= Len(buf) + 1
    BY <1>1, <2>1, <2>2
  <2>4. to \in Int /\ to <= Len(buf)
    BY <2>3
  <2> QED BY <1>1, <2>1, <2>4, PieceIs
<1>3. CASE h.major = 2
  <2>1. r.value = String(Hex(payload)) /\ h.next + h.arg <= Len(buf) + 1
    BY <1>1, <1>3 DEF Leaf, Some, None
  <2> QED BY <1>2, <2>1, HexIs DEF Plain, String, IsString
<1>4. CASE h.major = 3
  <2>1. r.value = String(payload) /\ h.next + h.arg <= Len(buf) + 1 /\ Ascii(payload)
    BY <1>1, <1>4 DEF Leaf, Some, None
  <2> QED BY <1>2, <2>1 DEF Plain, String, IsString
<1>5. CASE h.major \notin {2, 3}
  <2>1. r.value \in {Number(h.arg), Number(-1 - h.arg), Bool(h.info = 21), Null}
    BY <1>5 DEF Leaf, Some, None
  <2> QED BY <2>1 DEF Plain, Number, Bool, Null, IsString
<1> QED BY <1>3, <1>4, <1>5

\* The fields of a map are the values of its pairs.
LEMMA AsMapFields ==
    ASSUME NEW V, NEW vals \in Seq(V), NEW key \in DOMAIN AsMap(vals)
    PROVE  AsMap(vals)[key] \in V
<1> DEFINE KeyAt(i) == vals[2 * i - 1]
           kept == {i \in 1..(Len(vals) \div 2) : IsString(KeyAt(i))}
           chosen == CHOOSE i \in kept : KeyAt(i).chars = key /\ \A j \in kept : KeyAt(j).chars = key => j <= i
           S == {i \in kept : KeyAt(i).chars = key}
<1>1. PICK n \in Nat : n = Len(vals) \div 2 /\ 2 * n <= Len(vals) /\ Len(vals) \in Nat
  BY LenProperties
<1>2. DOMAIN AsMap(vals) = {KeyAt(i).chars : i \in kept}
  BY DEF AsMap
<1>3. S \subseteq 1..n /\ S # {}
  BY <1>1, <1>2
<1>4. PICK g \in S : \A j \in S : j <= g
  <2> HIDE DEF S
  <2> QED BY <1>3, HasGreatest
<1>5. chosen \in kept
  <2>1. g \in kept /\ KeyAt(g).chars = key /\ \A j \in kept : KeyAt(j).chars = key => j <= g
    BY <1>4
  <2> HIDE DEF kept, KeyAt
  <2> QED BY <2>1
<1>6. AsMap(vals)[key] = vals[2 * chosen]
  BY DEF AsMap
<1>7. 2 * chosen \in 1..Len(vals)
  <2>1. chosen \in 1..n
    BY <1>1, <1>5
  <2> HIDE DEF chosen
  <2> QED BY <1>1, <2>1
<1> QED BY <1>6, <1>7, ElementOfSeq

\* A value of the frame, and what is in it.
LEMMA ValueRead ==
    ASSUME NEW buf \in Seq(Byte), NEW v \in ValuesOf(buf)
    PROVE  /\ Plain(v)
           /\ v.type = "list" => v.items \in Seq(ValuesOf(buf))
           /\ IsObject(v) => \A key \in DOMAIN v.fields : v.fields[key] \in ValuesOf(buf)
<1>1. PICK t \in Task : HeadFits(buf, t.at) /\ \E i \in Items1(buf, t.at, t.depth) : v = i.value
  BY DEF ValuesOf
<1>2. PICK i \in Items1(buf, t.at, t.depth) : v = i.value
  BY <1>1
<1>3. PICK h : h = HeadAt(buf, t.at)
  OBVIOUS
<1>4. h.next \in 1..(Len(buf) + 1) /\ h.arg \in Nat /\ h.next \in Nat
  <2>1. t.at \in Nat
    BY TaskParts
  <2> QED BY <1>1, <1>3, <2>1, HeadRange, HugeIs
<1>5. CASE h.major \notin {4, 5}
  <2>1. i \in Leaf(buf, h)
    BY <1>2, <1>3, <1>5, OneItemAt DEF Items1
  <2>2. Plain(v) /\ v.type \notin {"list", "object"}
    BY <1>2, <1>4, <1>5, <2>1, LeafPlain
  <2> QED BY <2>2 DEF IsObject
<1>6. CASE h.major \in {4, 5}
  <2>1. PICK d : d = t.depth + 1
    OBVIOUS
  <2>2. d \in Nat
    BY <2>1, TaskParts
  <2>3. PICK u : u = TaskOf(Inside(h), h.next, d)
    OBVIOUS
  <2>4. u \in Task
    BY <1>4, <2>2, <2>3 DEF TaskOf, Task, Inside
  <2>5. PICK c \in Read(buf)[u] :
            i = [value |-> IF h.major = 4 THEN List(c.value) ELSE Object(AsMap(c.value)), next |-> c.next]
    BY <1>2, <1>3, <1>6, <2>1, <2>3, OneItemAt DEF Items1
  <2>6. PICK vals \in Seq(ValuesOf(buf)) : vals = c.value
    BY <2>4, ReadLength
  <2>7. v = IF h.major = 4 THEN List(vals) ELSE Object(AsMap(vals))
    BY <1>2, <2>5, <2>6
  <2>8. CASE h.major = 4
    BY <2>6, <2>7, <2>8 DEF List, Plain, IsString, IsObject
  <2>9. CASE h.major # 4
    <3>1. v.type = "object" /\ v.fields = AsMap(vals)
      BY <2>7, <2>9 DEF Object
    <3>2. PICK V : V = ValuesOf(buf)
      OBVIOUS
    <3>3. \A key \in DOMAIN v.fields : v.fields[key] \in V
      BY <2>6, <3>1, <3>2, AsMapFields
    <3> QED BY <3>1, <3>2, <3>3 DEF Plain, IsString, IsObject
  <2> QED BY <2>8, <2>9
<1> QED BY <1>5, <1>6
=============================================================================
