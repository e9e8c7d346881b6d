---------------------------- MODULE FrameProofs -----------------------------
(***************************************************************************)
(* Proofs about the rpc2 frames of Host: what a serve answers is a header  *)
(* and at most one more item, each encoded as the decoder reads it, so     *)
(* that no other part of the frame decodes.                                *)
(***************************************************************************)
EXTENDS HostProofs, CborProofs

-----------------------------------------------------------------------------
(* A header and an item. *)

\* The message with these header fields and this payload.
MessageOf(fields, payload) ==
    [method |-> StringOr(Field(Object(fields), Key.M), <<>>),
     seq |-> U64Or(Field(Object(fields), Key.S), 0),
     error |-> StringOr(Field(Object(fields), Key.E), <<>>),
     payload |-> payload]
Payloads(buf, at) == IF at > Len(buf) THEN {Null} ELSE {r.value[1] : r \in Items(buf, 1, at, 0)}
Messages(fields, buf, at) == {MessageOf(fields, p) : p \in Payloads(buf, at)}

LEMMA DecodeIs ==
    ASSUME NEW buf, NEW fields, NEW at, Items(buf, 1, 1, 0) = {[value |-> <<Object(fields)>>, next |-> at]}
    PROVE  DecodeMessage(buf) = Messages(fields, buf, at)
<1> DEFINE read == Items(buf, 1, 1, 0)
           headers == {h \in read : IsObject(h.value[1])}
           r == [value |-> <<Object(fields)>>, next |-> at]
           Pays(a) == IF a > Len(buf) THEN {Null} ELSE {x.value[1] : x \in Items(buf, 1, a, 0)}
           Found(object, a) ==
            {[method |-> StringOr(Field(object, Key.M), <<>>),
              seq |-> U64Or(Field(object, Key.S), 0),
              error |-> StringOr(Field(object, Key.E), <<>>),
              payload |-> payload] : payload \in Pays(a)}
<1>1. DecodeMessage(buf) = UNION {Found(h.value[1], h.next) : h \in headers}
  BY Zenon DEF DecodeMessage
<1>2. r.value[1] = Object(fields) /\ r.next = at /\ IsObject(r.value[1])
  BY DEF IsObject, Object
<1>3. headers = {r}
  <2>1. read = {r}
    OBVIOUS
  <2> HIDE DEF read, r
  <2> QED BY <1>2, <2>1
<1> HIDE DEF headers, r
<1>4. DecodeMessage(buf) = Found(Object(fields), at)
  <2> HIDE DEF Found
  <2> QED BY <1>1, <1>2, <1>3
<1>5. Found(Object(fields), at) = {MessageOf(fields, p) : p \in Payloads(buf, at)}
  BY Zenon DEF MessageOf, Payloads
<1> QED BY <1>4, <1>5 DEF Messages

LEMMA DecodeNone ==
    ASSUME NEW buf, Items(buf, 1, 1, 0) = {}
    PROVE  DecodeMessage(buf) = {}
BY DEF DecodeMessage

\* A frame that goes on as another one does.
LEMMA SameJoined ==
    ASSUME NEW a \in Seq(Byte), NEW b \in Seq(Byte), NEW n \in 0..(Len(a) + 1)
    PROVE  Same(a, a \o b, n) /\ a \o b \in Seq(Byte) /\ Len(a \o b) = Len(a) + Len(b)
BY DEF Same

LEMMA SameCut ==
    ASSUME NEW a \in Seq(Byte), NEW n \in 0..Len(a)
    PROVE  /\ SubSeq(a, 1, n) \in Seq(Byte) /\ Len(SubSeq(a, 1, n)) = n
           /\ Same(SubSeq(a, 1, n), a, n + 1)
           /\ \A m \in 0..(n + 1) : Same(a, SubSeq(a, 1, n), m)
<1>1. SubSeq(a, 1, n) \in Seq(Byte) /\ Len(SubSeq(a, 1, n)) = n /\ \A i \in 1..n : SubSeq(a, 1, n)[i] = a[i]
  OBVIOUS
<1> QED BY <1>1 DEF Same

LEMMA TailBytes == HostileTail \in Seq(Byte) /\ Len(HostileTail) = 17 /\ HostileTail[1] = 255
<1>1. /\ 255 \in Byte /\ 155 \in Byte /\ 116 \in Byte /\ 97 \in Byte /\ 105 \in Byte /\ 108 \in Byte
  BY DEF Byte
<1> HIDE DEF Byte
<1> QED BY <1>1 DEF HostileTail

\* No item begins with the byte 255.
LEMMA NoItem ==
    ASSUME NEW buf \in Seq(Byte), NEW at \in 1..Len(buf), buf[at] = 255
    PROVE  Items(buf, 1, at, 0) = {}
<1>1. PICK t \in Task : t = TaskOf(1, at, 0) /\ t.count = 1 /\ t.at = at
  BY TaskIs
<1>2. ~ HeadFits(buf, at)
  BY DEF HeadFits
<1>3. t.count > 0 /\ ~ Reads(t, buf)
  BY <1>1, <1>2 DEF Reads
<1>4. Reading(Read(buf), buf, t) = {}
  BY <1>3, ReadingAt
<1> QED BY <1>1, <1>4, ItemsAt, ReadAt

OnlyItem(buf, n, at, d, r, next, low, high) ==
    /\ Items(buf, n, at, d) = {r}
    /\ \A other \in Seq(Byte) :
          /\ Same(buf, other, next) => Items(other, n, at, d) = {r}
          /\ Len(other) \in low..high /\ Same(other, buf, Len(other) + 1) => Items(other, n, at, d) = {}

LEMMA ItemAlone ==
    ASSUME NEW buf \in Seq(Byte), NEW n \in Nat, NEW at \in Nat, at >= 1, at <= Len(buf) + 1, NEW d \in Nat,
           NEW r \in Items(buf, n, at, d), NEW next, next = r.next,
           NEW low, low = at - 1, NEW high, high = next - 2
    PROVE  OnlyItem(buf, n, at, d, r, next, low, high)
<1>1. at \in 1..(Len(buf) + 1)
  OBVIOUS
<1> QED BY <1>1, DecoderMeasures DEF OnlyItem

\* A header that spells a map, and an item or nothing after it: the frame
\* decodes, and of its parts the header alone does.
LEMMA HeaderItem ==
    ASSUME NEW head \in Seq(Byte), NEW fields, NEW k \in Nat, k <= MaxDepth, Spells(head, <<Object(fields)>>, k),
           NEW body, body = <<>> \/ Spelled(body, 1, k), NEW frame, frame = head \o body, Len(frame) < Huge
    PROVE  Tight(frame)
<1>0. body \in Seq(Byte) /\ (body # <<>> => Len(body) >= 1)
  <2>1. body \in Seq(Byte)
    <3>1. CASE body = <<>>
      BY <3>1
    <3>2. CASE Spelled(body, 1, k)
      BY <3>2, SpelledType
    <3> QED BY <3>1, <3>2
  <2> QED BY <2>1
<1>1. /\ frame \in Seq(Byte) /\ Len(frame) = Len(head) + Len(body) /\ Len(head) \in Nat /\ Len(body) \in Nat
      /\ Len(head) >= 1 /\ Len(frame) \in Nat
  <2>1. Len(<<Object(fields)>>) = 1
    OBVIOUS
  <2> QED BY <1>0, <2>1 DEF Spells
<1>2. PICK next \in Nat : next = Len(head) + 1 /\ next = 1 + Len(head)
  <2>1. Len(head) + 1 \in Nat /\ Len(head) + 1 = 1 + Len(head)
    BY <1>1
  <2> QED BY <2>1, Zenon
<1>3. PICK r : r = [value |-> <<Object(fields)>>, next |-> next]
  OBVIOUS
<1>4. r \in Items(frame, 1, 1, 0)
  <2>1. Sits(frame, 1, head)
    BY <1>0, <1>1 DEF Sits
  <2>2. 0 + k <= MaxDepth /\ Len(<<Object(fields)>>) = 1
    OBVIOUS
  <2>3. [value |-> <<Object(fields)>>, next |-> 1 + Len(head)] \in Read(frame)[TaskOf(1, 1, 0)]
    BY <1>1, <2>1, <2>2 DEF Spells
  <2> QED BY <1>2, <1>3, <2>3, ItemsAt
<1>5. r.next = next
  BY <1>3
<1>6. 1 \in 1..(Len(frame) + 1) /\ next \in 1..(Len(frame) + 1)
  BY <1>1, <1>2
<1>7. /\ Items(frame, 1, 1, 0) = {r}
      /\ \A other \in Seq(Byte) :
            /\ Same(frame, other, next) => Items(other, 1, 1, 0) = {r}
            /\ Len(other) \in 0..next - 2 /\ Same(other, frame, Len(other) + 1) => Items(other, 1, 1, 0) = {}
  <2>1. PICK one \in Nat, zero \in Nat, low \in Int, high \in Int : one = 1 /\ zero = 0 /\ low = one - 1 /\ high = next - 2
    OBVIOUS
  <2>2. one >= 1 /\ one <= Len(frame) + 1
    BY <1>1, <2>1
  <2>3. r \in Items(frame, one, one, zero)
    BY <1>4, <2>1
  <2>4. OnlyItem(frame, one, one, zero, r, next, low, high)
    BY <1>1, <1>5, <2>1, <2>2, <2>3, ItemAlone
  <2>5. OnlyItem(frame, 1, 1, 0, r, next, low, high) /\ low = 0
    BY <2>1, <2>4
  <2>6. 0..next - 2 = low..high
    BY <2>1, <2>5
  <2> QED BY <2>5, <2>6 DEF OnlyItem
<1>8. \A other : Items(other, 1, 1, 0) = {r} =>
                   DecodeMessage(other) = Messages(fields, other, next)
  <2> SUFFICES ASSUME NEW other, Items(other, 1, 1, 0) = {r}
               PROVE  DecodeMessage(other) = Messages(fields, other, next)
    OBVIOUS
  <2>1. Items(other, 1, 1, 0) = {[value |-> <<Object(fields)>>, next |-> next]}
    BY <1>3
  <2> QED BY <2>1, DecodeIs
<1>9. PICK v : Payloads(frame, next) = {v} /\ (body = <<>> => v = Null)
               /\ (body # <<>> => \A other \in Seq(Byte) :
                     /\ Same(frame, other, Len(frame) + 1) /\ Len(frame) <= Len(other) => Payloads(other, next) = {v}
                     /\ Len(other) \in next..(Len(frame) - 1) /\ Same(other, frame, Len(other) + 1)
                          => Payloads(other, next) = {})
  <2>1. CASE body = <<>>
    <3>1. next > Len(frame)
      BY <1>1, <1>2, <2>1
    <3> QED BY <2>1, <3>1 DEF Payloads
  <2>2. CASE body # <<>>
    <3>1. PICK V : \E vals \in Seq(V) : Len(vals) = 1 /\ Spells(body, vals, k)
      BY <2>2 DEF Spelled
    <3>2. PICK vals \in Seq(V) : Len(vals) = 1 /\ Spells(body, vals, k)
      BY <3>1
    <3>3. PICK s : s = [value |-> vals, next |-> Len(frame) + 1]
      OBVIOUS
    <3>4. s \in Items(frame, 1, next, 0)
      <4>1. Sits(frame, next, body)
        <5>1. \A i \in 1..Len(body) : frame[next + i - 1] = body[i]
          <6> TAKE i \in 1..Len(body)
          <6>1. next + i - 1 = Len(head) + i /\ Len(head) + i \in Len(head) + 1..Len(head) + Len(body)
            BY <1>1, <1>2
          <6>2. frame[Len(head) + i] = body[i]
            BY <1>0, <1>1
          <6> QED BY <6>1, <6>2
        <5>2. next + Len(body) <= Len(frame) + 1 /\ next >= 1
          BY <1>1, <1>2
        <5> QED BY <1>0, <1>1, <5>1, <5>2 DEF Sits
      <4>2. 0 + k <= MaxDepth /\ next + Len(body) = Len(frame) + 1
        BY <1>1, <1>2
      <4>3. [value |-> vals, next |-> next + Len(body)] \in Read(frame)[TaskOf(1, next, 0)]
        BY <1>1, <3>2, <4>1, <4>2 DEF Spells
      <4> QED BY <3>3, <4>2, <4>3, ItemsAt
    <3>5. s.next = Len(frame) + 1 /\ s.value = vals
      BY <3>3
    <3>6. /\ Items(frame, 1, next, 0) = {s}
          /\ \A other \in Seq(Byte) :
                /\ Same(frame, other, Len(frame) + 1) => Items(other, 1, next, 0) = {s}
                /\ Len(other) \in next - 1..Len(frame) - 1 /\ Same(other, frame, Len(other) + 1)
                     => Items(other, 1, next, 0) = {}
      <4>1. PICK end, low, high : end = s.next /\ low = next - 1 /\ high = end - 2
        OBVIOUS
      <4>2. next >= 1 /\ next <= Len(frame) + 1
        BY <1>6
      <4>3. OnlyItem(frame, 1, next, 0, s, end, low, high)
        BY <1>1, <3>4, <4>1, <4>2, ItemAlone
      <4>4. end = Len(frame) + 1 /\ high = Len(frame) - 1 /\ low = next - 1
        BY <1>1, <3>5, <4>1
      <4> QED BY <4>3, <4>4 DEF OnlyItem
    <3>7. \A other : Items(other, 1, next, 0) = {s} /\ next <= Len(other) /\ Len(other) \in Nat
                       => Payloads(other, next) = {vals[1]}
      BY <3>5 DEF Payloads
    <3>8. \A other : Items(other, 1, next, 0) = {} /\ next <= Len(other) /\ Len(other) \in Nat
                       => Payloads(other, next) = {}
      BY DEF Payloads
    <3>9. next <= Len(frame)
      BY <1>0, <1>1, <1>2, <2>2
    <3>10. \A other \in Seq(Byte) : Len(other) \in Nat /\ (Len(frame) <= Len(other) => next <= Len(other))
      BY <1>1, <3>9
    <3>11. \A other \in Seq(Byte) : Len(other) \in next..(Len(frame) - 1)
                                       => Len(other) \in next - 1..Len(frame) - 1 /\ next <= Len(other)
      BY <1>1
    <3>12. \A other \in Seq(Byte) :
              Same(frame, other, Len(frame) + 1) /\ Len(frame) <= Len(other) => Payloads(other, next) = {vals[1]}
      BY <3>6, <3>7, <3>10
    <3>13. \A other \in Seq(Byte) :
              Len(other) \in next..(Len(frame) - 1) /\ Same(other, frame, Len(other) + 1) => Payloads(other, next) = {}
      BY <3>6, <3>8, <3>10, <3>11
    <3>14. Payloads(frame, next) = {vals[1]}
      BY <1>1, <3>6, <3>7, <3>9
    <3> QED BY <2>2, <3>12, <3>13, <3>14
  <2> QED BY <2>1, <2>2
<1>10. DecodeMessage(frame) = {MessageOf(fields, v)}
  BY <1>7, <1>8, <1>9 DEF Messages
<1>11. ASSUME NEW n \in 0..(Len(frame) - 1), DecodeMessage(SubSeq(frame, 1, n)) # {}
       PROVE  n = Len(head) /\ DecodeMessage(SubSeq(frame, 1, n)) = {MessageOf(fields, Null)}
  <2>1. PICK part \in Seq(Byte) : part = SubSeq(frame, 1, n) /\ Len(part) = n /\ Same(part, frame, n + 1)
                                  /\ \A m \in 0..(n + 1) : Same(frame, part, m)
    <3>1. n \in 0..Len(frame)
      BY <1>1
    <3> QED BY <1>1, <3>1, SameCut
  <2>2. CASE n < Len(head)
    <3>1. Len(part) \in 0..next - 2
      BY <1>1, <1>2, <2>1, <2>2
    <3>2. Items(part, 1, 1, 0) = {}
      BY <1>7, <2>1, <3>1
    <3>3. DecodeMessage(part) = {}
      BY <3>2, DecodeNone
    <3> QED BY <1>11, <2>1, <3>3
  <2>3. CASE n >= Len(head)
    <3>1. next \in 0..(n + 1)
      BY <1>1, <1>2, <2>3
    <3>2. Items(part, 1, 1, 0) = {r}
      BY <1>7, <2>1, <3>1
    <3>3. DecodeMessage(part) = Messages(fields, part, next)
      BY <1>8, <3>2
    <3>4. CASE n = Len(head)
      <4>1. Payloads(part, next) = {Null}
        BY <1>1, <1>2, <2>1, <3>4 DEF Payloads
      <4> QED BY <2>1, <3>3, <3>4, <4>1 DEF Messages
    <3>5. CASE n # Len(head)
      <4>1. body # <<>> /\ Len(part) \in next..(Len(frame) - 1)
        BY <1>1, <1>2, <2>1, <2>3, <3>5
      <4>2. Payloads(part, next) = {}
        BY <1>9, <2>1, <4>1
      <4> QED BY <1>11, <2>1, <3>3, <4>2 DEF Messages
    <3> QED BY <3>4, <3>5
  <2> QED BY <1>1, <2>2, <2>3
<1>12. DecodeMessage(frame \o HostileTail) \in {{}, {MessageOf(fields, v)}}
  <2>1. PICK more \in Seq(Byte) : more = frame \o HostileTail /\ Len(more) = Len(frame) + 17
                                  /\ \A m \in 0..(Len(frame) + 1) : Same(frame, more, m)
    <3>1. PICK more : more = frame \o HostileTail
      OBVIOUS
    <3>2. \A m \in 0..(Len(frame) + 1) :
             Same(frame, more, m) /\ more \in Seq(Byte) /\ Len(more) = Len(frame) + Len(HostileTail)
      BY <1>1, <3>1, TailBytes, SameJoined
    <3>3. 0 \in 0..(Len(frame) + 1)
      BY <1>1
    <3>4. more \in Seq(Byte) /\ Len(more) = Len(frame) + 17
      BY <3>2, <3>3, TailBytes
    <3> QED BY <3>1, <3>2, <3>4
  <2>2. Items(more, 1, 1, 0) = {r}
    <3>1. next \in 0..(Len(frame) + 1)
      BY <1>1, <1>2
    <3> QED BY <1>7, <2>1, <3>1
  <2>3. DecodeMessage(more) = Messages(fields, more, next)
    BY <1>8, <2>2
  <2>4. CASE body = <<>>
    <3>1. next = Len(frame) + 1 /\ next \in 1..Len(more)
      BY <1>1, <1>2, <2>1, <2>4
    <3>2. more[next] = 255
      <4>1. more[Len(frame) + 1] = HostileTail[1]
        BY <1>1, <2>1, TailBytes
      <4> QED BY <3>1, <4>1, TailBytes
    <3>3. Items(more, 1, next, 0) = {}
      BY <3>1, <3>2, NoItem
    <3>4. Payloads(more, next) = {}
      BY <2>1, <3>1, <3>3 DEF Payloads
    <3> QED BY <2>1, <2>3, <3>4 DEF Messages
  <2>5. CASE body # <<>>
    <3>1. Same(frame, more, Len(frame) + 1) /\ Len(frame) <= Len(more)
      <4>1. PICK m : m = Len(frame) + 1
        OBVIOUS
      <4>2. m \in 0..(Len(frame) + 1)
        BY <1>1, <4>1
      <4>3. Same(frame, more, m)
        BY <2>1, <4>2
      <4> QED BY <1>1, <2>1, <4>1, <4>3
    <3>2. Payloads(more, next) = {v}
      BY <1>9, <2>5, <3>1
    <3> QED BY <2>1, <2>3, <3>2 DEF Messages
  <2> QED BY <2>4, <2>5
<1>13. [MessageOf(fields, v) EXCEPT !.payload = Null] = MessageOf(fields, Null)
  BY DEF MessageOf
<1> DEFINE shorter == {n \in 0..(Len(frame) - 1) : DecodeMessage(SubSeq(frame, 1, n)) # {}}
           m0 == MessageOf(fields, v)
<1>14. Cardinality(shorter) <= 1
  <2>1. shorter = {} \/ shorter = {Len(head)}
    BY <1>11
  <2> HIDE DEF shorter
  <2>2. CASE shorter = {}
    <3>1. Cardinality({}) = 0
      BY FS_EmptySet
    <3> QED BY <2>2, <3>1
  <2>3. CASE shorter = {Len(head)}
    <3>1. PICK x : x = Len(head)
      OBVIOUS
    <3>2. Cardinality({x}) = 1
      BY FS_Singleton
    <3> QED BY <2>3, <3>1, <3>2
  <2> QED BY <2>1, <2>2, <2>3
<1>15. \A n \in shorter : DecodeMessage(SubSeq(frame, 1, n)) = {[m EXCEPT !.payload = Null] : m \in {m0}}
  <2>1. {[m EXCEPT !.payload = Null] : m \in {m0}} = {MessageOf(fields, Null)}
    <3>1. {[m EXCEPT !.payload = Null] : m \in {m0}} = {[m0 EXCEPT !.payload = Null]}
      <4> HIDE DEF m0
      <4> QED OBVIOUS
    <3> QED BY <1>13, <3>1
  <2> QED BY <1>11, <2>1
<1> QED
  <2>1. DecodeMessage(frame) = {m0}
    BY <1>10
  <2>2. DecodeMessage(frame \o HostileTail) \in {{}, {m0}}
    BY <1>12
  <2> HIDE DEF m0
  <2> QED BY <2>1, <2>2, <1>14, <1>15 DEF Tight

-----------------------------------------------------------------------------
(* The messages of the serves. *)

LEMMA KeysAscii ==
    \A key \in {Key.M, Key.S, Key.E, Key.N, Key.H, Key.BLID} : key \in Seq(Byte) /\ Ascii(key)
<1>1. ASSUME NEW b \in 0..127 PROVE <<b>> \in Seq(Byte) /\ Ascii(<<b>>)
  <2>1. b \in Byte
    BY DEF Byte
  <2> HIDE DEF Byte
  <2> QED BY <2>1 DEF Ascii
<1>2. {Key.M, Key.S, Key.E, Key.N, Key.H, Key.BLID} \subseteq {<<b>> : b \in 0..127}
  BY DEF Key
<1> QED BY <1>1, <1>2

LEMMA EmptyText == <<>> \in Seq(Byte) /\ Ascii(<<>>)
BY DEF Ascii

\* The header of an answer is a map of what it says.
LEMMA HeaderSpelled ==
    ASSUME NEW seq \in Nat, NEW error \in Seq(Byte), Ascii(error)
    PROVE  Header(<<>>, seq, error) \in Seq(Byte) /\ \E fields : Spells(Header(<<>>, seq, error), <<Object(fields)>>, 1)
<1> DEFINE kvs == <<<<Key.M, Text(<<>>)>>, <<Key.S, Uint(seq)>>, <<Key.E, Text(error)>>>>
<1>1. Spelled(Text(<<>>), 1, 0) /\ Spelled(Uint(seq), 1, 0) /\ Spelled(Text(error), 1, 0)
  BY EmptyText, SpelledLeaves
<1>2. PairsOf(kvs, 3, 0)
  <2>1. Len(kvs) = 3 /\ DOMAIN kvs = 1..3
    OBVIOUS
  <2>2. /\ kvs[1][1] = Key.M /\ kvs[1][2] = Text(<<>>) /\ kvs[2][1] = Key.S /\ kvs[2][2] = Uint(seq)
        /\ kvs[3][1] = Key.E /\ kvs[3][2] = Text(error)
    OBVIOUS
  <2> HIDE DEF kvs
  <2>3. \A i \in 1..3 : kvs[i][1] \in {Key.M, Key.S, Key.E} /\ Spelled(kvs[i][2], 1, 0)
    <3>1. \A i \in 1..3 : i = 1 \/ i = 2 \/ i = 3
      OBVIOUS
    <3> QED BY <1>1, <2>2, <3>1
  <2> QED BY <2>1, <2>3, KeysAscii DEF PairsOf
<1>3. PICK k \in Nat, l \in Nat : k = 0 /\ l = 1 /\ l = k + 1
  OBVIOUS
<1>4. \E fields : Spells(Pairs(kvs), <<Object(fields)>>, 1)
  <2> HIDE DEF kvs
  <2> QED BY <1>2, <1>3, SpellsPairs
<1>5. Header(<<>>, seq, error) = Pairs(kvs)
  BY DEF Header
<1> HIDE DEF kvs
<1> QED BY <1>4, <1>5 DEF Spells

\* A header without method, and nothing or an item after it.
Framed(reply) ==
    \E seq \in Nat, error \in Seq(Byte) : \E body :
        /\ Ascii(error) /\ (body = <<>> \/ Spelled(body, 1, 2))
        /\ reply = Message(<<>>, seq, error, body)

\* What the fuzz target asks of a frame (fuzz_p2p_decode.rs: measured lengths
\* under truncation and hostile tails) holds of every such frame that read_frame
\* accepts.
THEOREM FramedTight ==
    ASSUME NEW reply, Framed(reply), LegalFrame(reply)
    PROVE  Tight(reply)
<1>1. PICK seq, error, body :
          /\ seq \in Nat /\ error \in Seq(Byte) /\ Ascii(error)
          /\ (body = <<>> \/ Spelled(body, 1, 2)) /\ reply = Message(<<>>, seq, error, body)
  BY DEF Framed
<1>2. PICK head, fields :
          head \in Seq(Byte) /\ head = Header(<<>>, seq, error) /\ Spells(head, <<Object(fields)>>, 1)
  BY <1>1, HeaderSpelled
<1>3. PICK one \in Nat, k \in Nat : one = 1 /\ k = 2
  OBVIOUS
<1>4. k <= MaxDepth /\ one <= k
  BY <1>3, CborAssumption
<1>5. Spells(head, <<Object(fields)>>, k)
  BY <1>2, <1>3, <1>4, SpellsDeeper
<1>6. Len(reply) < Huge
  BY WireAssumption, HugeIs DEF LegalFrame
<1>7. reply = head \o body /\ (body = <<>> \/ Spelled(body, 1, k))
  BY <1>1, <1>2, <1>3 DEF Message
<1> QED BY <1>2, <1>4, <1>5, <1>6, <1>7, HeaderItem

-----------------------------------------------------------------------------
(* What a handler reads in a message. *)

\* A value whose fields are plain.
Readable(v) == \A key : Plain(Field(v, key))

LEMMA PlainIs ==
    ASSUME NEW v, Plain(v)
    PROVE  /\ StringOr(v, <<>>) \in Seq(Byte) /\ Ascii(StringOr(v, <<>>))
           /\ \A n \in Nat : U64Or(v, n) \in Nat
BY EmptyText DEF Plain, StringOr, U64Or

LEMMA ItemRead ==
    ASSUME NEW buf \in Seq(Byte), NEW at \in Nat, NEW r \in Items(buf, 1, at, 0)
    PROVE  r.value[1] \in ValuesOf(buf) /\ r.next \in Nat
<1>1. PICK t \in Task : t = TaskOf(1, at, 0) /\ t.count = 1
  BY TaskIs
<1>2. r \in Read(buf)[t]
  BY <1>1, ItemsAt
<1>3. r.value \in Seq(ValuesOf(buf)) /\ Len(r.value) = 1
  BY <1>1, <1>2, ReadLength
<1>4. r.next \in Nat
  BY <1>2, ReadAt DEF Ends
<1> QED BY <1>3, <1>4

LEMMA ValueReadable ==
    ASSUME NEW buf \in Seq(Byte), NEW v, v = Null \/ v \in ValuesOf(buf)
    PROVE  Plain(v) /\ Readable(v)
<1>1. CASE v = Null
  BY <1>1, NullPlain DEF Readable, Field
<1>2. CASE v \in ValuesOf(buf)
  <2>1. Plain(v)
    BY <1>2, ValueRead
  <2>2. ASSUME NEW key PROVE Plain(Field(v, key))
    <3>1. CASE IsObject(v) /\ key \in DOMAIN v.fields
      <4>1. v.fields[key] \in ValuesOf(buf)
        BY <1>2, <3>1, ValueRead
      <4> QED BY <3>1, <4>1, ValueRead DEF Field
    <3>2. CASE ~ (IsObject(v) /\ key \in DOMAIN v.fields)
      BY <3>2, NullPlain DEF Field
    <3> QED BY <3>1, <3>2
  <2> QED BY <2>1, <2>2 DEF Readable
<1> QED BY <1>1, <1>2

LEMMA MessageRead ==
    ASSUME NEW buf \in Seq(Byte), NEW m \in DecodeMessage(buf)
    PROVE  m.seq \in Nat /\ (m.payload = Null \/ m.payload \in ValuesOf(buf))
<1> DEFINE headers == {h \in Items(buf, 1, 1, 0) : IsObject(h.value[1])}
           Pays(a) == IF a > Len(buf) THEN {Null} ELSE {x.value[1] : x \in Items(buf, 1, a, 0)}
           Found(object, a) ==
            {[method |-> StringOr(Field(object, Key.M), <<>>),
              seq |-> U64Or(Field(object, Key.S), 0),
              error |-> StringOr(Field(object, Key.E), <<>>),
              payload |-> payload] : payload \in Pays(a)}
<1>1. DecodeMessage(buf) = UNION {Found(h.value[1], h.next) : h \in headers}
  BY Zenon DEF DecodeMessage
<1>2. PICK h \in headers : m \in Found(h.value[1], h.next)
  <2> HIDE DEF headers, Found
  <2> QED BY <1>1
<1>3. PICK object, at : object = h.value[1] /\ at = h.next
  OBVIOUS
<1>4. object \in ValuesOf(buf) /\ at \in Nat
  BY <1>2, <1>3, ItemRead
<1>5. PICK payload \in Pays(at) : m.seq = U64Or(Field(object, Key.S), 0) /\ m.payload = payload
  BY <1>2, <1>3
<1>6. m.seq \in Nat
  BY <1>4, <1>5, ValueReadable, PlainIs DEF Readable
<1>7. payload = Null \/ payload \in ValuesOf(buf)
  BY <1>4, <1>5, ItemRead
<1> QED BY <1>5, <1>6, <1>7

-----------------------------------------------------------------------------
(* The answers of the handlers. *)

Refusals == {BadRequest, NotFound, TooLarge, RateExceeded, BadToken, Mismatch, Disabled, StoreFull}

LEMMA RefusalText == \A words \in Refusals : words \in Seq(Byte) /\ Ascii(words)
<1>1. \A b \in 48..57 : b \in Byte /\ b < 128
  BY DEF Byte
<1>2. \A words \in Refusals : \E a, b, c \in 48..57 : words = <<a, b, c>>
  BY DEF Refusals, BadRequest, NotFound, TooLarge, RateExceeded, BadToken, Mismatch, Disabled, StoreFull
<1> TAKE words \in Refusals
<1>3. PICK a \in 48..57, b \in 48..57, c \in 48..57 : words = <<a, b, c>>
  BY <1>2
<1> HIDE DEF Byte
<1>4. <<a, b, c>> \in Seq(Byte)
  BY <1>1
<1>5. Ascii(<<a, b, c>>)
  BY <1>1 DEF Ascii
<1> QED BY <1>3, <1>4, <1>5

LEMMA RefusalFramed ==
    ASSUME NEW seq \in Nat, NEW words \in Refusals
    PROVE  Framed(ErrorResponse(seq, words))
BY RefusalText DEF Framed, ErrorResponse

LEMMA AnswerFramed ==
    ASSUME NEW seq \in Nat, NEW body, Spelled(body, 1, 2)
    PROVE  Framed(Message(<<>>, seq, <<>>, body))
BY EmptyText DEF Framed

LEMMA HandshakeBody ==
    ASSUME NEW height \in Nat
    PROVE  Spelled(HandshakeResponse(height, 1), 1, 2)
<1> DEFINE kvs == <<<<Key.H, Uint(height)>>, <<Key.N, Uint(1)>>>>
<1>1. PICK k \in Nat, l \in Nat : k = 1 /\ l = 2 /\ l = k + 1
  OBVIOUS
<1>2. Spelled(Uint(height), 1, k) /\ Spelled(Uint(1), 1, k)
  BY SpelledLeaves
<1>3. Len(kvs) = 2 /\ DOMAIN kvs = 1..2 /\ kvs[1][1] = Key.H /\ kvs[1][2] = Uint(height)
      /\ kvs[2][1] = Key.N /\ kvs[2][2] = Uint(1)
  OBVIOUS
<1>4. HandshakeResponse(height, 1) = Pairs(kvs)
  BY DEF HandshakeResponse
<1> HIDE DEF kvs
<1>5. \A i \in 1..2 : kvs[i][1] \in {Key.H, Key.N} /\ Spelled(kvs[i][2], 1, k)
  <2>1. \A i \in 1..2 : i = 1 \/ i = 2
    OBVIOUS
  <2> QED BY <1>2, <1>3, <2>1
<1>6. PairsOf(kvs, 2, k)
  BY <1>3, <1>5, KeysAscii DEF PairsOf
<1> QED BY <1>1, <1>4, <1>6, SpelledPairs

LEMMA PutBody ==
    ASSUME NEW b \in Seq(Byte)
    PROVE  Spelled(PutObjectResponse(b), 1, 2)
<1> DEFINE kvs == <<<<Key.BLID, Bytes(b)>>>>
<1>1. PICK k \in Nat, l \in Nat : k = 1 /\ l = 2 /\ l = k + 1
  OBVIOUS
<1>2. Spelled(Bytes(b), 1, k)
  BY SpelledLeaves
<1>3. Len(kvs) = 1 /\ DOMAIN kvs = 1..1 /\ kvs[1][1] = Key.BLID /\ kvs[1][2] = Bytes(b)
  OBVIOUS
<1>4. PutObjectResponse(b) = Pairs(kvs)
  BY DEF PutObjectResponse
<1> HIDE DEF kvs
<1>5. \A i \in 1..1 : kvs[i][1] \in {Key.BLID} /\ Spelled(kvs[i][2], 1, k)
  BY <1>2, <1>3
<1>6. PairsOf(kvs, 1, k)
  BY <1>3, <1>5, KeysAscii DEF PairsOf
<1> QED BY <1>1, <1>4, <1>6, SpelledPairs

\* Entries are a number and the bytes of an address.
LEMMA ChainBody ==
    ASSUME NEW pairs \in Seq(Nat \X Seq(Byte))
    PROVE  Spelled(ChainResponse(pairs), 1, 2)
<1>1. PICK n \in Nat : n = Len(pairs) /\ DOMAIN pairs = 1..n
  BY LenProperties
<1>2. PICK zero \in Nat, one \in Nat, two \in Nat : zero = 0 /\ one = 1 /\ two = 2 /\ one = zero + 1 /\ two = one + 1
  OBVIOUS
<1> DEFINE OneOf(i) == Array(<<Uint(pairs[i][1]), Bytes(pairs[i][2])>>)
           Entries == [i \in 1..n |-> OneOf(i)]
<1>3. ASSUME NEW i \in 1..n PROVE Spelled(OneOf(i), 1, one)
  <2>1. pairs[i] \in Nat \X Seq(Byte)
    BY <1>1
  <2>2. PICK a, b : a = Uint(pairs[i][1]) /\ b = Bytes(pairs[i][2])
    OBVIOUS
  <2>3. Spelled(a, 1, zero) /\ Spelled(b, 1, zero)
    BY <2>1, <2>2, SpelledLeaves
  <2>4. a \in Seq(Byte) /\ b \in Seq(Byte)
    BY <2>3, SpelledType
  <2>5. PICK items \in Seq(Seq(Byte)) : items = <<a, b>> /\ Len(items) = 2 /\ items[1] = a /\ items[2] = b
    <3>1. <<a, b>> \in Seq(Seq(Byte)) /\ Len(<<a, b>>) = 2 /\ <<a, b>>[1] = a /\ <<a, b>>[2] = b
      BY <2>4
    <3> QED BY <3>1, Zenon
  <2>6. \A j \in 1..Len(items) : Spelled(items[j], 1, zero)
    <3>1. \A j \in 1..2 : j = 1 \/ j = 2
      OBVIOUS
    <3> QED BY <2>3, <2>5, <3>1
  <2>7. Spelled(Array(items), 1, one)
    BY <1>2, <2>6, SpelledArray
  <2> QED BY <2>2, <2>5, <2>7
<1>4. ChainResponse(pairs) = Array(Entries)
  BY <1>1 DEF ChainResponse
<1> HIDE DEF OneOf
<1>5. Entries \in Seq(Seq(Byte)) /\ Len(Entries) = n /\ \A i \in 1..n : Entries[i] = OneOf(i)
  <2>1. \A i \in 1..n : OneOf(i) \in Seq(Byte)
    BY <1>3, SpelledType
  <2> QED BY <2>1
<1> HIDE DEF Entries
<1> QED BY <1>2, <1>3, <1>4, <1>5, SpelledArray

-----------------------------------------------------------------------------
(* The answers of the relay: json_to_cbor. *)

LEMMA SetToSeqIs ==
    ASSUME NEW S, IsFiniteSet(S)
    PROVE  /\ Cardinality(S) \in Nat /\ SetToSeq(S) \in [1..Cardinality(S) -> S]
<1>1. Cardinality(S) \in Nat /\ ExistsBijection(1..Cardinality(S), S)
  BY FS_CardinalityType
<1>2. \E f \in [1..Cardinality(S) -> S] : IsInjective(f)
  BY <1>1 DEF ExistsBijection, Bijection, Injection, IsInjective
<1> QED BY <1>1, <1>2 DEF SetToSeq

Coded(x) ==
    IF x.type = "list" THEN Array([i \in DOMAIN x.items |-> Scalar(x.items[i], Lead(7, 20), Lead(7, 19))])
    ELSE Scalar(x, Lead(7, 20), Lead(7, 19))

LEMMA ObjectBody ==
    ASSUME NEW fields, IsFiniteSet(DOMAIN fields),
           \A key \in DOMAIN fields : key \in Seq(Byte) /\ Ascii(key) /\ Spelled(Coded(fields[key]), 1, 1)
    PROVE  Spelled(JsonToCbor(Object(fields)), 1, 2)
<1>1. PICK keys : keys = SetToSeq(DOMAIN fields)
  OBVIOUS
<1>2. PICK n \in Nat : keys \in [1..n -> DOMAIN fields]
  BY <1>1, SetToSeqIs
<1> DEFINE kvs == [i \in DOMAIN keys |-> <<keys[i], Coded(fields[keys[i]])>>]
<1>3. JsonToCbor(Object(fields)) = Pairs(kvs)
  <2>1. IsObject(Object(fields)) /\ Object(fields).fields = fields
    BY DEF IsObject, Object
  <2> QED BY <1>1, <2>1, Zenon DEF JsonToCbor, Encoded, Coded
<1>4. PICK k \in Nat, l \in Nat : k = 1 /\ l = 2 /\ l = k + 1
  OBVIOUS
<1>5. DOMAIN kvs = 1..n /\ \A i \in 1..n : kvs[i][1] = keys[i] /\ kvs[i][2] = Coded(fields[keys[i]])
  BY <1>2
<1>6. Len(kvs) = n
  BY <1>2
<1> HIDE DEF kvs
<1>7. PairsOf(kvs, n, k)
  BY <1>2, <1>4, <1>5, <1>6 DEF PairsOf
<1> QED BY <1>3, <1>4, <1>7, SpelledPairs

\* The names of the fields are one character each, and distinct.
LEMMA FabricKeys ==
    \A key \in {FabricKey.token, FabricKey.expires, FabricKey.queued, FabricKey.pointers} :
        key \in Seq(Byte) /\ Ascii(key)
<1>1. ASSUME NEW b \in 0..127 PROVE <<b>> \in Seq(Byte) /\ Ascii(<<b>>)
  <2>1. b \in Byte
    BY DEF Byte
  <2> HIDE DEF Byte
  <2> QED BY <2>1 DEF Ascii
<1>2. {FabricKey.token, FabricKey.expires, FabricKey.queued, FabricKey.pointers} \subseteq {<<b>> : b \in 0..127}
  BY DEF FabricKey
<1> QED BY <1>1, <1>2

\* What the relay returns is written as an object of few fields.
LEMMA AcceptedBody ==
    ASSUME NEW verb, NEW request, Readable(request), Acceptable(verb, request)
    PROVE  Spelled(JsonToCbor(Accepted(verb, request)), 1, 2)
<1>1. PICK one \in Nat, zero \in Nat : one = 1 /\ zero = 0 /\ one = zero + 1
  OBVIOUS
<1>2. ASSUME NEW s \in Seq(Byte), Ascii(s) PROVE Spelled(Coded(String(s)), 1, 1)
  <2>1. Coded(String(s)) = Text(s)
    BY DEF Coded, Scalar, String
  <2> QED BY <1>2, <2>1, SpelledLeaves
<1>3. CASE verb = Verb.reg
  <2>0. Verb.reg # Verb.put
    BY DEF Verb
  <2>1. FabricKey.token \in Insists(verb)
    BY <1>3, <2>0 DEF Insists, RegInsists
  <2>2. PICK v : v = Field(request, FabricKey.token)
    OBVIOUS
  <2>3. IsString(v) /\ Plain(v)
    BY <2>1, <2>2 DEF Acceptable, Readable
  <2>4. Spelled(Coded(v), 1, 1)
    <3>1. v.type = "string" /\ v.chars \in Seq(Byte) /\ Ascii(v.chars)
      BY <2>3 DEF Plain, IsString
    <3>2. Coded(v) = Text(v.chars)
      BY <3>1 DEF Coded, Scalar
    <3> QED BY <3>1, <3>2, SpelledLeaves
  <2>5. Spelled(Coded(Number(Huge)), 1, 1)
    <3>1. Coded(Number(Huge)) = Uint(Huge)
      BY DEF Coded, Scalar, Number
    <3> QED BY <3>1, HugeIs, SpelledLeaves
  <2>6. PICK fields : fields = Also(Entry(FabricKey.token, v), Entry(FabricKey.expires, Number(Huge)))
    OBVIOUS
  <2>7. FabricKey.token # FabricKey.expires
    BY DEF FabricKey
  <2>8. /\ DOMAIN fields = {FabricKey.token, FabricKey.expires}
        /\ fields[FabricKey.token] = v /\ fields[FabricKey.expires] = Number(Huge)
    BY <2>6, <2>7 DEF Also, Entry
  <2>9. IsFiniteSet(DOMAIN fields)
    <3>1. PICK a, b : a = FabricKey.token /\ b = FabricKey.expires
      OBVIOUS
    <3>2. IsFiniteSet({a} \cup {b})
      BY FS_Singleton, FS_AddElement
    <3>3. {a} \cup {b} = {a, b}
      OBVIOUS
    <3> QED BY <2>8, <3>1, <3>2, <3>3
  <2>10. Accepted(verb, request) = Object(fields)
    BY <1>3, <2>0, <2>2, <2>6 DEF Accepted, RegAccepts
  <2> QED BY <2>4, <2>5, <2>8, <2>9, <2>10, FabricKeys, ObjectBody
<1>4. CASE verb = Verb.put /\ verb # Verb.reg
  <2>1. PICK fields : fields = Entry(FabricKey.queued, Bool(TRUE))
    OBVIOUS
  <2>2. DOMAIN fields = {FabricKey.queued} /\ fields[FabricKey.queued] = Bool(TRUE)
    BY <2>1 DEF Entry
  <2>3. Spelled(Coded(Bool(TRUE)), 1, 1)
    <3>1. Coded(Bool(TRUE)) = Lead(7, 20)
      BY DEF Coded, Scalar, Bool
    <3>2. PICK n \in 0..23 : n = 20
      OBVIOUS
    <3>3. Spelled(Lead(7, n), 1, one)
      BY <1>1, SpelledSimple
    <3> QED BY <1>1, <3>1, <3>2, <3>3
  <2>4. IsFiniteSet(DOMAIN fields)
    BY <2>2, FS_Singleton
  <2>5. Accepted(verb, request) = Object(fields)
    BY <1>4, <2>1 DEF Accepted, PutAccepts
  <2> QED BY <2>2, <2>3, <2>4, <2>5, FabricKeys, ObjectBody
<1>5. CASE verb \notin {Verb.put, Verb.reg}
  <2>1. PICK a, b, two : a = <<112, 49>> /\ b = <<112, 50>> /\ two = List(<<String(a), String(b)>>)
    OBVIOUS
  <2>2. a \in Seq(Byte) /\ Ascii(a) /\ b \in Seq(Byte) /\ Ascii(b)
    <3>1. 112 \in Byte /\ 49 \in Byte /\ 50 \in Byte
      BY DEF Byte
    <3> HIDE DEF Byte
    <3> QED BY <2>1, <3>1 DEF Ascii
  <2>3. PICK fields : fields = Entry(FabricKey.pointers, two)
    OBVIOUS
  <2>4. DOMAIN fields = {FabricKey.pointers} /\ fields[FabricKey.pointers] = two
    BY <2>3 DEF Entry
  <2>5. Spelled(Coded(two), 1, 1)
    <3>1. PICK s, t : s = Text(a) /\ t = Text(b)
      OBVIOUS
    <3>2. Spelled(s, 1, zero) /\ Spelled(t, 1, zero)
      BY <2>2, <3>1, SpelledLeaves
    <3>3. s \in Seq(Byte) /\ t \in Seq(Byte)
      BY <3>2, SpelledType
    <3>4. PICK items \in Seq(Seq(Byte)) : items = <<s, t>> /\ Len(items) = 2 /\ items[1] = s /\ items[2] = t
      <4>1. <<s, t>> \in Seq(Seq(Byte)) /\ Len(<<s, t>>) = 2 /\ <<s, t>>[1] = s /\ <<s, t>>[2] = t
        BY <3>3
      <4> QED BY <4>1, Zenon
    <3>5. \A j \in 1..Len(items) : Spelled(items[j], 1, zero)
      <4>1. \A j \in 1..2 : j = 1 \/ j = 2
        OBVIOUS
      <4> QED BY <3>2, <3>4, <4>1
    <3>6. Spelled(Array(items), 1, one)
      BY <1>1, <3>5, SpelledArray
    <3>7. Coded(two) = Array([i \in 1..2 |-> Scalar(<<String(a), String(b)>>[i], Lead(7, 20), Lead(7, 19))])
      BY <2>1 DEF Coded, List
    <3>8. Scalar(String(a), Lead(7, 20), Lead(7, 19)) = s /\ Scalar(String(b), Lead(7, 20), Lead(7, 19)) = t
      BY <3>1 DEF Scalar, String
    <3>9. [i \in 1..2 |-> Scalar(<<String(a), String(b)>>[i], Lead(7, 20), Lead(7, 19))] = <<s, t>>
      BY <3>8
    <3> QED BY <1>1, <3>4, <3>6, <3>7, <3>9
  <2>6. IsFiniteSet(DOMAIN fields)
    BY <2>4, FS_Singleton
  <2>7. Accepted(verb, request) = Object(fields)
    BY <1>5, <2>1, <2>3 DEF Accepted, PopAccepts
  <2> QED BY <2>4, <2>5, <2>6, <2>7, FabricKeys, ObjectBody
<1> QED BY <1>3, <1>4, <1>5

-----------------------------------------------------------------------------
(* The handlers: what they answer, and that they leave a hold of files. *)

LEMMA Methods ==
    /\ Method.Handshake # Method.Chain /\ Method.Handshake # Method.GetObject /\ Method.Handshake # Method.PutObject
    /\ Method.Chain # Method.GetObject /\ Method.Chain # Method.PutObject /\ Method.GetObject # Method.PutObject
    /\ <<>> \notin {Method.Handshake, Method.Chain, Method.GetObject, Method.PutObject}
BY DEF Method

\* An address read with or without its signs.
LEMMA HexDecodeIs ==
    ASSUME NEW V, NEW s \in Seq(V), HexDecodes(s)
    PROVE  HexDecode(s) \in Seq(Byte)
<1>1. PICK n \in Nat : n = Len(s) /\ DOMAIN s = 1..n
  BY LenProperties
<1>2. PICK W : W = V \cup {48}
  OBVIOUS
<1>3. Unsigned(s) \in Seq(W)
  BY <1>1, <1>2 DEF Unsigned
<1> QED BY <1>3, UnhexIs DEF HexDecodes, HexDecode

LEMMA FileIs ==
    ASSUME NEW hold \in Seq(File), NEW i \in DOMAIN hold
    PROVE  /\ hold[i].name \in HexText /\ hold[i].name \in Seq(Byte) /\ IsHex(hold[i].name)
           /\ hold[i].body \in Seq(Byte)
<1>1. hold[i] \in File
  BY ElementOfSeq, LenProperties
<1> QED BY <1>1 DEF File, HexText

LEMMA ServeBodyIs ==
    ASSUME NEW hold \in Seq(File), NEW name, NEW found, found = ServeBody(hold, name)
    PROVE  IF "err" \in DOMAIN found THEN found.err \in Refusals ELSE found.body \in Seq(Byte)
<1> DEFINE i == CHOOSE i \in Named(hold, name) : TRUE
<1>1. CASE ~HexDecodes(name) \/ Len(name) # 2 * AddressLen
  <2>1. found = [err |-> BadRequest]
    BY <1>1 DEF ServeBody
  <2> QED BY <2>1 DEF Refusals
<1>2. CASE HexDecodes(name) /\ Len(name) = 2 * AddressLen /\ Named(hold, name) = {}
  <2>1. found = [err |-> NotFound]
    BY <1>2 DEF ServeBody
  <2> QED BY <2>1 DEF Refusals
<1>3. CASE HexDecodes(name) /\ Len(name) = 2 * AddressLen /\ Named(hold, name) # {}
  <2>1. found = IF Address(hold[i].body) # HexDecode(name) THEN [err |-> Mismatch] ELSE [body |-> hold[i].body]
    BY <1>3 DEF ServeBody
  <2>2. i \in DOMAIN hold
    BY <1>3 DEF Named
  <2>3. hold[i].body \in Seq(Byte)
    BY <2>2, FileIs
  <2>4. PICK body : body = hold[i].body
    OBVIOUS
  <2>5. CASE Address(body) # HexDecode(name)
    <3>1. found = [err |-> Mismatch]
      BY <2>1, <2>4, <2>5
    <3> QED BY <3>1 DEF Refusals
  <2>6. CASE Address(body) = HexDecode(name)
    <3>1. found = [body |-> body]
      BY <2>1, <2>4, <2>6
    <3>2. "err" \notin DOMAIN found /\ found.body = body
      BY <3>1
    <3> QED BY <2>3, <2>4, <3>2
  <2> QED BY <2>5, <2>6
<1> QED BY <1>1, <1>2, <1>3

LEMMA StoreBodyIs ==
    ASSUME NEW hold \in Seq(File), NEW body \in Seq(Byte), Address(body) \in Seq(Byte),
           NEW stored, stored = StoreBody(hold, body)
    PROVE  IF "err" \in DOMAIN stored THEN stored.err \in Refusals ELSE stored.hold \in Seq(File)
<1>1. PICK name : name = Hex(Address(body))
  OBVIOUS
<1>2. name \in HexText
  BY <1>1, HexIs DEF HexText
<1>3. stored \in {[err |-> BadRequest], [err |-> TooLarge], [hold |-> hold],
                  [hold |-> Append(hold, [name |-> name, body |-> body])]}
  BY <1>1 DEF StoreBody
<1>4. Append(hold, [name |-> name, body |-> body]) \in Seq(File)
  <2>1. [name |-> name, body |-> body] \in File
    BY <1>2 DEF File
  <2> QED BY <2>1, AppendProperties
<1>5. PICK new : new = Append(hold, [name |-> name, body |-> body])
  OBVIOUS
<1>6. CASE stored \in {[err |-> BadRequest], [err |-> TooLarge]}
  <2>1. "err" \in DOMAIN stored /\ stored.err \in {BadRequest, TooLarge}
    BY <1>6
  <2> QED BY <2>1 DEF Refusals
<1>7. CASE stored \in {[hold |-> hold], [hold |-> new]}
  <2>1. "err" \notin DOMAIN stored /\ stored.hold \in {hold, new}
    BY <1>7
  <2> QED BY <1>4, <1>5, <2>1
<1> QED BY <1>3, <1>5, <1>6, <1>7

\* The entries of a chain, with the bytes of their addresses.
LEMMA SelectedIs ==
    ASSUME NEW hold \in Seq(File), NEW top \in Nat, NEW n \in Nat, NEW entries, entries = Selected(hold, top, n)
    PROVE  [i \in DOMAIN entries |-> <<entries[i][1], Unhex(entries[i][2])>>] \in Seq(Nat \X Seq(Byte))
<1>1. PICK len \in Nat : len = Len(hold) /\ DOMAIN hold = 1..len
  BY LenProperties
<1>2. PICK first : first = (IF top # 0 /\ top < Len(hold) THEN top + 1 ELSE Len(hold))
  OBVIOUS
<1>3. first \in 0..len /\ first \in Nat
  BY <1>1, <1>2
<1>4. PICK count : count = (IF n = 0 THEN first ELSE Least(n, first))
  OBVIOUS
<1>5. count \in 0..first /\ count \in Nat
  BY <1>3, <1>4 DEF Least
<1>6. entries = [j \in 1..count |-> <<first - j, hold[first + 1 - j].name>>]
  BY <1>2, <1>4 DEF Selected
<1> DEFINE Pair(j) == <<entries[j][1], Unhex(entries[j][2])>>
<1>7. ASSUME NEW j \in 1..count PROVE Pair(j) \in Nat \X Seq(Byte)
  <2>1. PICK i \in 1..len : i = first + 1 - j
    <3>1. first + 1 - j \in 1..len
      BY <1>3, <1>5
    <3> QED BY <3>1, Zenon
  <2>2. PICK name : name = hold[i].name
    OBVIOUS
  <2>3. Unhex(name) \in Seq(Byte)
    <3>1. name \in Seq(Byte) /\ IsHex(name)
      BY <1>1, <2>2, FileIs
    <3> QED BY <3>1, UnhexIs
  <2>4. entries[j][1] = first - j /\ entries[j][2] = name
    BY <1>6, <2>1, <2>2
  <2>5. first - j \in Nat
    BY <1>3, <1>5
  <2> QED BY <2>3, <2>4, <2>5
<1>8. DOMAIN entries = 1..count
  BY <1>6
<1> HIDE DEF Pair
<1>9. [j \in 1..count |-> Pair(j)] \in Seq(Nat \X Seq(Byte))
  <2>1. PICK W : W = Nat \X Seq(Byte)
    OBVIOUS
  <2> QED BY <1>5, <1>7, <2>1
<1> QED BY <1>8, <1>9 DEF Pair

\* A handling that answers one frame and leaves files.
Good(h) == h.hold \in Seq(File) /\ Framed(h.reply)

LEMMA RefusalGood ==
    ASSUME NEW hold \in Seq(File), NEW seq \in Nat, NEW words \in Refusals, NEW ran, NEW said
    PROVE  Good(Handling(ErrorResponse(seq, words), hold, ran, said))
BY RefusalFramed DEF Good, Handling

LEMMA AnswerGood ==
    ASSUME NEW hold \in Seq(File), NEW seq \in Nat, NEW body, Spelled(body, 1, 2), NEW ran, NEW said
    PROVE  Good(Handling(Message(<<>>, seq, <<>>, body), hold, ran, said))
BY AnswerFramed DEF Good, Handling

LEMMA Rpc2Good ==
    ASSUME NEW hold \in Seq(File), NEW cfg, NEW msg, msg.seq \in Nat, Plain(msg.payload), Readable(msg.payload),
           NEW h \in Rpc2(msg, hold, cfg)
    PROVE  Good(h)
<1> DEFINE ran == To("rpc2", msg.method, msg.payload)
           Reply(body, to, data) == Handling(Message(<<>>, msg.seq, <<>>, body), to, ran, Ok(data))
           Refuse(words) == Handling(ErrorResponse(msg.seq, words), hold, ran, Error(words))
           blid == StringOr(Field(msg.payload, Key.BLID), <<>>)
<1>1. \A words \in Refusals : Good(Refuse(words))
  BY RefusalGood
<1>2. ASSUME NEW body, Spelled(body, 1, 2), NEW to \in Seq(File), NEW data PROVE Good(Reply(body, to, data))
  BY <1>2, AnswerGood
<1>3. PICK len \in Nat : len = Len(hold)
  BY LenProperties
<1>4. blid \in Seq(Byte)
  BY PlainIs DEF Readable
<1>5. CASE msg.method = Method.Handshake
  <2>1. h = Reply(HandshakeResponse(Len(hold), 1), hold, Len(hold))
    BY <1>5, Methods DEF Rpc2
  <2> HIDE DEF Reply
  <2> QED BY <1>2, <1>3, <2>1, HandshakeBody
<1>6. CASE msg.method = Method.Chain
  <2>1. PICK top \in Nat, n \in Nat :
            /\ top = U64Or(Field(msg.payload, Key.TOP), 0)
            /\ n = Least(U64Or(Field(msg.payload, Key.N), 128), ChainMax)
    <3>1. U64Or(Field(msg.payload, Key.TOP), 0) \in Nat /\ U64Or(Field(msg.payload, Key.N), 128) \in Nat
      BY PlainIs DEF Readable
    <3>2. Least(U64Or(Field(msg.payload, Key.N), 128), ChainMax) \in Nat
      BY <3>1, WireAssumption DEF Least
    <3> QED BY <3>1, <3>2
  <2>2. PICK entries : entries = Selected(hold, top, n)
    OBVIOUS
  <2>3. PICK pairs : pairs = [i \in DOMAIN entries |-> <<entries[i][1], Unhex(entries[i][2])>>]
    OBVIOUS
  <2>4. h = Reply(ChainResponse(pairs), hold, entries)
    BY <1>6, <2>1, <2>2, <2>3, Methods DEF Rpc2
  <2>5. Spelled(ChainResponse(pairs), 1, 2)
    BY <2>2, <2>3, SelectedIs, ChainBody
  <2> HIDE DEF Reply
  <2> QED BY <1>2, <2>4, <2>5
<1>7. CASE msg.method = Method.GetObject
  <2>1. PICK found : found = ServeBody(hold, blid)
    OBVIOUS
  <2>2. h = IF "err" \in DOMAIN found THEN Refuse(found.err)
            ELSE Reply(GetObjectResponse(found.body), hold, found.body)
    BY <1>7, <2>1, Methods DEF Rpc2
  <2>3. IF "err" \in DOMAIN found THEN found.err \in Refusals ELSE found.body \in Seq(Byte)
    BY <2>1, ServeBodyIs
  <2> HIDE DEF Reply, Refuse
  <2>4. CASE "err" \in DOMAIN found
    BY <1>1, <2>2, <2>3, <2>4
  <2>5. CASE "err" \notin DOMAIN found
    <3>1. Spelled(GetObjectResponse(found.body), 1, 2)
      BY <2>3, <2>5, SpelledLeaves DEF GetObjectResponse
    <3> QED BY <1>2, <2>2, <2>5, <3>1
  <2> QED BY <2>4, <2>5
<1>8. CASE msg.method = Method.PutObject
  <2>1. PICK hex : hex = StringOr(Field(msg.payload, Key.BODY), <<>>)
    OBVIOUS
  <2>2. PICK body : body = Unhex(hex)
    OBVIOUS
  <2>3. PICK stored : stored = StoreBody(hold, body)
    OBVIOUS
  <2>4. \/ h \in {Refuse(BadRequest), Refuse(RateExceeded), Refuse(BadToken), Refuse(StoreFull)}
        \/ /\ IsHex(hex) /\ HexDecodes(blid) /\ HexDecode(blid) = Address(body)
           /\ h = IF "err" \in DOMAIN stored THEN Refuse(stored.err)
                  ELSE Reply(PutObjectResponse(Address(body)), stored.hold, Address(body))
    <3> HIDE DEF Refuse, Reply
    <3>1. Rpc2(msg, hold, cfg) =
            IF ~IsHex(hex) THEN {Refuse(BadRequest)}
            ELSE {Refuse(RateExceeded)} \cup
                 IF cfg.token # <<>> /\ StringOr(Field(msg.payload, Key.TOKEN), <<>>) # cfg.token
                 THEN {Refuse(BadToken)}
                 ELSE {Refuse(StoreFull)} \cup
                      {IF ~HexDecodes(blid) \/ HexDecode(blid) # Address(body) THEN Refuse(BadRequest)
                       ELSE IF "err" \in DOMAIN stored THEN Refuse(stored.err)
                       ELSE Reply(PutObjectResponse(Address(body)), stored.hold, Address(body))}
      <4> USE DEF Refuse, Reply
      <4> QED BY <1>8, <2>1, <2>2, <2>3, Methods DEF Rpc2
    <3> QED BY <3>1
  <2>5. hex \in Seq(Byte)
    BY <2>1, PlainIs DEF Readable
  <2> HIDE DEF Reply, Refuse, blid
  <2>6. CASE h \in {Refuse(BadRequest), Refuse(RateExceeded), Refuse(BadToken), Refuse(StoreFull)}
    BY <1>1, <2>6 DEF Refusals
  <2>7. CASE /\ IsHex(hex) /\ HexDecodes(blid) /\ HexDecode(blid) = Address(body)
             /\ h = IF "err" \in DOMAIN stored THEN Refuse(stored.err)
                    ELSE Reply(PutObjectResponse(Address(body)), stored.hold, Address(body))
    <3>1. body \in Seq(Byte)
      BY <2>2, <2>5, <2>7, UnhexIs
    <3>2. Address(body) \in Seq(Byte)
      BY <1>4, <2>7, HexDecodeIs
    <3>3. IF "err" \in DOMAIN stored THEN stored.err \in Refusals ELSE stored.hold \in Seq(File)
      BY <2>3, <3>1, <3>2, StoreBodyIs
    <3>4. Spelled(PutObjectResponse(Address(body)), 1, 2)
      BY <3>2, PutBody
    <3> QED BY <1>1, <1>2, <2>7, <3>3, <3>4
  <2> QED BY <2>4, <2>6, <2>7
<1>9. CASE msg.method \notin {Method.Handshake, Method.Chain, Method.GetObject, Method.PutObject}
  <2>1. h = Refuse(Disabled)
    BY <1>9 DEF Rpc2
  <2> HIDE DEF Refuse
  <2> QED BY <1>1, <2>1 DEF Refusals
<1> QED BY <1>5, <1>6, <1>7, <1>8, <1>9

LEMMA FabricRpc2Good ==
    ASSUME NEW hold \in Seq(File), NEW cfg, NEW msg, msg.seq \in Nat, Plain(msg.payload), Readable(msg.payload),
           NEW h \in FabricRpc2(msg, hold, cfg)
    PROVE  Good(h)
<1> DEFINE ran == To("fabric", msg.method, msg.payload)
           Refuse(words) == Handling(ErrorResponse(msg.seq, words), hold, ran, Error(words))
<1>1. \A words \in Refusals : Good(Refuse(words))
  BY RefusalGood
<1>2. PICK verb, value : verb = VerbOf[msg.method] /\ value = Accepted(verb, msg.payload)
  OBVIOUS
<1>3. \/ h \in {Refuse(Disabled), Refuse(BadRequest), Refuse(NotFound)}
      \/ /\ Acceptable(verb, msg.payload)
         /\ h = Handling(Message(<<>>, msg.seq, <<>>, JsonToCbor(value)), hold, ran, Ok(value))
  BY <1>2 DEF FabricRpc2, Refusable
<1>4. CASE h \in {Refuse(Disabled), Refuse(BadRequest), Refuse(NotFound)}
  <2> HIDE DEF Refuse
  <2> QED BY <1>1, <1>4 DEF Refusals
<1>5. CASE /\ Acceptable(verb, msg.payload)
           /\ h = Handling(Message(<<>>, msg.seq, <<>>, JsonToCbor(value)), hold, ran, Ok(value))
  BY <1>2, <1>5, AcceptedBody, AnswerGood
<1> QED BY <1>3, <1>4, <1>5

\* Whatever a frame asks for (handle_client 488-550, handle_rpc2 372-486): the hold
\* stays one of files, and who calls by rpc2 is answered by a header and at most
\* an item.
THEOREM HandlingsFramed ==
    ASSUME NEW frame \in Seq(Byte), NEW hold \in Seq(File), NEW cfg, NEW h \in Handlings(frame, hold, cfg)
    PROVE  h.hold \in Seq(File) /\ (h.ran.method # <<>> => Framed(h.reply))
<1> DEFINE calls == {m \in DecodeMessage(frame) : m.method # <<>>}
           requests == FromJson(frame, 1)
           Answers(m) == IF IsFabric(m.method) THEN FabricRpc2(m, hold, cfg) ELSE Rpc2(m, hold, cfg)
           Serves(r) == IF IsString(Field(r, FabricKey.verb)) THEN FabricVerb(r, hold, cfg) ELSE CidFetch(r, hold)
           refusal == Handling(FrameErr(BadRequest), hold, To("none", <<>>, Null), Error(BadRequest))
<1>1. Handlings(frame, hold, cfg) =
        IF calls # {} THEN UNION {Answers(m) : m \in calls}
        ELSE IF requests = {} THEN {refusal} ELSE UNION {Serves(r) : r \in requests}
  BY Zenon DEF Handlings
<1>2. ASSUME NEW m \in calls, h \in Answers(m) PROVE Good(h)
  <2>1. m.seq \in Nat /\ Plain(m.payload) /\ Readable(m.payload)
    BY MessageRead, ValueReadable
  <2> QED BY <1>2, <2>1, Rpc2Good, FabricRpc2Good
<1>3. ASSUME NEW r, h \in Serves(r) PROVE h.hold = hold /\ h.ran.method = <<>>
  <2>1. CASE h \in FabricVerb(r, hold, cfg)
    BY <2>1 DEF FabricVerb, Handling, To
  <2>2. CASE h \in CidFetch(r, hold)
    BY <2>2 DEF CidFetch, Handling, To
  <2> QED BY <1>3, <2>1, <2>2
<1>4. refusal.hold = hold /\ refusal.ran.method = <<>>
  BY DEF Handling, To
<1> HIDE DEF calls, requests, Answers, Serves, refusal
<1>5. CASE \E m \in calls : h \in Answers(m)
  BY <1>2, <1>5 DEF Good
<1>6. CASE (\E r \in requests : h \in Serves(r)) \/ h = refusal
  BY <1>3, <1>4, <1>6
<1> QED BY <1>1, <1>5, <1>6

-----------------------------------------------------------------------------
(* The calls of the clients. *)

\* A sequence of calls that the serves' answers are read for.
AskedWell(calls) == \E S : calls \in Seq(S) /\ \A call \in S : WellAsked(call)

LEMMA WellOf ==
    ASSUME NEW S, NEW calls \in Seq(S), \A call \in S : WellAsked(call)
    PROVE  AskedWell(calls)
BY Zenon DEF AskedWell

LEMMA GetWell ==
    ASSUME NEW seq, NEW blid \in Seq(Byte)
    PROVE  WellAsked(GetCall(seq, blid))
<1> DEFINE request == Object(Entry(Key.BLID, String(Hex(blid))))
<1>1. GetCall(seq, blid).for = To("rpc2", Method.GetObject, request)
  BY DEF GetCall, Rpc2Call
<1>2. Field(request, Key.BLID) = String(Hex(blid))
  BY DEF Field, IsObject, Object, Entry
<1> HIDE DEF request
<1>3. PICK for : for = GetCall(seq, blid).for
  OBVIOUS
<1>4. for.family = "rpc2" /\ for.request = request
  BY <1>1, <1>3 DEF To
<1>5. Hex(blid) \in HexText
  BY HexIs DEF HexText
<1> QED BY <1>2, <1>3, <1>4, <1>5 DEF WellAsked, String

\* Calls of other methods.
LEMMA OtherWell ==
    /\ \A method, seq, body, request : method # Method.GetObject => WellAsked(Rpc2Call(method, seq, body, request))
    /\ \A family, request : WellAsked(JsonCall(family, request))
<1>1. ASSUME NEW method, NEW seq, NEW body, NEW request, method # Method.GetObject
      PROVE  WellAsked(Rpc2Call(method, seq, body, request))
  BY <1>1 DEF WellAsked, Rpc2Call, To
<1>2. ASSUME NEW family, NEW request PROVE WellAsked(JsonCall(family, request))
  BY Methods DEF WellAsked, JsonCall, To
<1> QED BY <1>1, <1>2

\* A function on 1..n whose values are calls.
LEMMA ListedWell ==
    ASSUME NEW n \in Nat, NEW calls, DOMAIN calls = 1..n, calls = [i \in 1..n |-> calls[i]],
           \A i \in 1..n : WellAsked(calls[i])
    PROVE  AskedWell(calls)
<1>1. PICK S : S = {calls[i] : i \in 1..n}
  OBVIOUS
<1>2. calls \in Seq(S)
  BY <1>1
<1>3. \A call \in S : WellAsked(call)
  BY <1>1
<1> QED BY <1>2, <1>3, WellOf

LEMMA JoinedWell ==
    ASSUME NEW a, AskedWell(a), NEW b, AskedWell(b)
    PROVE  AskedWell(a \o b)
<1>1. PICK S : a \in Seq(S) /\ \A call \in S : WellAsked(call)
  BY DEF AskedWell
<1>2. PICK T : b \in Seq(T) /\ \A call \in T : WellAsked(call)
  BY DEF AskedWell
<1>3. PICK U : U = S \cup T
  OBVIOUS
<1>4. a \in Seq(U) /\ b \in Seq(U)
  BY <1>1, <1>2, <1>3
<1>5. a \o b \in Seq(U) /\ \A call \in U : WellAsked(call)
  BY <1>1, <1>2, <1>3, <1>4
<1> QED BY <1>5 DEF AskedWell

LEMMA PartsWell ==
    /\ AskedWell(<<>>)
    /\ \A calls : AskedWell(calls) /\ calls # <<>> => AskedWell(Tail(calls)) /\ WellAsked(Head(calls))
<1>1. AskedWell(<<>>)
  <2>1. PICK S : S = {}
    OBVIOUS
  <2>2. <<>> \in Seq(S) /\ \A call \in S : WellAsked(call)
    BY <2>1
  <2> QED BY <2>2, WellOf
<1>2. ASSUME NEW calls, AskedWell(calls), calls # <<>> PROVE AskedWell(Tail(calls)) /\ WellAsked(Head(calls))
  <2>1. PICK S : calls \in Seq(S) /\ \A call \in S : WellAsked(call)
    BY <1>2 DEF AskedWell
  <2>2. Tail(calls) \in Seq(S) /\ Head(calls) \in S
    BY <1>2, <2>1
  <2> QED BY <2>1, <2>2 DEF AskedWell
<1> QED BY <1>1, <1>2

LEMMA FirstCallsWell == ASSUME NEW p PROVE AskedWell(FirstCalls(p))
<1>1. ASSUME NEW call, WellAsked(call) PROVE AskedWell(<<call>>)
  <2>1. PICK S : S = {call}
    BY Zenon
  <2>2. <<call>> \in Seq(S) /\ \A x \in S : WellAsked(x)
    BY <1>1, <2>1
  <2> QED BY <2>2, WellOf
<1>2. CASE Is(p, "fetch")
  <2>1. PICK name : FirstCalls(p) = <<FetchCall(name)>>
    BY <1>2 DEF FirstCalls, Is
  <2> QED BY <1>1, <2>1, OtherWell DEF FetchCall
<1>3. CASE Is(p, "fabric")
  <2>1. PICK request : FirstCalls(p) = <<JsonCall("verb", request)>>
    BY <1>3 DEF FirstCalls, Is
  <2> QED BY <1>1, <2>1, OtherWell
<1>4. CASE Is(p, "foreign")
  <2>1. FirstCalls(p) = ForeignCalls
    BY <1>4 DEF FirstCalls, Is
  <2>2. PICK S : S = ToSet(ForeignCalls)
    OBVIOUS
  <2>3. ForeignCalls \in Seq(S) /\ \A call \in S : WellAsked(call)
    BY <2>2, HoldsAssumption DEF ToSet
  <2> QED BY <2>1, <2>3 DEF AskedWell
<1>5. CASE ~ Is(p, "fetch") /\ ~ Is(p, "fabric") /\ ~ Is(p, "foreign")
  <2>1. FirstCalls(p) = <<HandshakeCall, ChainCall>>
    BY <1>5 DEF FirstCalls
  <2>2. WellAsked(HandshakeCall) /\ WellAsked(ChainCall)
    BY OtherWell, Methods DEF HandshakeCall, ChainCall
  <2>3. PICK S : S = {HandshakeCall, ChainCall}
    BY Zenon
  <2>4. <<HandshakeCall, ChainCall>> \in Seq(S) /\ \A x \in S : WellAsked(x)
    BY <2>2, <2>3
  <2> QED BY <2>1, <2>4, WellOf
<1> QED BY <1>2, <1>3, <1>4, <1>5

-----------------------------------------------------------------------------
(* What the clients read in an answer. *)

\* A call by rpc2 that succeeds has read a message.
LEMMA ResultRead ==
    ASSUME NEW call, WellAsked(call), call.for.method # <<>>, NEW reply, Result(call, reply).status = "ok"
    PROVE  /\ reply \in Seq(Byte)
           /\ \E payload : /\ payload = Null \/ payload \in ValuesOf(reply)
                           /\ Result(call, reply) = Rpc2Result(call, payload)
<1>1. Broken.status # "ok"
  BY DEF Broken
<1>2. LegalFrame(reply)
  <2> SUFFICES ASSUME ~ LegalFrame(reply) PROVE FALSE
    OBVIOUS
  <2>1. Result(call, reply) = Broken
    BY DEF Result
  <2> QED BY <1>1, <2>1
<1> DEFINE Of(m) == IF m.error # <<>> THEN Error(m.error) ELSE Rpc2Result(call, m.payload)
           results == {Of(m) : m \in DecodeMessage(reply)}
<1>3. Result(call, reply) = Only(results, Broken)
  BY <1>2 DEF Result, WellAsked
<1>4. results # {} /\ Result(call, reply) \in results
  <2> HIDE DEF results
  <2> QED BY <1>1, <1>3 DEF Only
<1>5. PICK m \in DecodeMessage(reply) : Result(call, reply) = Of(m)
  BY <1>4
<1>6. Result(call, reply) = Rpc2Result(call, m.payload)
  BY <1>5 DEF Error
<1>7. reply \in Seq(Byte)
  BY <1>2 DEF LegalFrame
<1> QED BY <1>6, <1>7, MessageRead

LEMMA ChainRead ==
    ASSUME NEW call, WellAsked(call), call.for.method = Method.Chain, NEW reply, NEW result,
           result = Result(call, reply), result.status = "ok"
    PROVE  \E n \in Nat : DOMAIN result.data = 1..n /\ \A i \in 1..n : result.data[i][2] \in Seq(Byte)
<1>1. call.for.method # <<>>
  BY Methods
<1>2. reply \in Seq(Byte)
  BY <1>1, ResultRead
<1>4. PICK v : (v = Null \/ v \in ValuesOf(reply)) /\ result = Rpc2Result(call, v)
  BY <1>1, ResultRead
<1>5. PICK entries : entries = (IF v.type = "list" THEN v.items ELSE <<>>)
  OBVIOUS
<1>6. entries \in Seq(ValuesOf(reply))
  <2>1. CASE v = Null
    BY <1>5, <2>1, NullPlain
  <2>2. CASE v \in ValuesOf(reply)
    BY <1>2, <1>5, <2>2, ValueRead
  <2> QED BY <1>4, <2>1, <2>2
<1>7. PICK n \in Nat : n = Len(entries) /\ DOMAIN entries = 1..n
  BY <1>6, LenProperties
<1> DEFINE IsPair(e) == e.type = "list" /\ Len(e.items) = 2
           Name(i) == StringOr(entries[i].items[2], <<>>)
           data == [i \in DOMAIN entries |-> <<U64Or(entries[i].items[1], 0), Name(i)>>]
<1>8. (\A i \in DOMAIN entries : IsPair(entries[i])) /\ result = Ok(data)
  <2>1. result = IF \E i \in DOMAIN entries : ~IsPair(entries[i]) THEN Broken ELSE Ok(data)
    BY <1>4, <1>5, Methods, Zenon DEF Rpc2Result
  <2> HIDE DEF IsPair, data
  <2> QED BY <2>1 DEF Broken
<1>9. ASSUME NEW i \in 1..n PROVE Name(i) \in Seq(Byte)
  <2>1. PICK e : e = entries[i]
    OBVIOUS
  <2>2. e \in ValuesOf(reply) /\ e.type = "list" /\ Len(e.items) = 2
    BY <1>6, <1>7, <1>8, <2>1
  <2>3. e.items[2] \in ValuesOf(reply)
    <3>1. e.items \in Seq(ValuesOf(reply))
      BY <1>2, <2>2, ValueRead
    <3> QED BY <2>2, <3>1
  <2> QED BY <1>2, <2>1, <2>3, ValueRead, PlainIs
<1>10. result.data = data
  BY <1>8 DEF Ok
<1> HIDE DEF Name
<1> QED BY <1>7, <1>9, <1>10

\* A body that is read out of an answer, and the name it was asked by.
LEMMA GetRead ==
    ASSUME NEW call, WellAsked(call), call.for.method = Method.GetObject, NEW reply, NEW result,
           result = Result(call, reply), result.status = "ok"
    PROVE  result.data \in Seq(Byte) /\ Field(call.for.request, Key.BLID).chars \in HexText
<1>1. call.for.method # <<>>
  BY Methods
<1>2. reply \in Seq(Byte)
  BY <1>1, ResultRead
<1>3. PICK v : (v = Null \/ v \in ValuesOf(reply)) /\ result = Rpc2Result(call, v)
  BY <1>1, ResultRead
<1>4. PICK given : given = StringOr(v, <<>>)
  OBVIOUS
<1>5. given \in Seq(Byte)
  <2>1. CASE v = Null
    BY <1>4, <2>1, NullPlain, PlainIs
  <2>2. CASE v \in ValuesOf(reply)
    BY <1>2, <1>4, <2>2, ValueRead, PlainIs
  <2> QED BY <1>3, <2>1, <2>2
<1>6. PICK blid : blid = Field(call.for.request, Key.BLID).chars
  OBVIOUS
<1>7. result = IF IsString(v) /\ IsHex(given) /\ Address(Unhex(given)) = Unhex(blid)
               THEN Ok(Unhex(given)) ELSE Broken
  BY <1>3, <1>4, <1>6, Methods, Zenon DEF Rpc2Result
<1>8. IsHex(given) /\ result = Ok(Unhex(given))
  BY <1>7 DEF Broken
<1>9. Unhex(given) \in Seq(Byte)
  BY <1>5, <1>8, UnhexIs
<1>10. result.data \in Seq(Byte)
  BY <1>8, <1>9 DEF Ok
<1> QED BY <1>10 DEF WellAsked

\* A sequence of members of T.
ListOf(x, T) == \E m \in Nat : DOMAIN x = 1..m /\ \A j \in 1..m : x[j] \in T

LEMMA KeepListed ==
    ASSUME NEW S, NEW s \in Seq(S), NEW K, K \subseteq DOMAIN s
    PROVE  ListOf(Keep(s, K), {s[i] : i \in K})
<1>1. Keep(s, K) \in Seq(S) /\ \A j \in DOMAIN Keep(s, K) : \E i \in K : Keep(s, K)[j] = s[i]
  BY KeepKeeps
<1>2. Len(Keep(s, K)) \in Nat /\ DOMAIN Keep(s, K) = 1..Len(Keep(s, K))
  BY <1>1, LenProperties
<1> QED BY <1>1, <1>2 DEF ListOf

\* What Keep leaves of the indices of a sequence.
LEMMA KeptIndices ==
    ASSUME NEW n \in Nat, NEW K, K \subseteq 1..n
    PROVE  ListOf(Keep([i \in 1..n |-> i], K), K)
<1>1. PICK s : s = [i \in 1..n |-> i]
  OBVIOUS
<1>2. s \in Seq(1..n) /\ DOMAIN s = 1..n /\ \A i \in K : s[i] = i
  BY <1>1
<1>3. ListOf(Keep(s, K), {s[i] : i \in K})
  <2>1. PICK S : S = 1..n
    OBVIOUS
  <2>2. s \in Seq(S) /\ K \subseteq DOMAIN s
    BY <1>2, <2>1
  <2> QED BY <2>2, KeepListed
<1>4. {s[i] : i \in K} = K
  <2>1. \A x : x \in {s[i] : i \in K} <=> x \in K
    BY <1>2
  <2> QED BY <2>1
<1> QED BY <1>1, <1>3, <1>4

\* What a pull asks for is asked in hexadecimal.
LEMMA GetCallsWell ==
    ASSUME NEW entries, NEW n \in Nat, DOMAIN entries = 1..n, \A i \in 1..n : entries[i][2] \in Seq(Byte)
    PROVE  AskedWell(GetCalls(entries))
<1> DEFINE Usable(i) == HexDecodes(entries[i][2]) /\ Len(entries[i][2]) = 2 * AddressLen
<1>1. PICK K : K = {i \in 1..n : Usable(i)}
  OBVIOUS
<1>2. PICK kept : kept = Keep([i \in 1..n |-> i], K)
  OBVIOUS
<1>3. PICK m \in Nat : DOMAIN kept = 1..m /\ \A j \in 1..m : kept[j] \in K
  <2>1. K \subseteq 1..n
    BY <1>1
  <2>2. ListOf(kept, K)
    BY <1>2, <2>1, KeptIndices
  <2> QED BY <2>2 DEF ListOf
<1> DEFINE Made(j) == GetCall(99 + kept[j], HexDecode(entries[kept[j]][2]))
<1>4. GetCalls(entries) = [j \in 1..m |-> Made(j)]
  BY <1>1, <1>2, <1>3 DEF GetCalls
<1>5. ASSUME NEW j \in 1..m PROVE WellAsked(Made(j))
  <2>1. PICK name : name = entries[kept[j]][2]
    OBVIOUS
  <2>2. name \in Seq(Byte) /\ HexDecodes(name)
    BY <1>1, <1>3, <2>1
  <2>3. PICK blid : blid = HexDecode(name)
    OBVIOUS
  <2>4. blid \in Seq(Byte)
    BY <2>2, <2>3, HexDecodeIs
  <2> QED BY <2>1, <2>3, <2>4, GetWell
<1> HIDE DEF Made
<1>6. PICK calls : calls = GetCalls(entries)
  OBVIOUS
<1>7. DOMAIN calls = 1..m /\ calls = [i \in 1..m |-> calls[i]] /\ \A i \in 1..m : WellAsked(calls[i])
  BY <1>4, <1>5, <1>6
<1> QED BY <1>6, <1>7, ListedWell

\* A push asks for no body.
LEMMA PutCallsWell ==
    ASSUME NEW p, NEW entries, holds[Dir(p)] \in Seq(File)
    PROVE  AskedWell(PutCalls(p, entries))
<1> DEFINE had == {entries[i][2] : i \in DOMAIN entries}
           hold == holds[Dir(p)]
           files == Keep(hold, {i \in DOMAIN hold : hold[i].name \notin had})
           Intact(i) == Hex(Address(files[i].body)) = files[i].name
           kept == Keep([i \in DOMAIN files |-> i], {i \in DOMAIN files : Intact(i)})
           Offer(i, f) == PutCall(200 + i, Unhex(f.name), f.body,
                                  IF Is(p, "push") THEN BytesOf(Opt(p, "--token")) ELSE <<>>)
           Made(j) == Offer(kept[j], files[kept[j]])
<1>1. PutCalls(p, entries) = [j \in DOMAIN kept |-> Made(j)]
  BY Zenon DEF PutCalls
<1>2. PICK n \in Nat : DOMAIN files = 1..n
  <2>1. PICK K : K = {i \in DOMAIN hold : hold[i].name \notin had}
    OBVIOUS
  <2>2. files \in Seq(File)
    BY <2>1, KeepKeeps
  <2> HIDE DEF files
  <2> QED BY <2>2, LenProperties
<1>3. PICK m \in Nat : DOMAIN kept = 1..m
  <2>1. PICK K : K = {i \in DOMAIN files : Intact(i)}
    OBVIOUS
  <2> HIDE DEF files
  <2>2. K \subseteq 1..n /\ kept = Keep([i \in 1..n |-> i], K)
    BY <1>2, <2>1
  <2> HIDE DEF kept
  <2>3. ListOf(kept, K)
    BY <2>2, KeptIndices
  <2> QED BY <2>3 DEF ListOf
<1>4. ASSUME NEW j \in 1..m PROVE WellAsked(Made(j))
  <2>1. \A seq, blid, body, token : WellAsked(PutCall(seq, blid, body, token))
    <3>1. Method.PutObject # Method.GetObject
      BY Methods
    <3> QED BY <3>1, OtherWell, Zenon DEF PutCall
  <2> QED BY <2>1, Zenon
<1> HIDE DEF Made, kept
<1>5. PICK calls : calls = PutCalls(p, entries)
  OBVIOUS
<1>6. DOMAIN calls = 1..m /\ calls = [i \in 1..m |-> calls[i]] /\ \A i \in 1..m : WellAsked(calls[i])
  BY <1>1, <1>3, <1>4, <1>5
<1> QED BY <1>5, <1>6, ListedWell

\* Writing a file leaves files.
LEMMA WrittenIs ==
    ASSUME NEW hold \in Seq(File), NEW name \in HexText, NEW body \in Seq(Byte)
    PROVE  Written(hold, name, body) \in Seq(File)
<1>1. PICK K : K = {i \in DOMAIN hold : hold[i].name # name}
  OBVIOUS
<1>2. Keep(hold, K) \in Seq(File)
  BY <1>1, KeepKeeps
<1>3. PICK file : file = [name |-> name, body |-> body]
  OBVIOUS
<1>4. file \in File
  BY <1>3 DEF File
<1>5. Append(Keep(hold, K), file) \in Seq(File)
  BY <1>2, <1>4, AppendProperties
<1> QED BY <1>1, <1>3, <1>5 DEF Written

-----------------------------------------------------------------------------
(* The inductive invariant: where the processes find files, that there are *)
(* files, that a client reads bodies into them by their names, and that    *)
(* what the serves put on a connection is framed.                          *)

Placed == \A p \in Id : cmd[p].do \in {"serve", "push", "sync-loop"} => Dir(p) \in Dirs
Filed == DOMAIN holds = Dirs /\ \A d \in Dirs : holds[d] \in Seq(File)
Calling(p) == AskedWell(todo[p]) /\ (pc[p] = "wait" => todo[p] # <<>>)
Pushing(p) == phase[p] = "push" => Is(p, "sync-loop")
LineFields == {"to", "ask", "reply", "ran", "said"}
Lined(c) ==
    /\ DOMAIN line[c] = LineFields
    /\ line[c].to # Nobody /\ line[c].reply # <<>> /\ line[c].ran.method # <<>> => Framed(line[c].reply)
FrameInv ==
    /\ Placed /\ Filed
    /\ DOMAIN todo = Id /\ DOMAIN phase = Id /\ DOMAIN line = Id
    /\ \A p \in Id : Calling(p) /\ Pushing(p) /\ Lined(p)

\* A line with no answer.
LEMMA IdleLined ==
    /\ DOMAIN Idle = LineFields /\ Idle.reply = <<>>
    /\ \A q : DOMAIN [Idle EXCEPT !.to = q] = LineFields /\ [Idle EXCEPT !.to = q].reply = <<>>
BY DEF Idle, LineFields

LEMMA FrameInit == Init => FrameInv
<1> SUFFICES ASSUME Init PROVE FrameInv
  OBVIOUS
<1>1. PICK argv \in CommandLines : cmd = [p \in Id |-> Command(argv[p])]
  BY DEF Init
<1>2. Placed
  BY <1>1, LinesAssumption DEF Placed, Dir, Opt
<1>3. Filed
  BY HoldsAssumption DEF Init, Filed, Dirs
<1>4. DOMAIN todo = Id /\ DOMAIN phase = Id /\ DOMAIN line = Id
      /\ \A p \in Id : todo[p] = <<>> /\ pc[p] = "start" /\ phase[p] = "pull" /\ line[p] = Idle
  BY DEF Init
<1> QED BY <1>2, <1>3, <1>4, PartsWell, IdleLined DEF FrameInv, Calling, Pushing, Lined

\* A step of which p's calls and p's connection are the matter.
LEMMA FrameMoves ==
    ASSUME FrameInv, NEW p \in Id, UNCHANGED cmd, Filed',
           DOMAIN todo' = Id, DOMAIN phase' = Id, DOMAIN line' = Id,
           \A q \in Id \ {p} : /\ todo'[q] = todo[q] /\ phase'[q] = phase[q] /\ line'[q] = line[q]
                               /\ pc'[q] = "wait" => pc[q] = "wait",
           Calling(p)', Pushing(p)', Lined(p)'
    PROVE  FrameInv'
<1>1. \A q : (Is(q, "sync-loop")' <=> Is(q, "sync-loop")) /\ Dir(q)' = Dir(q) /\ cmd'[q].do = cmd[q].do
  BY DEF Is, Dir, Opt
<1>2. Placed'
  BY <1>1 DEF FrameInv, Placed
<1>3. ASSUME NEW q \in Id \ {p} PROVE Calling(q)' /\ Pushing(q)' /\ Lined(q)'
  BY <1>1, <1>3 DEF FrameInv, Calling, Pushing, Lined
<1> QED BY <1>2, <1>3 DEF FrameInv

\* A step that makes no call and leaves the connections as they are, but
\* perhaps that of p without an answer.
LEMMA FrameCalm ==
    ASSUME FrameInv, TypeOK, NEW p \in Id, UNCHANGED <<cmd, todo, phase, holds>>,
           UNCHANGED pc \/ \E l \in Labels \ {"wait"} : Goto(p, l),
           UNCHANGED line \/ line' = [line EXCEPT ![p] = Idle]
    PROVE  FrameInv'
<1>1. pc \in [Id -> Labels]
  BY DEF TypeOK
<1>2. \A q \in Id : pc'[q] = "wait" => pc[q] = "wait"
  BY <1>1 DEF Goto
<1>3. DOMAIN line' = Id /\ (line'[p] = line[p] \/ line'[p] = Idle) /\ \A q \in Id \ {p} : line'[q] = line[q]
  BY DEF FrameInv
<1>4. Lined(p)'
  BY <1>3, IdleLined DEF FrameInv, Lined
<1>5. Calling(p)' /\ Filed'
  BY <1>2 DEF FrameInv, Calling, Filed
<1>6. Pushing(p)'
  BY DEF FrameInv, Pushing, Is
<1>7. DOMAIN todo' = Id /\ DOMAIN phase' = Id /\ \A q \in Id \ {p} : todo'[q] = todo[q] /\ phase'[q] = phase[q]
  BY DEF FrameInv
<1> QED BY <1>2, <1>3, <1>4, <1>5, <1>6, <1>7, FrameMoves

LEMMA FrameHangup ==
    ASSUME FrameInv, TypeOK, NEW p \in Id, Hangup(p), UNCHANGED holds
    PROVE  FrameInv'
<1>1. pc \in [Id -> Labels] /\ UNCHANGED <<cmd, phase>> /\ DOMAIN todo = Id /\ DOMAIN line = Id /\ DOMAIN phase = Id
  BY DEF TypeOK, Hangup, FrameInv
<1>2. todo' = [todo EXCEPT ![p] = <<>>] /\ line' = [line EXCEPT ![p] = Idle] /\ Goto(p, "connect")
  BY DEF Hangup
<1>3. /\ DOMAIN todo' = Id /\ DOMAIN line' = Id
      /\ todo'[p] = <<>> /\ pc'[p] = "connect" /\ line'[p] = Idle
      /\ \A q \in Id \ {p} : todo'[q] = todo[q] /\ pc'[q] = pc[q] /\ line'[q] = line[q]
  BY <1>1, <1>2 DEF Goto
<1>4. Calling(p)' /\ Lined(p)'
  BY <1>3, PartsWell, IdleLined DEF Calling, Lined
<1>5. Pushing(p)' /\ Filed'
  BY <1>1 DEF FrameInv, Pushing, Is, Filed
<1> QED BY <1>1, <1>3, <1>4, <1>5, FrameMoves

LEMMA FrameConnect == ASSUME FrameInv, TypeOK, NEW p \in Id, Connect(p) PROVE FrameInv'
<1>1. pc \in [Id -> Labels] /\ UNCHANGED <<cmd, holds>>
  BY DEF TypeOK, Connect, fileVars
<1>2. CASE UNCHANGED <<todo, phase, line, pc>>
  BY <1>1, <1>2, FrameCalm
<1>3. CASE \E q : /\ line' = [line EXCEPT ![p] = [Idle EXCEPT !.to = q]]
                  /\ todo' = [todo EXCEPT ![p] = FirstCalls(p)]
                  /\ phase' = [phase EXCEPT ![p] = "pull"] /\ Goto(p, "call")
  <2>1. PICK q : /\ line' = [line EXCEPT ![p] = [Idle EXCEPT !.to = q]]
                 /\ todo' = [todo EXCEPT ![p] = FirstCalls(p)]
                 /\ phase' = [phase EXCEPT ![p] = "pull"] /\ Goto(p, "call")
    BY <1>3
  <2>2. PICK new : new = [Idle EXCEPT !.to = q]
    OBVIOUS
  <2>3. DOMAIN new = LineFields /\ new.reply = <<>>
    BY <2>2, IdleLined
  <2>4. PICK first : first = FirstCalls(p) /\ AskedWell(first)
    BY FirstCallsWell
  <2>5. /\ DOMAIN todo' = Id /\ DOMAIN line' = Id /\ DOMAIN phase' = Id
        /\ todo'[p] = first /\ pc'[p] = "call" /\ line'[p] = new /\ phase'[p] = "pull"
        /\ \A q2 \in Id \ {p} : /\ todo'[q2] = todo[q2] /\ pc'[q2] = pc[q2]
                                /\ line'[q2] = line[q2] /\ phase'[q2] = phase[q2]
    <3>1. line' = [line EXCEPT ![p] = new] /\ todo' = [todo EXCEPT ![p] = first]
      BY <2>1, <2>2, <2>4
    <3> QED BY <1>1, <2>1, <3>1 DEF FrameInv, Goto
  <2>6. Calling(p)' /\ Pushing(p)' /\ Lined(p)' /\ Filed'
    BY <1>1, <2>3, <2>4, <2>5 DEF FrameInv, Calling, Pushing, Lined, Filed
  <2> QED BY <1>1, <2>5, <2>6, FrameMoves
<1> QED BY <1>2, <1>3 DEF Connect

LEMMA FrameCall == ASSUME FrameInv, TypeOK, NEW p \in Id, Call(p) PROVE FrameInv'
<1>1. /\ pc \in [Id -> Labels] /\ UNCHANGED <<cmd, phase, holds>> /\ pc[p] = "call" /\ todo[p] # <<>>
      /\ DOMAIN todo = Id /\ DOMAIN phase = Id /\ DOMAIN line = Id
  BY DEF TypeOK, Call, fileVars, FrameInv
<1>2. AskedWell(todo[p]) /\ AskedWell(Tail(todo[p])) /\ Filed' /\ Pushing(p)'
  <2>1. AskedWell(todo[p]) /\ Filed' /\ Pushing(p)'
    BY <1>1 DEF FrameInv, Calling, Pushing, Is, Filed
  <2> QED BY <1>1, <2>1, PartsWell
<1>3. CASE todo' = [todo EXCEPT ![p] = Tail(@)] /\ UNCHANGED <<pc, line>>
  <2>1. DOMAIN todo' = Id /\ todo'[p] = Tail(todo[p]) /\ \A q \in Id \ {p} : todo'[q] = todo[q]
    BY <1>1, <1>3
  <2>2. Calling(p)' /\ Lined(p)'
    BY <1>1, <1>2, <1>3, <2>1 DEF FrameInv, Calling, Lined
  <2> QED BY <1>1, <1>2, <1>3, <2>1, <2>2, FrameMoves
<1>4. CASE /\ line' = [line EXCEPT ![p].ask = Frame(Asked(p)), ![p].reply = <<>>]
           /\ Goto(p, "wait") /\ UNCHANGED todo
  <2>1. PICK ask : line' = [line EXCEPT ![p].ask = ask, ![p].reply = <<>>]
    BY <1>4
  <2>2. /\ DOMAIN line' = Id /\ DOMAIN line'[p] = DOMAIN line[p] /\ pc'[p] = "wait"
        /\ \A q \in Id \ {p} : line'[q] = line[q] /\ pc'[q] = pc[q]
    BY <1>1, <1>4, <2>1 DEF Goto
  <2>3. line'[p].reply = <<>>
    BY <1>1, <2>1 DEF FrameInv, Lined, LineFields
  <2>4. Calling(p)' /\ Lined(p)'
    BY <1>1, <1>2, <1>4, <2>2, <2>3 DEF FrameInv, Calling, Lined
  <2> QED BY <1>1, <1>2, <1>4, <2>2, <2>4, FrameMoves
<1> QED BY <1>3, <1>4 DEF Call

LEMMA FrameCallsMade == ASSUME FrameInv, TypeOK, NEW p \in Id, CallsMade(p) PROVE FrameInv'
<1>1. UNCHANGED holds
  BY DEF CallsMade, fileVars
<1>2. CASE Hangup(p)
  BY <1>1, <1>2, FrameHangup
<1>3. CASE ~ Hangup(p)
  <2>1. /\ Is(p, "sync-loop") /\ UNCHANGED <<cmd, pc, line>> /\ pc[p] = "call"
        /\ phase' = [phase EXCEPT ![p] = "push"] /\ todo' = [todo EXCEPT ![p] = FirstCalls(p)]
    BY <1>3 DEF CallsMade, netVars
  <2>2. PICK first : first = FirstCalls(p) /\ AskedWell(first)
    BY FirstCallsWell
  <2>3. /\ DOMAIN todo' = Id /\ DOMAIN phase' = Id /\ DOMAIN line' = Id
        /\ todo'[p] = first
        /\ \A q \in Id \ {p} : todo'[q] = todo[q] /\ phase'[q] = phase[q] /\ line'[q] = line[q] /\ pc'[q] = pc[q]
    <3>1. todo' = [todo EXCEPT ![p] = first]
      BY <2>1, <2>2
    <3> QED BY <2>1, <3>1 DEF FrameInv
  <2>4. Calling(p)' /\ Pushing(p)' /\ Lined(p)' /\ Filed'
    BY <1>1, <2>1, <2>2, <2>3 DEF FrameInv, Calling, Pushing, Lined, Filed, Is
  <2> QED BY <2>1, <2>3, <2>4, FrameMoves
<1> QED BY <1>2, <1>3

\* An answer: what it makes a client ask for next, and the body it brings.
LEMMA FrameReceive == ASSUME FrameInv, TypeOK, NEW p \in Id, Receive(p) PROVE FrameInv'
<1>1. CASE Hangup(p)
  <2>1. pc \in [Id -> Labels] /\ Goto(p, "connect")
    BY <1>1 DEF Hangup, TypeOK
  <2>2. ~ Goto(p, "call")
    BY <2>1 DEF Goto
  <2>3. UNCHANGED holds
    BY <2>2 DEF Receive
  <2> QED BY <1>1, <2>3, FrameHangup
<1>2. CASE ~ Hangup(p)
  <2>1. PICK call : call = Asked(p)
    OBVIOUS
  <2>2. PICK result : result = Result(call, line[p].reply)
    OBVIOUS
  <2>3. /\ UNCHANGED <<cmd, phase>> /\ Goto(p, "call") /\ pc[p] = "wait"
        /\ line' = [line EXCEPT ![p] = [Idle EXCEPT !.to = line[p].to]]
        /\ todo' = [todo EXCEPT ![p] = Tail(@) \o
                      IF MethodOf(call) # Method.Chain \/ result.status # "ok" THEN <<>>
                      ELSE IF Pushes(p) THEN PutCalls(p, result.data) ELSE GetCalls(result.data)]
        /\ holds' = IF MethodOf(call) = Method.GetObject /\ result.status = "ok"
                    THEN [holds EXCEPT ![Dir(p)] = Written(@, NameAsked(p), result.data)]
                    ELSE holds
    BY <1>2, <2>1, <2>2 DEF Receive
  <2>4. todo[p] # <<>> /\ AskedWell(todo[p])
    BY <2>3 DEF FrameInv, Calling
  <2>5. AskedWell(Tail(todo[p])) /\ WellAsked(call)
    BY <2>1, <2>4, PartsWell DEF Asked
  <2>6. PICK more : more = IF MethodOf(call) # Method.Chain \/ result.status # "ok" THEN <<>>
                           ELSE IF Pushes(p) THEN PutCalls(p, result.data) ELSE GetCalls(result.data)
    OBVIOUS
  <2>7. AskedWell(more)
    <3>1. CASE MethodOf(call) # Method.Chain \/ result.status # "ok"
      BY <2>6, <3>1, PartsWell
    <3>2. CASE MethodOf(call) = Method.Chain /\ result.status = "ok" /\ Pushes(p)
      <4>1. more = PutCalls(p, result.data)
        BY <2>6, <3>2
      <4>2. Dir(p) \in Dirs
        BY <3>2 DEF Pushes, FrameInv, Pushing, Placed, Is
      <4>3. holds[Dir(p)] \in Seq(File)
        BY <4>2 DEF FrameInv, Filed
      <4> QED BY <4>1, <4>3, PutCallsWell
    <3>3. CASE MethodOf(call) = Method.Chain /\ result.status = "ok" /\ ~ Pushes(p)
      <4>1. more = GetCalls(result.data)
        BY <2>6, <3>3
      <4>2. PICK n \in Nat : DOMAIN result.data = 1..n /\ \A i \in 1..n : result.data[i][2] \in Seq(Byte)
        BY <2>2, <2>5, <3>3, ChainRead DEF MethodOf
      <4>3. PICK entries : entries = result.data
        OBVIOUS
      <4> QED BY <4>1, <4>2, <4>3, GetCallsWell
    <3> QED BY <3>1, <3>2, <3>3
  <2>8. Filed'
    <3>1. CASE MethodOf(call) = Method.GetObject /\ result.status = "ok"
      <4>1. result.data \in Seq(Byte) /\ NameAsked(p) \in HexText
        BY <2>1, <2>2, <2>5, <3>1, GetRead DEF NameAsked, MethodOf
      <4>2. PICK new : new = Written(holds[Dir(p)], NameAsked(p), result.data)
        OBVIOUS
      <4>3. holds' = [holds EXCEPT ![Dir(p)] = new]
        BY <2>3, <3>1, <4>2
      <4>4. Dir(p) \in Dirs => new \in Seq(File)
        BY <4>1, <4>2, WrittenIs DEF FrameInv, Filed
      <4> QED BY <4>3, <4>4 DEF FrameInv, Filed
    <3>2. CASE ~ (MethodOf(call) = Method.GetObject /\ result.status = "ok")
      BY <2>3, <3>2 DEF FrameInv, Filed
    <3> QED BY <3>1, <3>2
  <2>9. PICK new : new = [Idle EXCEPT !.to = line[p].to]
    OBVIOUS
  <2>10. DOMAIN new = LineFields /\ new.reply = <<>>
    BY <2>9, IdleLined
  <2>11. PICK rest : rest = Tail(todo[p]) \o more /\ AskedWell(rest)
    BY <2>5, <2>7, JoinedWell
  <2>12. todo' = [todo EXCEPT ![p] = rest] /\ line' = [line EXCEPT ![p] = new]
    BY <2>3, <2>6, <2>9, <2>11
  <2>13. /\ DOMAIN todo' = Id /\ DOMAIN phase' = Id /\ DOMAIN line' = Id
         /\ todo'[p] = rest /\ line'[p] = new /\ pc'[p] = "call"
         /\ \A q \in Id \ {p} : todo'[q] = todo[q] /\ phase'[q] = phase[q] /\ line'[q] = line[q] /\ pc'[q] = pc[q]
    BY <2>3, <2>12 DEF FrameInv, TypeOK, Goto
  <2>14. Calling(p)' /\ Pushing(p)' /\ Lined(p)'
    BY <2>3, <2>10, <2>11, <2>13 DEF FrameInv, Calling, Pushing, Lined, Is
  <2> QED BY <2>3, <2>8, <2>13, <2>14, FrameMoves
<1> QED BY <1>1, <1>2

\* A frame is handled: the answer is framed, the hold one of files.
LEMMA FrameHandle ==
    ASSUME FrameInv, TypeOK, PidInv, NEW p \in Id, NEW c \in Id, Handle(p, c)
    PROVE  FrameInv'
<1>1. UNCHANGED <<cmd, pc, todo, phase>> /\ c \in taken[p]
  BY DEF Handle, callVars
<1>2. CASE UNCHANGED <<line, holds>>
  BY <1>1, <1>2, FrameCalm
<1>3. CASE LegalFrame(line[c].ask)
  <2>1. PICK h \in Handlings(line[c].ask, holds[Dir(p)], Policy(p)) :
          /\ line' = [line EXCEPT ![c] = [to |-> p, ask |-> <<>>, reply |-> h.reply, ran |-> h.ran, said |-> h.said]]
          /\ holds' = [holds EXCEPT ![Dir(p)] = h.hold]
    BY <1>3 DEF Handle
  <2>2. Dir(p) \in Dirs
    <3>1. pc[p] \in Late
      BY <1>1 DEF TypeOK, Serving, Late
    <3>2. Is(p, "serve")
      BY <3>1 DEF PidInv, OnlyUsers
    <3> QED BY <3>2 DEF FrameInv, Placed, Is
  <2>3. holds[Dir(p)] \in Seq(File) /\ line[c].ask \in Seq(Byte)
    BY <1>3, <2>2 DEF FrameInv, Filed, LegalFrame
  <2>4. h.hold \in Seq(File) /\ (h.ran.method # <<>> => Framed(h.reply))
    BY <2>3, HandlingsFramed
  <2>5. PICK new : new = [to |-> p, ask |-> <<>>, reply |-> h.reply, ran |-> h.ran, said |-> h.said]
    OBVIOUS
  <2>6. DOMAIN new = LineFields /\ new.reply = h.reply /\ new.ran = h.ran
    BY <2>5 DEF LineFields
  <2>7. DOMAIN line' = Id /\ line'[c] = new /\ \A q \in Id \ {c} : line'[q] = line[q]
    BY <2>1, <2>5 DEF FrameInv
  <2>8. Filed'
    <3>1. PICK hold : hold = h.hold
      OBVIOUS
    <3>2. holds' = [holds EXCEPT ![Dir(p)] = hold] /\ hold \in Seq(File)
      BY <2>1, <2>4, <3>1
    <3> QED BY <3>2 DEF FrameInv, Filed
  <2>9. Lined(c)'
    BY <2>4, <2>6, <2>7 DEF Lined
  <2>10. Calling(c)' /\ Pushing(c)' /\ DOMAIN todo' = Id /\ DOMAIN phase' = Id
    BY <1>1 DEF FrameInv, Calling, Pushing, Is
  <2>11. \A q \in Id \ {c} : todo'[q] = todo[q] /\ phase'[q] = phase[q] /\ (pc'[q] = "wait" => pc[q] = "wait")
    BY <1>1
  <2> QED BY <1>1, <2>7, <2>8, <2>9, <2>10, <2>11, FrameMoves
<1> QED BY <1>2, <1>3 DEF Handle

LEMMA FrameOldServer == ASSUME FrameInv, TypeOK, NEW c \in Id, OldServer(c) PROVE FrameInv'
<1>1. UNCHANGED <<cmd, pc, todo, phase, holds>> /\ line[c].to = Nobody
  BY DEF OldServer, callVars, fileVars
<1>2. CASE UNCHANGED line
  BY <1>1, <1>2, FrameCalm
<1>3. CASE \E reply \in OldReplies : line' = [line EXCEPT ![c].ask = <<>>, ![c].reply = reply]
  <2>1. PICK reply : line' = [line EXCEPT ![c].ask = <<>>, ![c].reply = reply]
    BY <1>3
  <2>2. /\ DOMAIN line' = Id /\ DOMAIN line'[c] = DOMAIN line[c] /\ line'[c].to = Nobody
        /\ \A q \in Id \ {c} : line'[q] = line[q]
    BY <1>1, <2>1 DEF FrameInv, Lined, LineFields
  <2>3. Lined(c)' /\ Calling(c)' /\ Pushing(c)' /\ Filed' /\ DOMAIN todo' = Id /\ DOMAIN phase' = Id
    BY <1>1, <2>2 DEF FrameInv, Lined, Calling, Pushing, Filed, Is
  <2>4. \A q \in Id \ {c} : todo'[q] = todo[q] /\ phase'[q] = phase[q] /\ (pc'[q] = "wait" => pc[q] = "wait")
    BY <1>1
  <2> QED BY <1>1, <2>2, <2>3, <2>4, FrameMoves
<1> QED BY <1>2, <1>3 DEF OldServer

LEMMA FrameServe == ASSUME FrameInv, TypeOK, NEW p \in Id, ServeStep(p) PROVE FrameInv'
<1>1. UNCHANGED <<cmd, todo, phase, holds>>
  BY DEF ServeStep, StartServe, PidOpen, PidWrite, PidRename, PidFails, Install, Bind, Poll,
         Accept, Drain, Leave, callVars, fileVars
<1>2. UNCHANGED pc \/ \E l \in Labels \ {"wait"} : Goto(p, l)
  BY DEF ServeStep, StartServe, PidOpen, PidWrite, PidRename, PidFails, Install, Bind, Poll,
         Accept, Drain, Leave, Exit, Labels, Ended
<1>3. UNCHANGED line \/ line' = [line EXCEPT ![p] = Idle]
  BY DEF ServeStep, StartServe, PidOpen, PidWrite, PidRename, PidFails, Install, Bind, Poll,
         Accept, Drain, Leave, Released, netVars
<1> QED BY <1>1, <1>2, <1>3, FrameCalm

LEMMA FrameClient == ASSUME FrameInv, TypeOK, NEW p \in Id, ClientStep(p) PROVE FrameInv'
<1>1. CASE Usage(p) \/ StartClient(p) \/ PeersRead(p) \/ PassStarts(p) \/ ClientEnds(p) \/ PeersOpen(p) \/ PeersWrite(p)
  <2>1. UNCHANGED <<cmd, todo, phase, line, holds>>
    BY <1>1 DEF Usage, StartClient, PeersRead, PassStarts, ClientEnds, PeersOpen, PeersWrite,
                callVars, netVars, fileVars
  <2>2. UNCHANGED pc \/ \E l \in {"exited", "connect", "start", "peersopen", "peerswrite"} : Goto(p, l)
    BY <1>1 DEF Usage, StartClient, PeersRead, PassStarts, ClientEnds, PeersOpen, PeersWrite, Exit
  <2> QED BY <2>1, <2>2, FrameCalm DEF Labels, Ended
<1>2. CASE Lost(p)
  BY <1>2, FrameHangup DEF Lost, fileVars
<1> QED BY <1>1, <1>2, FrameConnect, FrameCall, FrameReceive, FrameCallsMade DEF ClientStep

LEMMA FrameStep == TypeOK /\ PidInv /\ FrameInv /\ [Next]_vars => FrameInv'
<1> SUFFICES ASSUME TypeOK, PidInv, FrameInv, [Next]_vars PROVE FrameInv'
  OBVIOUS
<1>1. ASSUME NEW p \in Id, Terminate(p) \/ Kill(p) PROVE FrameInv'
  <2>1. UNCHANGED <<cmd, todo, phase, holds>>
    BY <1>1 DEF Terminate, Kill, Dies, callVars, fileVars
  <2>2. \/ UNCHANGED <<pc, line>>
        \/ Goto(p, "killed") /\ line' = [line EXCEPT ![p] = Idle]
    BY <1>1 DEF Terminate, Kill, Dies, Released, netVars
  <2> QED BY <2>1, <2>2, FrameCalm DEF Labels, Ended
<1>2. CASE UNCHANGED vars
  <2>1. UNCHANGED <<cmd, pc, todo, phase, holds, line>>
    BY <1>2 DEF vars, callVars, fileVars, netVars
  <2> QED BY <2>1 DEF FrameInv, Placed, Filed, Calling, Pushing, Lined, Is, Dir, Opt
<1> QED BY <1>1, <1>2, FrameServe, FrameClient, FrameHandle, FrameOldServer DEF Next, Over

\* No part of what a serve answers by rpc2 decodes, but the header alone, and a
\* hostile tail changes nothing that is decoded: for all frames that clients
\* send, whatever the holds contain (p2p.rs: decode_value consumes what it
\* measures, 202-297; fuzz_p2p_decode.rs).
THEOREM FrameCorrect == Spec => []FrameTight
<1>1. FrameInv => FrameTight
  <2> SUFFICES ASSUME FrameInv, NEW c \in Id, Answered(c), line[c].ran.method # <<>>, LegalFrame(line[c].reply)
               PROVE  Tight(line[c].reply)
    BY DEF FrameTight
  <2>1. Framed(line[c].reply)
    BY DEF FrameInv, Lined, Answered
  <2> QED BY <2>1, FramedTight
<1> QED BY <1>1, TypeInit, TypeStep, PidInit, PidStep, FrameInit, FrameStep, PTL DEF Spec
=============================================================================
