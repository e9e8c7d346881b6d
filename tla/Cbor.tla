-------------------------------- MODULE Cbor --------------------------------
(***************************************************************************)
(* The rpc2 codec of src/p2p.rs: the encoders of its CBOR subset, and the  *)
(* decoder, which reads items at a position of a frame.                    *)
(*                                                                         *)
(* A frame is a sequence of bytes.  Numbers of 2^28 and more, longer than  *)
(* any frame, are all the number Huge; text that is not ASCII counts as    *)
(* invalid UTF-8.                                                          *)
(***************************************************************************)
EXTENDS Integers, Sequences, SequencesExt

CONSTANTS MaxDepth     \* MAX_DEPTH: the nesting the decoder follows (64)

ASSUME CborAssumption == MaxDepth \in Nat /\ MaxDepth >= 2

Byte == 0..255
Huge == 16 * 256 * 256 * 256    \* model bound: what stands for every larger number

-----------------------------------------------------------------------------
(* Values as serde_json has them. *)

Null == [type |-> "null"]
Bool(b) == [type |-> "bool", bool |-> b]
Number(n) == [type |-> "number", number |-> n]
String(s) == [type |-> "string", chars |-> s]
List(items) == [type |-> "list", items |-> items]
Object(fields) == [type |-> "object", fields |-> fields]
\* One field, and the fields of f with those of g.
Entry(key, v) == [k \in {key} |-> v]
Also(f, g) == [k \in DOMAIN f \cup DOMAIN g |-> IF k \in DOMAIN f THEN f[k] ELSE g[k]]

IsString(v) == v.type = "string"
IsObject(v) == v.type = "object"

\* v.get(key), with Null where there is no such field.
Field(v, key) == IF IsObject(v) /\ key \in DOMAIN v.fields THEN v.fields[key] ELSE Null
StringOr(v, default) == IF IsString(v) THEN v.chars ELSE default
U64Or(v, default) == IF v.type = "number" /\ v.number >= 0 THEN v.number ELSE default

\* Lower-case hexadecimal, and what hex::decode reads.
HexDigit(d) == IF d < 10 THEN 48 + d ELSE 87 + d
HexValue(c) ==
    CASE c \in 48..57 -> c - 48 [] c \in 97..102 -> c - 87 [] c \in 65..70 -> c - 55 [] OTHER -> -1
Hex(bytes) ==
    [i \in 1..(2 * Len(bytes)) |->
        HexDigit(IF i % 2 = 1 THEN bytes[(i + 1) \div 2] \div 16 ELSE bytes[i \div 2] % 16)]
IsHex(s) == Len(s) % 2 = 0 /\ \A i \in DOMAIN s : HexValue(s[i]) >= 0
Unhex(s) == [i \in 1..(Len(s) \div 2) |-> 16 * HexValue(s[2 * i - 1]) + HexValue(s[2 * i])]

-----------------------------------------------------------------------------
(* The encoders. *)

Place == <<1, 256, 256 * 256, 256 * 256 * 256>>
\* The digits of n in base 256, which has at most four unless it is Huge.
BigEndian(n, width) ==
    [i \in 1..width |-> IF n >= Huge THEN 255 ELSE (n \div Place[width + 1 - i]) % 256]
Width == <<1, 2, 4, 8>>

Headed(major, info, n) == <<32 * major + info>> \o BigEndian(n, Width[info - 23])
\* The major type and the shortest form of its argument (cbor::head).
Lead(major, n) ==
    IF n < 24 THEN <<32 * major + n>>
    ELSE Headed(major, IF n < 256 THEN 24 ELSE IF n < 256 * 256 THEN 25 ELSE IF n < Huge THEN 26 ELSE 27, n)

Uint(n) == Lead(0, n)
Bytes(b) == Lead(2, Len(b)) \o b
Text(s) == Lead(3, Len(s)) \o s
\* A map given by its pairs in order, and an array.
Pairs(kvs) == Lead(5, Len(kvs)) \o FlattenSeq([i \in DOMAIN kvs |-> Text(kvs[i][1]) \o kvs[i][2]])
Array(items) == Lead(4, Len(items)) \o FlattenSeq(items)

-----------------------------------------------------------------------------
(* The decoder. *)

\* What decodes is a set: of the item or items that were read with the position
\* after them, or of nothing.
None == {}
Some(value, next) == {[value |-> value, next |-> next]}

\* The number that the bytes of an argument spell.
Argument(bytes) ==
    LET Digit(k) == IF k < Len(bytes) THEN bytes[Len(bytes) - k] ELSE 0
    IN IF Digit(3) >= 16 \/ \E i \in 1..(Len(bytes) - 4) : bytes[i] > 0 THEN Huge
       ELSE Digit(0) + 256 * (Digit(1) + 256 * (Digit(2) + 256 * Digit(3)))

\* A list of pairs as a map: keys that are not text are dropped, and a later
\* pair replaces an earlier one of its key.
AsMap(list) ==
    LET Key(i) == list[2 * i - 1]
        kept == {i \in 1..(Len(list) \div 2) : IsString(Key(i))}
        last(k) == CHOOSE i \in kept : Key(i).chars = k /\ \A j \in kept : Key(j).chars = k => j <= i
    IN [k \in {Key(i).chars : i \in kept} |-> list[2 * last(k)]]

\* The head of the item at a position: its leading byte and its argument, if
\* they are there; no info from 28 on is accepted.
HeadWidth(info) == IF info < 24 THEN 0 ELSE Width[info - 23]
HeadFits(buf, at) ==
    /\ at \in DOMAIN buf /\ buf[at] % 32 <= 27
    /\ at + HeadWidth(buf[at] % 32) <= Len(buf)
HeadAt(buf, at) ==
    LET info == buf[at] % 32
        width == HeadWidth(info)
        argument == SubSeq(buf, at + 1, at + width)
    IN [major |-> buf[at] \div 32, info |-> info, next |-> at + 1 + width,
        arg |-> IF width = 0 THEN info ELSE Argument(argument),
        beyond |-> width = 8 /\ argument[1] >= 128]    \* 2^63 and more

Ascii(s) == \A i \in DOMAIN s : s[i] < 128
\* What an item with head h of the major types 0 to 3, 6 and 7 decodes to.
Leaf(buf, h) ==
    LET payload == SubSeq(buf, h.next, h.next + h.arg - 1)
        fits == h.next + h.arg <= Len(buf) + 1
    IN CASE h.major = 0 -> Some(Number(h.arg), h.next)
         [] h.major = 1 -> IF h.beyond THEN None ELSE Some(Number(-1 - h.arg), h.next)
         [] h.major = 2 -> IF fits THEN Some(String(Hex(payload)), h.next + h.arg) ELSE None
         [] h.major = 3 -> IF fits /\ Ascii(payload) THEN Some(String(payload), h.next + h.arg) ELSE None
         [] h.major = 7 /\ h.info \in {20, 21} -> Some(Bool(h.info = 21), h.next)
         [] OTHER -> Some(Null, h.next)

\* The work of the decoder: count items one after the other from a position on,
\* at a level.  Of a container, its children are read a level down.
Task == [count : Nat, at : Nat, depth : Nat]
TaskOf(count, at, depth) == [count |-> count, at |-> at, depth |-> depth]
Inside(h) == IF h.major = 4 THEN h.arg ELSE 2 * h.arg
OneItem(read, buf, h, depth) ==
    IF h.major \in {4, 5}
    THEN {[value |-> IF h.major = 4 THEN List(c.value) ELSE Object(AsMap(c.value)), next |-> c.next]
          : c \in read[TaskOf(Inside(h), h.next, depth + 1)]}
    ELSE Leaf(buf, h)
\* A task done, given the reading of smaller ones: the values of its items
\* (decode_value and its loops).
Reading(read, buf, t) ==
    IF t.count = 0 THEN Some(<<>>, t.at)
    ELSE IF t.depth > MaxDepth \/ ~HeadFits(buf, t.at) THEN None
    ELSE UNION {{[value |-> <<i.value>> \o rest.value, next |-> rest.next]
                 : rest \in read[TaskOf(t.count - 1, i.next, t.depth)]}
                : i \in OneItem(read, buf, HeadAt(buf, t.at), t.depth)}
Items(buf, count, start, level) ==
    LET read[t \in Task] == Reading(read, buf, t) IN read[TaskOf(count, start, level)]

-----------------------------------------------------------------------------
(* Messages: a header map and at most one more item.  The names are shorter *)
(* than those of the program, and distinct where those are.                *)

Key == [M |-> <<77>>, S |-> <<83>>, E |-> <<69>>, N |-> <<78>>, H |-> <<72>>, TOP |-> <<84>>,
        BLID |-> <<73>>, BODY |-> <<66>>, TOKEN |-> <<75>>]
Method == [Handshake |-> <<80, 72>>, Chain |-> <<80, 67>>, GetObject |-> <<80, 71>>,
           PutObject |-> <<80, 80>>, FabricReg |-> <<80, 70, 82>>, FabricPut |-> <<80, 70, 85>>,
           FabricPop |-> <<80, 70, 79>>]

\* Fault: the map count is not that of the pairs.
HeaderShort(method, seq, error) ==
    Lead(5, 2) \o Text(Key.M) \o Text(method) \o Text(Key.S) \o Uint(seq) \o Text(Key.E) \o Text(error)
Header(method, seq, error) ==
    Pairs(<<<<Key.M, Text(method)>>, <<Key.S, Uint(seq)>>, <<Key.E, Text(error)>>>>)
Message(method, seq, error, body) == Header(method, seq, error) \o body
ErrorResponse(seq, error) == Message(<<>>, seq, error, <<>>)

\* decode_message: what follows the payload item is not looked at.
DecodeMessage(buf) ==
    LET Payloads(at) == IF at > Len(buf) THEN {Null} ELSE {r.value[1] : r \in Items(buf, 1, at, 0)}
        Messages(object, at) ==
            {[method |-> StringOr(Field(object, Key.M), <<>>),
              seq |-> U64Or(Field(object, Key.S), 0),
              error |-> StringOr(Field(object, Key.E), <<>>),
              payload |-> payload] : payload \in Payloads(at)}
        headers == {h \in Items(buf, 1, 1, 0) : IsObject(h.value[1])}
    IN UNION {Messages(h.value[1], h.next) : h \in headers}

HandshakeRequest(version) == Pairs(<<<<Key.N, Uint(version)>>>>)
HandshakeResponse(height, version) ==
    Pairs(<<<<Key.H, Uint(height)>>, <<Key.N, Uint(version)>>>>)
ChainRequest(top, n) == Pairs(<<<<Key.TOP, Uint(top)>>, <<Key.N, Uint(n)>>>>)
ChainResponse(entries) ==
    Array([i \in DOMAIN entries |-> Array(<<Uint(entries[i][1]), Bytes(entries[i][2])>>)])
GetObjectRequest(blid) == Pairs(<<<<Key.BLID, Bytes(blid)>>>>)
GetObjectResponse(body) == Bytes(body)
PutObjectRequest(blid, body, token) ==
    Pairs(<<<<Key.BLID, Bytes(blid)>>, <<Key.BODY, Bytes(body)>>>>
          \o (IF token = <<>> THEN <<>> ELSE <<<<Key.TOKEN, Text(token)>>>>))
PutObjectResponse(blid) == Pairs(<<<<Key.BLID, Bytes(blid)>>>>)
=============================================================================
