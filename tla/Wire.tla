-------------------------------- MODULE Wire --------------------------------
(***************************************************************************)
(* What goes over a connection of src/spore_peer.rs: the requests of the   *)
(* clients, how handle_client dispatches and answers a frame, and what the *)
(* clients make of the answer.                                             *)
(*                                                                         *)
(* A call is a record [for, seq, body]: for says which handler is to see   *)
(* which request, body are the bytes of the request when it goes as rpc2.  *)
(* A handling of a frame is a record [reply, hold, ran, said]: the answer, *)
(* the hold after it, the handler that ran with the request it saw, and    *)
(* the result it meant to report.                                          *)
(*                                                                         *)
(* A hold is a sequence of files [name, body], oldest first, named by the  *)
(* hexadecimal address.  What a relay answers is the subject of            *)
(* FabricRelay; here it accepts or refuses.                                *)
(***************************************************************************)
EXTENDS Cbor

CONSTANTS
    Address(_),    \* sha256
    AddressLen,    \* bytes of an address (32)
    MaxFrame,      \* frame cap of read_frame (192 MiB)
    MaxBody,       \* MAX_BODY_BYTES (32 MiB)
    TokenMin,      \* shortest token fabric_pub registers (16)
    ChainMax       \* entries of an answer to Peer.Chain (5000)

ASSUME WireAssumption ==
    /\ {AddressLen, MaxFrame, MaxBody, TokenMin, ChainMax} \subseteq Nat
    /\ MaxFrame < Huge

Ok(data) == [status |-> "ok", data |-> data]
Error(text) == [status |-> "error", text |-> text]    \* the peer refused
Broken == [status |-> "broken"]                       \* no usable answer

\* A handler and the request it sees; method is that of an rpc2 message.
To(family, method, request) == [family |-> family, method |-> method, request |-> request]

-----------------------------------------------------------------------------
(* JSON is serde_json's (external).  A text of an object begins with the   *)
(* two bytes {" and parses back; what follows them is stood for by the     *)
(* object's CBOR.                                                          *)

Scalar(v, true, false) ==
    CASE v.type = "string" -> Text(v.chars)
      [] v.type = "number" -> Uint(v.number)
      [] v.type = "bool" -> IF v.bool THEN true ELSE false
      [] OTHER -> Lead(7, 22)
Encoded(v, true, false) ==
    LET Item(x) ==
            IF x.type = "list"
            THEN Array([i \in DOMAIN x.items |-> Scalar(x.items[i], true, false)])
            ELSE Scalar(x, true, false)
        keys == SetToSeq(DOMAIN v.fields)
    IN IF IsObject(v)
       THEN Pairs([i \in DOMAIN keys |-> <<keys[i], Item(v.fields[keys[i]])>>])
       ELSE Item(v)

JsonToCbor(v) == Encoded(v, Lead(7, 20), Lead(7, 19))

JsonStart == <<123, 34>>
Json(v) == JsonStart \o Encoded(v, <<245>>, <<244>>)
\* serde_json::from_slice of the bytes from position at on: the value, if any.
FromJson(frame, at) ==
    IF SubSeq(frame, at, at + 1) # JsonStart THEN {}
    ELSE {r.value[1] : r \in {s \in Items(frame, 1, at + 2, 0) : s.next = Len(frame) + 1}}

-----------------------------------------------------------------------------
(* The serving side. *)

\* read_frame: other lengths end the connection.
LegalFrame(frame) == frame \in Seq(Byte) /\ Len(frame) \in 1..MaxFrame

BadRequest == <<52, 48, 48>>        \* the refusals start with these digits
NotFound == <<52, 48, 52>>
TooLarge == <<52, 49, 51>>
RateExceeded == <<52, 50, 57>>
BadToken == <<52, 48, 49>>
Mismatch == <<53, 48, 48>>
Disabled == <<53, 48, 49>>
StoreFull == <<53, 48, 55>>

FrameOk(body) == <<0>> \o body
FrameErr(text) == <<1>> \o text

\* hex_decode of this file, which reads a digit after a sign as two digits.
Unsigned(s) == [i \in DOMAIN s |-> IF s[i] = 43 /\ i % 2 = 1 THEN 48 ELSE s[i]]
HexDecodes(s) == IsHex(Unsigned(s))
HexDecode(s) == Unhex(Unsigned(s))

Named(hold, name) == {i \in DOMAIN hold : hold[i].name = name}

\* serve_body: the file must hash to its name.
ServeBody(hold, name) ==
    IF ~HexDecodes(name) \/ Len(name) # 2 * AddressLen THEN [err |-> BadRequest]
    ELSE IF Named(hold, name) = {} THEN [err |-> NotFound]
    ELSE LET body == hold[CHOOSE i \in Named(hold, name) : TRUE].body
         IN IF Address(body) # HexDecode(name) THEN [err |-> Mismatch] ELSE [body |-> body]

\* The hold after store_body, or the refusal.
StoreBody(hold, body) ==
    LET name == Hex(Address(body))
    IN IF body = <<>> THEN [err |-> BadRequest]
       ELSE IF Len(body) > MaxBody THEN [err |-> TooLarge]
       ELSE IF Named(hold, name) # {} THEN [hold |-> hold]
       ELSE [hold |-> Append(hold, [name |-> name, body |-> body])]

Least(a, b) == IF a < b THEN a ELSE b

\* The chain entries a request selects: from the tip, or from topoheight top
\* down; asking for none gives all.
Selected(hold, top, n) ==
    LET first == IF top # 0 /\ top < Len(hold) THEN top + 1 ELSE Len(hold)
        count == IF n = 0 THEN first ELSE Least(n, first)
    IN [j \in 1..count |-> <<first - j, hold[first + 1 - j].name>>]

\* The ways a frame may be handled: what came in, what is answered.
Handling(reply, hold, ran, said) == [reply |-> reply, hold |-> hold, ran |-> ran, said |-> said]

\* handle_rpc2; cfg is the policy of the serve, its rate and quota left open.
Rpc2(msg, hold, cfg) ==
    LET ran == To("rpc2", msg.method, msg.payload)
        Reply(body, to, data) == Handling(Message(<<>>, msg.seq, <<>>, body), to, ran, Ok(data))
        Refuse(text) == Handling(ErrorResponse(msg.seq, text), hold, ran, Error(text))
        blid == StringOr(Field(msg.payload, Key.BLID), <<>>)
    IN CASE msg.method = Method.Handshake ->
              {Reply(HandshakeResponse(Len(hold), 1), hold, Len(hold))}
         [] msg.method = Method.Chain ->
              LET entries == Selected(hold, U64Or(Field(msg.payload, Key.TOP), 0),
                                      Least(U64Or(Field(msg.payload, Key.N), 128), ChainMax))
                  pairs == [i \in DOMAIN entries |-> <<entries[i][1], Unhex(entries[i][2])>>]
              IN {Reply(ChainResponse(pairs), hold, entries)}
         [] msg.method = Method.GetObject ->
              LET found == ServeBody(hold, blid)
              IN {IF "err" \in DOMAIN found THEN Refuse(found.err)
                  ELSE Reply(GetObjectResponse(found.body), hold, found.body)}
         [] msg.method = Method.PutObject ->
              LET hex == StringOr(Field(msg.payload, Key.BODY), <<>>)
                  body == Unhex(hex)
                  stored == StoreBody(hold, body)
              IN IF ~IsHex(hex) THEN {Refuse(BadRequest)}
                 ELSE {Refuse(RateExceeded)} \cup
                      IF cfg.token # <<>> /\ StringOr(Field(msg.payload, Key.TOKEN), <<>>) # cfg.token
                      THEN {Refuse(BadToken)}
                      ELSE {Refuse(StoreFull)} \cup
                           {IF ~HexDecodes(blid) \/ HexDecode(blid) # Address(body) THEN Refuse(BadRequest)
                            ELSE IF "err" \in DOMAIN stored THEN Refuse(stored.err)
                            ELSE Reply(PutObjectResponse(Address(body)), stored.hold, Address(body))}
         [] OTHER -> {Refuse(Disabled)}

FabricKey == [verb |-> <<118>>, handle |-> <<104>>, token |-> <<116>>, lease |-> <<108>>,
              nonce |-> <<110>>, pointer |-> <<112>>, max |-> <<109>>,
              expires |-> <<101>>, queued |-> <<113>>, pointers |-> <<115>>]
Verb == [reg |-> <<102, 114>>, put |-> <<102, 117>>, pop |-> <<102, 111>>]
VerbOf == [m \in {Method.FabricReg, Method.FabricPut, Method.FabricPop} |->
            IF m = Method.FabricReg THEN Verb.reg
            ELSE IF m = Method.FabricPut THEN Verb.put ELSE Verb.pop]
\* What the cores return when they accept: run_freg, run_fput, run_fpop.
RegAccepts(request) ==
    Object(Also(Entry(FabricKey.token, Field(request, FabricKey.token)),
                Entry(FabricKey.expires, Number(Huge))))
PutAccepts == Object(Entry(FabricKey.queued, Bool(TRUE)))
PopAccepts ==
    Object(Entry(FabricKey.pointers, List(<<String(<<112, 49>>), String(<<112, 50>>)>>)))
Accepted(verb, request) ==
    CASE verb = Verb.reg -> RegAccepts(request)
      [] verb = Verb.put -> PutAccepts
      [] OTHER -> PopAccepts
\* What each of them insists on, a string.
RegInsists == {FabricKey.handle, FabricKey.token}
PutInsists == {FabricKey.handle, FabricKey.pointer}
PopInsists == {FabricKey.handle}
Insists(verb) ==
    CASE verb = Verb.reg -> RegInsists [] verb = Verb.put -> PutInsists [] OTHER -> PopInsists
Acceptable(verb, request) == \A key \in Insists(verb) : IsString(Field(request, key))
\* Two of their refusals stand for all.
Refusable == {BadRequest, NotFound}

\* handle_rpc2_fabric.
FabricRpc2(msg, hold, cfg) ==
    LET ran == To("fabric", msg.method, msg.payload)
        Refuse(text) == Handling(ErrorResponse(msg.seq, text), hold, ran, Error(text))
        verb == VerbOf[msg.method]
        value == Accepted(verb, msg.payload)
    IN IF ~cfg.fabric THEN {Refuse(Disabled)}
       ELSE IF msg.method \notin DOMAIN VerbOf THEN {Refuse(BadRequest)}
       ELSE {Refuse(text) : text \in Refusable} \cup
            IF ~Acceptable(verb, msg.payload) THEN {}
            ELSE {Handling(Message(<<>>, msg.seq, <<>>, JsonToCbor(value)), hold, ran, Ok(value))}

\* handle_verb.
FabricVerb(request, hold, cfg) ==
    LET verb == Field(request, FabricKey.verb).chars
        ran == To("verb", <<>>, request)
        Refuse(text) == Handling(FrameErr(text), hold, ran, Error(text))
        value == Accepted(verb, request)
    IN IF ~cfg.fabric THEN {Refuse(Disabled)}
       ELSE IF verb \notin {Verb.reg, Verb.put, Verb.pop} THEN {Refuse(BadRequest)}
       ELSE {Refuse(text) : text \in Refusable} \cup
            IF ~Acceptable(verb, request) THEN {}
            ELSE {Handling(FrameOk(Json(value)), hold, ran, Ok(value))}

CidKey == <<99>>
CidFetch(request, hold) ==
    LET found == ServeBody(hold, StringOr(Field(request, CidKey), <<>>))
        ran == To("cid", <<>>, request)
    IN IF "err" \in DOMAIN found
       THEN {Handling(FrameErr(found.err), hold, ran, Error(found.err))}
       ELSE {Handling(FrameOk(found.body), hold, ran, Ok(found.body))}

\* Fault: the methods are listed, and one is forgotten.
IsFabricListed(method) == method \in {Method.FabricReg, Method.FabricPut}
\* The prefix "Peer.Fabric".
IsFabric(method) == IsPrefix(<<80, 70>>, method)

\* The body of handle_client's loop: rpc2 first, where the name of the method
\* decides between the two handlers; then JSON with a verb; then a cid.
Handlings(frame, hold, cfg) ==
    LET calls == {m \in DecodeMessage(frame) : m.method # <<>>}
        requests == FromJson(frame, 1)
    IN IF calls # {}
       THEN UNION {IF IsFabric(m.method)
                   THEN FabricRpc2(m, hold, cfg) ELSE Rpc2(m, hold, cfg) : m \in calls}
       ELSE IF requests = {}
       THEN {Handling(FrameErr(BadRequest), hold, To("none", <<>>, Null), Error(BadRequest))}
       ELSE UNION {IF IsString(Field(r, FabricKey.verb))
                   THEN FabricVerb(r, hold, cfg) ELSE CidFetch(r, hold) : r \in requests}

-----------------------------------------------------------------------------
(* The calling side: the requests of the clients. *)

JsonCall(family, request) == [for |-> To(family, <<>>, request), seq |-> 0, body |-> <<>>]
Rpc2Call(method, seq, body, request) == [for |-> To("rpc2", method, request), seq |-> seq, body |-> body]

Frame(call) ==
    IF call.for.method = <<>> THEN Json(call.for.request)
    ELSE Message(call.for.method, call.seq, <<>>, call.body)

FetchCall(name) == JsonCall("cid", Object([k \in {CidKey} |-> String(name)]))
HandshakeCall == Rpc2Call(Method.Handshake, 1, HandshakeRequest(1), Object(Entry(Key.N, Number(1))))
ChainCall == Rpc2Call(Method.Chain, 2, ChainRequest(0, 5000),
                      Object(Also(Entry(Key.TOP, Number(0)), Entry(Key.N, Number(5000)))))
GetCall(seq, blid) ==
    Rpc2Call(Method.GetObject, seq, GetObjectRequest(blid), Object(Entry(Key.BLID, String(Hex(blid)))))
PutCall(seq, blid, body, token) ==
    Rpc2Call(Method.PutObject, seq, PutObjectRequest(blid, body, token),
             Object(Also(Also(Entry(Key.BLID, String(Hex(blid))), Entry(Key.BODY, String(Hex(body)))),
                         IF token = <<>> THEN <<>> ELSE Entry(Key.TOKEN, String(token)))))

\* The request of fabric_pub; put needs a pointer, reg a token of some length.
FabricRequest(sub, handle, token, nonce, pointer, lease, max) ==
    LET common == Also(Entry(FabricKey.verb, String(Verb[sub])), Entry(FabricKey.handle, String(handle)))
        given == Entry(FabricKey.token, String(token))
    IN Object(Also(common,
        CASE sub = "reg" -> Also(Also(given, Entry(FabricKey.lease, Number(lease))),
                                 IF nonce = <<>> THEN <<>> ELSE Entry(FabricKey.nonce, String(nonce)))
          [] sub = "put" -> Entry(FabricKey.pointer, String(pointer))
          [] sub = "pop" -> Also(given, Entry(FabricKey.max, Number(max)))))

-----------------------------------------------------------------------------
(* The calling side: what it makes of an answer. *)

\* Fault: a first byte 0 is taken for the status.
ParseByFirstByte(resp, name) ==
    LET body == IF resp[1] = 0 THEN Tail(resp) ELSE resp IN
    IF Address(body) = HexDecode(name) THEN Ok(body)
    ELSE IF resp[1] = 1 THEN Error(Tail(resp)) ELSE Broken
\* The hash decides, not the first byte: a legacy body may begin with any.
ParseFetchResponse(resp, name) ==
    IF ~HexDecodes(name) \/ Len(name) # 2 * AddressLen THEN Broken
    ELSE IF Address(resp) = HexDecode(name) THEN Ok(resp)
    ELSE IF resp[1] = 0 /\ Address(Tail(resp)) = HexDecode(name) THEN Ok(Tail(resp))
    ELSE IF resp[1] = 1 THEN Error(Tail(resp)) ELSE Broken

\* What each method's caller reads out of a payload that came without error.
Rpc2Result(call, payload) ==
    LET method == call.for.method
        blid == Field(call.for.request, Key.BLID).chars
        entries == IF payload.type = "list" THEN payload.items ELSE <<>>
        IsPair(e) == e.type = "list" /\ Len(e.items) = 2
        given == StringOr(payload, <<>>)
    IN CASE method = Method.Handshake -> Ok(U64Or(Field(payload, Key.H), 0))
         [] method = Method.Chain ->
              IF \E i \in DOMAIN entries : ~IsPair(entries[i]) THEN Broken
              ELSE Ok([i \in DOMAIN entries |->
                        <<U64Or(entries[i].items[1], 0), StringOr(entries[i].items[2], <<>>)>>])
         [] method = Method.GetObject ->
              IF IsString(payload) /\ IsHex(given) /\ Address(Unhex(given)) = Unhex(blid)
              THEN Ok(Unhex(given)) ELSE Broken
         [] method = Method.PutObject ->
              IF StringOr(Field(payload, Key.BLID), <<>>) = blid THEN Ok(Unhex(blid)) ELSE Broken
         [] OTHER -> Ok(payload)

Only(S, default) == IF S = {} THEN default ELSE CHOOSE x \in S : TRUE
\* rpc2_call does not compare the answer's sequence number with the request's.
Result(call, reply) ==
    IF ~LegalFrame(reply) THEN Broken
    ELSE CASE call.for.family = "cid" -> ParseFetchResponse(reply, Field(call.for.request, CidKey).chars)
           [] call.for.family = "verb" ->
                IF reply[1] # 0 THEN Error(Tail(reply)) ELSE Ok(Only(FromJson(reply, 2), Null))
           [] OTHER -> Only({IF m.error # <<>> THEN Error(m.error) ELSE Rpc2Result(call, m.payload)
                             : m \in DecodeMessage(reply)}, Broken)
=============================================================================
