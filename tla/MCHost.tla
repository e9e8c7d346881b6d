------------------------------- MODULE MCHost -------------------------------
(***************************************************************************)
(* An instance of Host for TLC.                                            *)
(***************************************************************************)
EXTENDS Host

CONSTANTS p1, p2, p3

\* An address of two bytes, which tells the bodies of this instance apart.
MCAddress(b) == IF b = <<>> THEN <<0, 0>> ELSE <<Len(b), (3 * b[1] + Last(b)) % 256>>

\* Two bodies that begin with a status byte, and one whose length takes a head
\* of two bytes.
Short == <<7>>
AsOk == <<0, 7, 7>>
AsErr == <<1, 52, 48, 52>>
Long == [i \in 1..24 |-> i]
TooLong == [i \in 1..90 |-> 1]
Name(b) == Hex(MCAddress(b))
FileOf(b) == [name |-> Name(b), body |-> b]

MCBytes(word) ==
    CASE word = "short" -> Name(Short) [] word = "asok" -> Name(AsOk) [] word = "aserr" -> Name(AsErr)
      [] word = "none" -> Name(<<9>>)
      [] word = "handle" -> <<104, 49>> [] word = "pointer" -> <<112, 51>>
      [] word = "token" -> <<116, 49, 50>> [] word = "wrong" -> <<116>>
      [] OTHER -> <<>>

\* A corrupt file among those of the serving directory.
MCHolds == ("d1" :> <<FileOf(Short), [name |-> Name(<<8>>), body |-> <<9>>], FileOf(Long)>>) @@
           ("d2" :> <<FileOf(Short), FileOf(AsOk)>>)
MCNumerals == ("8" :> 8) @@ ("30" :> 30) @@ ("3600" :> 3600)
MCPeers == ("d1" :> <<>>) @@ ("d2" :> <<"a1">>)

\* Raw bodies, a refusal in the old style, and a present one.
MCReplies == {Short, AsOk, AsErr, <<0>> \o Short, <<52, 48, 52>>, FrameErr(NotFound)}

FabricFields == FabricRequest("pop", <<104, 49>>, <<116>>, <<>>, <<>>, 0, 0)
MCForeign ==
    <<Rpc2Call(Method.FabricReg, 300, Encoded(FabricFields, <<245>>, <<244>>), FabricFields),
      Rpc2Call(Method.FabricPop, 70000, Encoded(FabricFields, <<245>>, <<244>>), FabricFields),
      PutCall(Huge, MCAddress(TooLong), TooLong, <<>>)>>
Serve == <<"serve", "--listen", "a1", "--dir", "d1">>
Lines(x, y, z) == (p1 :> x) @@ (p2 :> y) @@ (p3 :> z)
MCLines == {
    \* two serves with one pidfile and one address, and a client
    Lines(Serve \o <<"--pidfile", "f">>, Serve \o <<"--pidfile", "f">>,
          <<"fetch", "--addr", "a1", "--cid", "short">>),
    \* a relay and its clients
    Lines(Serve \o <<"--fabric">>, <<"foreign", "a1">>,
          <<"fabric", "--addr", "a1", "--sub", "put", "--handle", "handle", "--pointer", "pointer">>),
    Lines(Serve \o <<"-fabric", "--pidfile", "f", "--pidfile">>,
          <<"fabric", "--addr", "a1", "--sub", "reg", "--handle", "handle", "--token", "token", "--lease", "30">>,
          <<"fabric", "--addr", "a1", "--sub", "reg", "--handle", "handle", "--token", "wrong">>),
    \* a node that asks for a token, a push without it, a pull
    Lines(Serve \o <<"--token", "token">>, <<"push", "--addr", "a1", "--dir", "d2", "--token", "wrong">>,
          <<"sync", "--addr", "a1", "--dir", "d2">>),
    \* a sync loop while its list is edited, with --once and, where --interval
    \* takes that word, without
    Lines(Serve, <<"sync-loop", "--dir", "d2", "--once", "--interval">>,
          <<"peers", "--dir", "d2", "remove", "a1">>),
    Lines(<<"sync-loop", "--dir", "d2", "--interval", "--once">>, <<"peers", "add", "a3", "--dir", "d2">>,
          <<"peers", "add", "a2", "--dir", "d2">>),
    Lines(<<"peers", "add", "a2", "--dir", "d2">>, <<"peers", "remove", "a1", "--dir", "d2">>,
          <<"peers", "list", "--dir", "d2">>),
    \* servers of the old protocol, and a line without an address
    Lines(<<"fetch", "--addr", "old", "--cid", "asok">>, <<"fetch", "--addr", "old", "--cid", "aserr">>,
          <<"fetch", "--cid", "short", "--addr">>)}
\* A serve and a client.
OneServe == {Lines(Serve \o <<"--pidfile", "f">>, <<"fetch", "--addr", "a1", "--cid", "short">>,
                   <<"peers", "list">>)}
=============================================================================
