-------------------------------- MODULE Host --------------------------------
(***************************************************************************)
(* The processes of src/spore_peer.rs on one host: every id runs one       *)
(* command line of main.  A serve writes its pidfile, binds, polls for     *)
(* connections and for the shutdown flag, drains, removes the pidfile and  *)
(* exits; the clients connect and call; "peers" edits peers.txt, which the *)
(* sync loop reads.  Any process may be told to stop, or killed.           *)
(*                                                                         *)
(* A frame is handled in one step, at the moment its handler reads the     *)
(* hold.  What the handlers of one node do to each other inside the relay  *)
(* and the body store is the subject of FabricRelay and BodyStore, what    *)
(* the calls of a pass add up to that of SyncLoop.                         *)
(***************************************************************************)
EXTENDS Wire, CommandLine, Vec

CONSTANTS
    Id,            \* processes
    Nobody,
    CommandLines,  \* the command lines they may be given: functions on Id
    BytesOf(_),    \* the bytes an argument stands for
    Valid,         \* addresses that validate_peer_addr accepts
    OldServers,    \* addresses at which a server of the legacy protocol answers
    OldReplies,    \* the frames such a server may answer with
    ForeignCalls,  \* the calls of another implementation's client
    StartHolds,    \* what each directory contains at first
    StartPeers,    \* and its peers.txt
    DrainSlices    \* SHUTDOWN_DRAIN_SECS in slices of the polling loop

VARIABLES
    cmd,        \* what each process was told to do: records [do, opt]
    pc, code,   \* where it is; its exit code, or 128 and the signal that ended it
    shutdown,   \* its SHUTDOWN flag
    pidfile, tmp,   \* the inodes of these two names: who created them
    fd, text,       \* the inode a process writes; whose pid an inode has
    port,       \* who listens at an address
    backlog,    \* connections not accepted yet
    taken,      \* connections with a handler thread
    inflight,   \* the local of serve that is never decremented
    left,       \* slices of the drain window that are left
    cut,        \* clients whose connection is gone
    line,       \* what is on the connection of a client
    targets,    \* addresses a client still has to go through
    todo,       \* calls it still has to make over its connection
    phase,      \* whether a sync pulls or pushes
    failed,     \* whether some address failed
    holds, peers,   \* the two kinds of files of a directory
    list,       \* the peers list an edit has read and will write
    ledger,     \* history: the peers every edit so far asked for
    torn,       \* history: directories where edits overlapped or broke off
    crossed,    \* history: serves that used the pidfile at the same time
    want, synced    \* history: addresses a pass should do, and has done

pidVars == <<pidfile, tmp, fd, text, crossed>>
netVars == <<port, backlog, taken, inflight, left, cut, line>>
callVars == <<targets, todo, phase, failed, want, synced>>
fileVars == <<holds, peers, list, ledger, torn>>
vars == <<cmd, pc, code, shutdown, pidVars, netVars, callVars, fileVars>>

ASSUME HostAssumption == Nobody \notin Id /\ DrainSlices \in Nat

Dirs == DOMAIN StartHolds

\* A list that the program has written: no line of it repeats another.
ASSUME PeersAssumption ==
    /\ Valid \subseteq STRING
    /\ StartPeers \in [Dirs -> Seq(STRING)] /\ \A d \in Dirs : IsInjective(StartPeers[d])
Opt(p, name) == cmd[p].opt[name]
Is(p, do) == cmd[p].do = do
Dir(p) == Opt(p, "--dir")
Ended == {"exited", "killed"}

Idle == [to |-> Nobody, ask |-> <<>>, reply |-> <<>>, ran |-> <<>>, said |-> <<>>]

\* A client of another implementation has no command line of main.
Command(argv) ==
    IF argv[1] = "foreign" THEN [do |-> "foreign", opt |-> [Defaults["fetch"] EXCEPT !["--addr"] = argv[2]]]
    ELSE Parse(argv)

\* What a serve, a push and a sync loop read is among the directories.
ASSUME LinesAssumption ==
    \A argv \in CommandLines, p \in Id :
        Command(argv[p]).do \in {"serve", "push", "sync-loop"} => Command(argv[p]).opt["--dir"] \in Dirs

\* Bodies are files of bytes with a name in hexadecimal.  The other
\* implementation calls by rpc2, and asks for bodies in hexadecimal.
HexText == {s \in Seq(Byte) : IsHex(s)}
File == [name : HexText, body : Seq(Byte)]
WellAsked(call) ==
    /\ call.for.method # <<>> => call.for.family = "rpc2"
    /\ call.for.method = Method.GetObject => Field(call.for.request, Key.BLID).chars \in HexText
ASSUME HoldsAssumption ==
    /\ \A d \in Dirs : StartHolds[d] \in Seq(File)
    /\ ForeignCalls \in Seq(ToSet(ForeignCalls)) /\ \A i \in DOMAIN ForeignCalls : WellAsked(ForeignCalls[i])

Init ==
    /\ \E argv \in CommandLines : cmd = [p \in Id |-> Command(argv[p])]
    /\ pc = [p \in Id |-> "start"] /\ code = [p \in Id |-> 0]
    /\ shutdown = [p \in Id |-> FALSE]
    /\ pidfile = Nobody /\ tmp = Nobody
    /\ fd = [p \in Id |-> Nobody] /\ text = [p \in Id |-> Nobody]
    /\ port = [a \in Valid |-> Nobody]
    /\ backlog = [p \in Id |-> <<>>] /\ taken = [p \in Id |-> {}]
    /\ inflight = [p \in Id |-> 0] /\ left = [p \in Id |-> 0]
    /\ cut = {} /\ line = [p \in Id |-> Idle]
    /\ targets = [p \in Id |-> <<>>] /\ todo = [p \in Id |-> <<>>]
    /\ phase = [p \in Id |-> "pull"] /\ failed = [p \in Id |-> FALSE]
    /\ holds = StartHolds /\ peers = StartPeers
    /\ list = [p \in Id |-> <<>>]
    /\ ledger = [d \in Dirs |-> ToSet(StartPeers[d])]
    /\ torn = {} /\ crossed = {}
    /\ want = [p \in Id |-> {}] /\ synced = [p \in Id |-> {}]

Goto(p, label) == pc' = [pc EXCEPT ![p] = label]
Exit(p, status) == Goto(p, "exited") /\ code' = [code EXCEPT ![p] = status]

\* What the kernel does when a process ends: it stops listening, and its
\* connections on either side are gone.
Released(p) ==
    /\ port' = [a \in Valid |-> IF port[a] = p THEN Nobody ELSE port[a]]
    /\ backlog' = [backlog EXCEPT ![p] = <<>>]
    /\ taken' = [q \in Id |-> IF q = p THEN {} ELSE taken[q] \ {p}]
    /\ cut' = (cut \cup ToSet(backlog[p]) \cup taken[p]) \ {p}
    /\ line' = [line EXCEPT ![p] = Idle]
    /\ UNCHANGED <<inflight, left>>

-----------------------------------------------------------------------------
(* main: what each subcommand begins with. *)

Usage(p) ==
    /\ pc[p] = "start" /\ Is(p, "usage")
    /\ Exit(p, 2)
    /\ UNCHANGED <<cmd, shutdown, pidVars, netVars, callVars, fileVars>>

StartServe(p) ==
    /\ pc[p] = "start" /\ Is(p, "serve")
    /\ Goto(p, IF Opt(p, "--pidfile") = Absent THEN "install" ELSE "pidopen")
    /\ UNCHANGED <<cmd, code, shutdown, pidVars, netVars, callVars, fileVars>>

\* fabric_pub refuses a short token, a missing pointer and another verb before
\* it connects.
FabricMakes(p) ==
    LET sub == Opt(p, "--sub") IN
    \/ sub = "reg" /\ Len(BytesOf(Opt(p, "--token"))) >= TokenMin
    \/ sub = "put" /\ Opt(p, "--pointer") # ""
    \/ sub = "pop"

StartClient(p) ==
    /\ pc[p] = "start" /\ cmd[p].do \in {"fetch", "fabric", "sync", "push", "foreign"}
    /\ IF Is(p, "fabric") /\ ~FabricMakes(p)
       THEN Exit(p, 1) /\ UNCHANGED targets
       ELSE /\ Goto(p, "connect")
            /\ targets' = [targets EXCEPT ![p] = <<Opt(p, "--addr")>>]
            /\ UNCHANGED code
    /\ UNCHANGED <<cmd, shutdown, pidVars, netVars, todo, phase, failed, want, synced, fileVars>>

-----------------------------------------------------------------------------
(* serve: the pidfile. *)

\* A serve with a pidfile, from write_pidfile on until it has gone.
HasPidfile(p) ==
    /\ Is(p, "serve") /\ Opt(p, "--pidfile") # Absent
    /\ pc[p] \in {"pidwrite", "pidrename", "install", "bind", "poll", "accept", "drain", "leave"}

\* fs::write opens the temporary file, made or truncated, and writes it.
PidOpen(p) ==
    /\ pc[p] = "pidopen"
    /\ LET inode == IF tmp = Nobody THEN p ELSE tmp
           others == {q \in Id \ {p} : HasPidfile(q)}
       IN /\ tmp' = inode
          /\ fd' = [fd EXCEPT ![p] = inode]
          /\ text' = [text EXCEPT ![inode] = Nobody]
          /\ crossed' = crossed \cup others \cup (IF others = {} THEN {} ELSE {p})
    /\ Goto(p, "pidwrite")
    /\ UNCHANGED <<cmd, code, shutdown, pidfile, netVars, callVars, fileVars>>

PidWrite(p) ==
    /\ pc[p] = "pidwrite"
    /\ text' = [text EXCEPT ![fd[p]] = p]
    /\ Goto(p, "pidrename")
    /\ UNCHANGED <<cmd, code, shutdown, pidfile, tmp, fd, crossed, netVars, callVars, fileVars>>

\* The rename fails when another serve has renamed the file.
PidRename(p) ==
    /\ pc[p] = "pidrename"
    /\ IF tmp = Nobody THEN Exit(p, 1) /\ UNCHANGED <<pidfile, tmp>>
       ELSE /\ pidfile' = tmp /\ tmp' = Nobody
            /\ Goto(p, "install") /\ UNCHANGED code
    /\ UNCHANGED <<cmd, shutdown, fd, text, crossed, netVars, callVars, fileVars>>

PidFails(p) ==
    /\ pc[p] \in {"pidopen", "pidwrite"}
    /\ Exit(p, 1)
    /\ UNCHANGED <<cmd, shutdown, pidVars, netVars, callVars, fileVars>>

-----------------------------------------------------------------------------
(* serve: its main thread. *)

Install(p) ==
    /\ pc[p] = "install"
    /\ Goto(p, "bind")
    /\ UNCHANGED <<cmd, code, shutdown, pidVars, netVars, callVars, fileVars>>

Bind(p) ==
    /\ pc[p] = "bind"
    /\ LET a == Opt(p, "--listen") IN
       IF port[a] = Nobody
       THEN port' = [port EXCEPT ![a] = p] /\ Goto(p, "poll") /\ UNCHANGED code
       ELSE Goto(p, "leave") /\ code' = [code EXCEPT ![p] = 1] /\ UNCHANGED port
    /\ UNCHANGED <<cmd, shutdown, pidVars, backlog, taken, inflight, left, cut, line, callVars, fileVars>>

\* The flag is looked at before every accept.
Poll(p) ==
    /\ pc[p] = "poll"
    /\ IF shutdown[p] THEN Goto(p, "drain") /\ left' = [left EXCEPT ![p] = DrainSlices]
       ELSE Goto(p, "accept") /\ UNCHANGED left
    /\ UNCHANGED <<cmd, code, shutdown, pidVars, port, backlog, taken, inflight, cut, line, callVars, fileVars>>

\* Fault: accepted connections are not counted.
AcceptUncounted(p) ==
    /\ pc[p] = "accept"
    /\ IF backlog[p] = <<>> THEN UNCHANGED <<backlog, taken>>
       ELSE /\ backlog' = [backlog EXCEPT ![p] = Tail(@)]
            /\ taken' = [taken EXCEPT ![p] = @ \cup {c \in {Head(backlog[p])} : pc[c] \notin Ended}]
    /\ Goto(p, "poll")
    /\ UNCHANGED <<cmd, code, shutdown, pidVars, port, inflight, left, cut, line, callVars, fileVars>>
\* accept takes the oldest connection, or would block; a handler whose client
\* has died ends at once.
Accept(p) ==
    /\ pc[p] = "accept"
    /\ IF backlog[p] = <<>> THEN UNCHANGED <<backlog, taken, inflight>>
       ELSE /\ backlog' = [backlog EXCEPT ![p] = Tail(@)]
            /\ taken' = [taken EXCEPT ![p] = @ \cup {c \in {Head(backlog[p])} : pc[c] \notin Ended}]
            /\ inflight' = [inflight EXCEPT ![p] = @ + 1]
    /\ Goto(p, "poll")
    /\ UNCHANGED <<cmd, code, shutdown, pidVars, port, left, cut, line, callVars, fileVars>>

\* The drain sleeps on while handlers seem to run and the window is open; then
\* serve returns, which closes the listener.
DrainOver(p) == inflight[p] = 0 \/ left[p] = 0
\* Fault: the listener stays open.
DrainListening(p) ==
    /\ pc[p] = "drain"
    /\ IF ~DrainOver(p)
       THEN left' = [left EXCEPT ![p] = @ - 1] /\ UNCHANGED pc
       ELSE Goto(p, "leave") /\ UNCHANGED left
    /\ UNCHANGED <<cmd, code, shutdown, pidVars, port, backlog, taken, inflight, cut, line,
                   callVars, fileVars>>
\* Fault: the handler threads are joined before the end.
DrainJoins(p) ==
    /\ pc[p] = "drain" /\ taken[p] = {}
    /\ Goto(p, "leave")
    /\ port' = [a \in Valid |-> IF port[a] = p THEN Nobody ELSE port[a]]
    /\ cut' = cut \cup ToSet(backlog[p])
    /\ backlog' = [backlog EXCEPT ![p] = <<>>]
    /\ UNCHANGED <<cmd, code, shutdown, pidVars, left, taken, inflight, line, callVars, fileVars>>
Drain(p) ==
    /\ pc[p] = "drain"
    /\ IF ~DrainOver(p)
       THEN left' = [left EXCEPT ![p] = @ - 1] /\ UNCHANGED <<pc, port, backlog, cut>>
       ELSE /\ Goto(p, "leave")
            /\ port' = [a \in Valid |-> IF port[a] = p THEN Nobody ELSE port[a]]
            /\ cut' = cut \cup ToSet(backlog[p])
            /\ backlog' = [backlog EXCEPT ![p] = <<>>]
            /\ UNCHANGED left
    /\ UNCHANGED <<cmd, code, shutdown, pidVars, taken, inflight, line, callVars, fileVars>>

\* Fault: the pidfile stays.
LeaveFile(p) ==
    /\ pc[p] = "leave"
    /\ Goto(p, "exited")
    /\ Released(p)
    /\ UNCHANGED <<cmd, code, shutdown, pidVars, callVars, fileVars>>
\* Back in main: the pidfile goes, whatever serve returned, and the process.
Leave(p) ==
    /\ pc[p] = "leave"
    /\ pidfile' = IF Opt(p, "--pidfile") = Absent THEN pidfile ELSE Nobody
    /\ Goto(p, "exited")
    /\ Released(p)
    /\ UNCHANGED <<cmd, code, shutdown, tmp, fd, text, crossed, callVars, fileVars>>

ServeStep(p) ==
    \/ StartServe(p) \/ PidOpen(p) \/ PidWrite(p) \/ PidRename(p) \/ PidFails(p)
    \/ Install(p) \/ Bind(p) \/ Poll(p) \/ Accept(p) \/ Drain(p) \/ Leave(p)

-----------------------------------------------------------------------------
(* serve: its handler threads. *)

Policy(p) == [fabric |-> "on" \in {Opt(p, "-fabric"), Opt(p, "--fabric")},
              token |-> BytesOf(Opt(p, "--token"))]

\* Fault: a frame of an illegal length is dropped.
HandleSkipping(p, c) ==
    /\ c \in taken[p] /\ line[c].ask # <<>>
    /\ IF LegalFrame(line[c].ask)
       THEN \E h \in Handlings(line[c].ask, holds[Dir(p)], Policy(p)) :
               /\ line' = [line EXCEPT ![c] = [to |-> p, ask |-> <<>>, reply |-> h.reply,
                                               ran |-> h.ran, said |-> h.said]]
               /\ holds' = [holds EXCEPT ![Dir(p)] = h.hold]
       ELSE line' = [line EXCEPT ![c].ask = <<>>] /\ UNCHANGED holds
    /\ UNCHANGED <<cmd, pc, code, shutdown, pidVars, port, backlog, taken, inflight, left, cut,
                   callVars, peers, list, ledger, torn>>
\* handle_client: one frame of client c is read, dispatched and answered.  A
\* frame of an illegal length ends the connection.
Handle(p, c) ==
    /\ c \in taken[p] /\ line[c].ask # <<>>
    /\ IF LegalFrame(line[c].ask)
       THEN \E h \in Handlings(line[c].ask, holds[Dir(p)], Policy(p)) :
               /\ line' = [line EXCEPT ![c] = [to |-> p, ask |-> <<>>, reply |-> h.reply,
                                               ran |-> h.ran, said |-> h.said]]
               /\ holds' = [holds EXCEPT ![Dir(p)] = h.hold]
               /\ UNCHANGED <<taken, cut>>
       ELSE /\ taken' = [taken EXCEPT ![p] = @ \ {c}]
            /\ cut' = cut \cup {c}
            /\ UNCHANGED <<line, holds>>
    /\ UNCHANGED <<cmd, pc, code, shutdown, pidVars, port, backlog, inflight, left, callVars,
                   peers, list, ledger, torn>>

\* A server of the legacy protocol (external) answers, or hangs up.
OldServer(c) ==
    /\ line[c].to = Nobody /\ line[c].ask # <<>> /\ c \notin cut
    /\ \/ /\ \E reply \in OldReplies : line' = [line EXCEPT ![c].ask = <<>>, ![c].reply = reply]
          /\ UNCHANGED cut
       \/ cut' = cut \cup {c} /\ UNCHANGED line
    /\ UNCHANGED <<cmd, pc, code, shutdown, pidVars, port, backlog, taken, inflight, left,
                   callVars, fileVars>>

-----------------------------------------------------------------------------
(* The clients: a call at a time over one connection per address. *)

FirstCalls(p) ==
    CASE Is(p, "fetch") -> <<FetchCall(BytesOf(Opt(p, "--cid")))>>
      [] Is(p, "fabric") ->
           <<JsonCall("verb", FabricRequest(Opt(p, "--sub"), BytesOf(Opt(p, "--handle")),
                BytesOf(Opt(p, "--token")), BytesOf(Opt(p, "--nonce")),
                BytesOf(Opt(p, "--pointer")), Numerals[Opt(p, "--lease")], Numerals[Opt(p, "--max")]))>>
      [] Is(p, "foreign") -> ForeignCalls
      [] OTHER -> <<HandshakeCall, ChainCall>>

\* The file of a directory is written, which makes it the newest.
Written(hold, name, body) ==
    Append(Keep(hold, {i \in DOMAIN hold : hold[i].name # name}), [name |-> name, body |-> body])
Holds(p, name) == Named(holds[Dir(p)], name) # {}

\* What a pull asks for after the peer's chain, and what a push offers.
GetCalls(entries) ==
    LET Usable(i) == HexDecodes(entries[i][2]) /\ Len(entries[i][2]) = 2 * AddressLen
        kept == Keep([i \in DOMAIN entries |-> i], {i \in DOMAIN entries : Usable(i)})
    IN [j \in DOMAIN kept |-> GetCall(99 + kept[j], HexDecode(entries[kept[j]][2]))]
PutCalls(p, entries) ==
    LET had == {entries[i][2] : i \in DOMAIN entries}
        hold == holds[Dir(p)]
        files == Keep(hold, {i \in DOMAIN hold : hold[i].name \notin had})
        Intact(i) == Hex(Address(files[i].body)) = files[i].name
        kept == Keep([i \in DOMAIN files |-> i], {i \in DOMAIN files : Intact(i)})
        Offer(i, f) == PutCall(200 + i, Unhex(f.name), f.body,
                               IF Is(p, "push") THEN BytesOf(Opt(p, "--token")) ELSE <<>>)
    IN [j \in DOMAIN kept |-> Offer(kept[j], files[kept[j]])]

Pushes(p) == Is(p, "push") \/ phase[p] = "push"
Asked(p) == Head(todo[p])
NameAsked(p) == Field(Asked(p).for.request, Key.BLID).chars
MethodOf(call) == call.for.method

\* Fault: an address that nobody listens at does not count as failed.
ConnectLenient(p) ==
    /\ pc[p] = "connect" /\ targets[p] # <<>>
    /\ LET a == Head(targets[p])
           q == IF a \in Valid THEN port[a] ELSE Nobody
       IN IF q # Nobody
          THEN /\ line' = [line EXCEPT ![p] = [Idle EXCEPT !.to = q]]
               /\ backlog' = [backlog EXCEPT ![q] = Append(@, p)]
               /\ todo' = [todo EXCEPT ![p] = FirstCalls(p)]
               /\ phase' = [phase EXCEPT ![p] = "pull"]
               /\ Goto(p, "call") /\ UNCHANGED targets
          ELSE /\ targets' = [targets EXCEPT ![p] = Tail(@)]
               /\ UNCHANGED <<pc, line, backlog, todo, phase>>
    /\ UNCHANGED <<cmd, code, shutdown, pidVars, port, taken, inflight, left, cut, failed, want,
                   synced, fileVars>>
Connect(p) ==
    /\ pc[p] = "connect" /\ targets[p] # <<>>
    /\ LET a == Head(targets[p])
           q == IF a \in Valid THEN port[a] ELSE Nobody
       IN IF q # Nobody \/ a \in OldServers
          THEN /\ line' = [line EXCEPT ![p] = [Idle EXCEPT !.to = q]]
               /\ backlog' = IF q = Nobody THEN backlog ELSE [backlog EXCEPT ![q] = Append(@, p)]
               /\ todo' = [todo EXCEPT ![p] = FirstCalls(p)]
               /\ phase' = [phase EXCEPT ![p] = "pull"]
               /\ Goto(p, "call") /\ UNCHANGED <<targets, failed>>
          ELSE /\ targets' = [targets EXCEPT ![p] = Tail(@)]
               /\ failed' = [failed EXCEPT ![p] = TRUE]
               /\ UNCHANGED <<pc, line, backlog, todo, phase>>
    /\ UNCHANGED <<cmd, code, shutdown, pidVars, port, taken, inflight, left, cut, want, synced, fileVars>>

\* A pull passes over a body that is here by now.
Call(p) ==
    /\ pc[p] = "call" /\ todo[p] # <<>>
    /\ IF MethodOf(Asked(p)) = Method.GetObject /\ Holds(p, NameAsked(p))
       THEN todo' = [todo EXCEPT ![p] = Tail(@)] /\ UNCHANGED <<pc, line>>
       ELSE /\ line' = [line EXCEPT ![p].ask = Frame(Asked(p)), ![p].reply = <<>>]
            /\ Goto(p, "wait") /\ UNCHANGED todo
    /\ UNCHANGED <<cmd, code, shutdown, pidVars, port, backlog, taken, inflight, left, cut,
                   targets, phase, failed, want, synced, fileVars>>

\* The connection is closed and the next address has its turn.
Hangup(p) ==
    /\ targets' = [targets EXCEPT ![p] = Tail(@)]
    /\ todo' = [todo EXCEPT ![p] = <<>>]
    /\ line' = [line EXCEPT ![p] = Idle]
    /\ taken' = [q \in Id |-> taken[q] \ {p}]
    /\ cut' = cut \ {p}
    /\ Goto(p, "connect")
    /\ UNCHANGED <<cmd, code, shutdown, pidVars, port, backlog, inflight, left, phase, want>>

\* Calls whose refusal is logged and passed over: a put's unless its text
\* contains "401".
Mentions(words, part) ==
    \E i \in DOMAIN words : i + Len(part) - 1 <= Len(words) /\ SubSeq(words, i, i + Len(part) - 1) = part
Tolerates(call, result) ==
    \/ MethodOf(call) = Method.GetObject
    \/ MethodOf(call) = Method.PutObject /\ ~Mentions(result.text, BadToken)
Goes(p, result) ==
    \/ result.status = "ok" \/ Is(p, "foreign")
    \/ result.status = "error" /\ Tolerates(Asked(p), result)

Receive(p) ==
    /\ pc[p] = "wait" /\ line[p].reply # <<>>
    /\ LET result == Result(Asked(p), line[p].reply)
           chain == MethodOf(Asked(p)) = Method.Chain
       IN IF Goes(p, result)
          THEN /\ todo' = [todo EXCEPT ![p] = Tail(@) \o
                    IF ~chain \/ result.status # "ok" THEN <<>>
                    ELSE IF Pushes(p) THEN PutCalls(p, result.data) ELSE GetCalls(result.data)]
               /\ holds' = IF MethodOf(Asked(p)) = Method.GetObject /\ result.status = "ok"
                           THEN [holds EXCEPT ![Dir(p)] = Written(@, NameAsked(p), result.data)]
                           ELSE holds
               /\ line' = [line EXCEPT ![p] = [Idle EXCEPT !.to = line[p].to]]
               /\ Goto(p, "call")
               /\ UNCHANGED <<cmd, code, shutdown, pidVars, port, backlog, taken, inflight, left,
                              cut, targets, phase, failed, want>>
          ELSE failed' = [failed EXCEPT ![p] = TRUE] /\ Hangup(p) /\ UNCHANGED holds
    /\ UNCHANGED <<synced, peers, list, ledger, torn>>

\* The connection broke.
Lost(p) ==
    /\ pc[p] \in {"call", "wait"} /\ p \in cut
    /\ failed' = [failed EXCEPT ![p] = TRUE]
    /\ Hangup(p)
    /\ UNCHANGED <<synced, fileVars>>

\* All calls are made: a sync loop that has pulled pushes, others are done
\* with this address.
CallsMade(p) ==
    /\ pc[p] = "call" /\ todo[p] = <<>>
    /\ IF Is(p, "sync-loop") /\ phase[p] = "pull"
       THEN /\ phase' = [phase EXCEPT ![p] = "push"]
            /\ todo' = [todo EXCEPT ![p] = FirstCalls(p)]
            /\ UNCHANGED <<cmd, pc, code, shutdown, pidVars, netVars, targets, want, synced>>
       ELSE synced' = [synced EXCEPT ![p] = @ \cup {Head(targets[p])}] /\ Hangup(p)
    /\ UNCHANGED <<failed, fileVars>>

\* No address is left: a client exits, a sync loop without --once sleeps.
ClientEnds(p) ==
    /\ pc[p] = "connect" /\ targets[p] = <<>>
    /\ IF Is(p, "sync-loop") /\ Opt(p, "--once") # "on"
       THEN Goto(p, "start") /\ UNCHANGED code
       ELSE Exit(p, IF failed[p] THEN 1 ELSE 0)
    /\ UNCHANGED <<cmd, shutdown, pidVars, netVars, callVars, fileVars>>

-----------------------------------------------------------------------------
(* peers.txt.  Lines have one length, so a write over a longer file leaves *)
(* the lines of that file that it does not reach.                          *)

\* peers_list drops the lines that repeat an earlier one.
Distinct(lines) ==
    Keep(lines, {i \in DOMAIN lines : \A j \in 1..(i - 1) : lines[j] # lines[i]})
Without(lines, a) == Keep(lines, {i \in DOMAIN lines : lines[i] # a})

Overwritten(old, new) == new \o SubSeq(old, Len(new) + 1, Len(old))

Edits(p) == Is(p, "peers") /\ pc[p] \in {"peersopen", "peerswrite"}
EditedBy(d) == {q \in Id : Edits(q) /\ Dir(q) = d}
\* What the edits that are through have asked for.
Asks(d, p) == IF Opt(p, "op") = "add" THEN ledger[d] \cup {Opt(p, "peer")}
              ELSE ledger[d] \ {Opt(p, "peer")}

\* peers_list and the tests on it; list and an invalid address end here.
PeersRead(p) ==
    /\ pc[p] = "start" /\ Is(p, "peers")
    /\ LET d == Dir(p)
           a == Opt(p, "peer")
           op == Opt(p, "op")
           now == Distinct(peers[d])
           changes == (op = "add") # (a \in ToSet(now))
       IN IF op = "list" \/ (op = "add" /\ a \notin Valid)
          THEN Exit(p, IF op = "list" THEN 0 ELSE 1) /\ UNCHANGED <<list, ledger, torn>>
          ELSE /\ torn' = torn \cup (IF EditedBy(d) = {} THEN {} ELSE {d})
               /\ IF changes
                  THEN /\ list' = [list EXCEPT ![p] = IF op = "add" THEN Append(now, a)
                                                     ELSE Without(now, a)]
                       /\ Goto(p, "peersopen") /\ UNCHANGED <<code, ledger>>
                  ELSE /\ Exit(p, 0) /\ ledger' = [ledger EXCEPT ![d] = Asks(d, p)]
                       /\ UNCHANGED list
    /\ UNCHANGED <<cmd, shutdown, pidVars, netVars, callVars, holds, peers>>

\* Fault: the file is opened without truncation.
PeersOpenLong(p) ==
    /\ pc[p] = "peersopen"
    /\ Goto(p, "peerswrite")
    /\ UNCHANGED <<cmd, code, shutdown, pidVars, netVars, callVars, fileVars>>
\* peers_write: fs::write opens with truncation, then writes.
PeersOpen(p) ==
    /\ pc[p] = "peersopen"
    /\ peers' = [peers EXCEPT ![Dir(p)] = <<>>]
    /\ Goto(p, "peerswrite")
    /\ UNCHANGED <<cmd, code, shutdown, pidVars, netVars, callVars, holds, list, ledger, torn>>

PeersWrite(p) ==
    /\ pc[p] = "peerswrite"
    /\ peers' = [peers EXCEPT ![Dir(p)] = Overwritten(@, list[p])]
    /\ ledger' = [ledger EXCEPT ![Dir(p)] = Asks(Dir(p), p)]
    /\ Exit(p, 0)
    /\ UNCHANGED <<cmd, shutdown, pidVars, netVars, callVars, holds, list, torn>>

\* sync_pass reads the list; what it should then do is known if nobody edits.
PassStarts(p) ==
    /\ pc[p] = "start" /\ Is(p, "sync-loop")
    /\ targets' = [targets EXCEPT ![p] = Distinct(peers[Dir(p)])]
    /\ want' = [want EXCEPT ![p] = IF Dir(p) \in torn \/ EditedBy(Dir(p)) # {} THEN {} ELSE ledger[Dir(p)]]
    /\ synced' = [synced EXCEPT ![p] = {}]
    /\ failed' = [failed EXCEPT ![p] = FALSE]
    /\ Goto(p, "connect")
    /\ UNCHANGED <<cmd, code, shutdown, pidVars, netVars, todo, phase, fileVars>>

ClientStep(p) ==
    \/ Usage(p) \/ StartClient(p) \/ Connect(p) \/ Call(p) \/ Receive(p) \/ Lost(p)
    \/ CallsMade(p) \/ ClientEnds(p) \/ PeersRead(p) \/ PeersOpen(p) \/ PeersWrite(p) \/ PassStarts(p)

-----------------------------------------------------------------------------
(* Signals. *)

SIGKILL == 9
SIGTERM == 15
\* The process dies as it stands; an edit that dies after the truncation
\* leaves an empty list.
Dies(p, signal) ==
    /\ Goto(p, "killed")
    /\ code' = [code EXCEPT ![p] = 128 + signal]
    /\ Released(p)
    /\ torn' = IF Is(p, "peers") /\ pc[p] = "peerswrite" THEN torn \cup {Dir(p)} ELSE torn
    /\ UNCHANGED <<cmd, shutdown, pidVars, callVars, holds, peers, list, ledger>>

Handles(p) == pc[p] \in {"bind", "poll", "accept", "drain", "leave"}
\* SIGTERM and SIGINT set the flag where the handler is installed.
Terminate(p) ==
    /\ pc[p] \notin Ended
    /\ IF Handles(p)
       THEN /\ shutdown' = [shutdown EXCEPT ![p] = TRUE]
            /\ UNCHANGED <<cmd, pc, code, pidVars, netVars, callVars, fileVars>>
       ELSE Dies(p, SIGTERM)

Kill(p) == pc[p] \notin Ended /\ Dies(p, SIGKILL)

\* All processes have ended.
Over == (\A p \in Id : pc[p] \in Ended) /\ UNCHANGED vars

Next ==
    \/ \E p \in Id : ServeStep(p) \/ ClientStep(p) \/ OldServer(p) \/ Terminate(p) \/ Kill(p)
    \/ \E p, c \in Id : Handle(p, c)
    \/ Over

Spec == Init /\ [][Next]_vars
\* Where a client, and where a handler, has a step to take.
ClientMay(p) ==
    /\ pc[p] \in {"start", "connect", "call", "wait", "peersopen", "peerswrite"} /\ ~Is(p, "serve")
    /\ pc[p] = "wait" => line[p].reply # <<>> \/ p \in cut
HandleMay(p, c) == c \in taken[p] /\ line[c].ask # <<>>

\* Of a serve's threads only the main one is sure to be scheduled: clients and
\* handlers may hang.
FairSpec == Spec /\ \A p \in Id : WF_vars(ServeStep(p))

\* Nobody hangs: clients and handlers are scheduled, and a server of the old
\* protocol answers or hangs up.  The last two say WF_vars(ClientStep(p)) and
\* WF_vars(Handle(p, c)), with what enables these steps written out.
NobodyHangs ==
    /\ \A p \in Id : WF_vars(OldServer(p))
    /\ \A p \in Id : []<>~ClientMay(p) \/ []<><<ClientStep(p)>>_vars
    /\ \A p, c \in Id : []<>~HandleMay(p, c) \/ []<><<Handle(p, c)>>_vars

-----------------------------------------------------------------------------
(* Properties. *)

Labels == Ended \cup {"start", "pidopen", "pidwrite", "pidrename", "install", "bind", "poll",
                      "accept", "drain", "leave", "connect", "call", "wait", "peersopen", "peerswrite"}
\* A serve that has handler threads.
Serving(p) == pc[p] \in {"poll", "accept", "drain", "leave"}

\* The type invariant.  Only the main loop of a serve listens and has threads
\* (1607-1664), and it counts every one of them.
TypeOK ==
    /\ pc \in [Id -> Labels] /\ code \in [Id -> 0..255]
    /\ shutdown \in [Id -> BOOLEAN]
    /\ {pidfile, tmp} \subseteq Id \cup {Nobody}
    /\ fd \in [Id -> Id \cup {Nobody}] /\ text \in [Id -> Id \cup {Nobody}]
    /\ port \in [Valid -> Id \cup {Nobody}]
    /\ backlog \in [Id -> Seq(Id)] /\ taken \in [Id -> SUBSET Id]
    /\ inflight \in [Id -> Nat] /\ left \in [Id -> 0..DrainSlices]
    /\ cut \subseteq Id /\ crossed \subseteq Id
    /\ \A a \in Valid : port[a] # Nobody => pc[port[a]] \in {"poll", "accept", "drain"}
    /\ \A p \in Id : taken[p] # {} => Serving(p) /\ inflight[p] > 0

\* What is in a client's hands: the answer of a serve of this code to its call.
Answered(c) == pc[c] = "wait" /\ line[c].reply # <<>> /\ line[c].to # Nobody
\* The handler a call is meant for: the methods of the relay have one of theirs.
MeantFor(call) == IF MethodOf(call) \in DOMAIN VerbOf THEN "fabric" ELSE call.for.family
\* json_to_cbor writes true as 0xf4, which decode_value reads as false (fabric.rs
\* 723-725, p2p.rs 287-290): the answer {"queued": true} of Peer.FabricPut is read
\* as a success with false in it.
Misread(c, result) ==
    /\ MethodOf(Asked(c)) = Method.FabricPut /\ line[c].said = Ok(PutAccepts)
    /\ result = Ok(Object(Entry(FabricKey.queued, Bool(FALSE))))
Agrees(c) ==
    LET result == Result(Asked(c), line[c].reply)
    IN  /\ line[c].ran = To(MeantFor(Asked(c)), MethodOf(Asked(c)), Asked(c).for.request)
        /\ result = line[c].said \/ Misread(c, result)

\* One port serves two protocols and three families of requests (501-549).  The
\* handler that runs is the one the client means and sees the request it made,
\* whether it accepts or refuses, and the client makes of the answer what that
\* handler meant: success with the same data but for a misread truth value, or
\* the same refusal.
AnswersAgree == \A c \in Id : Answered(c) => Agrees(c)

\* An answer of the legacy protocol, a raw body, may begin with the bytes that
\* mean success and failure in the present one (576-587): a fetch takes a frame
\* that hashes to its cid as the body, whole, and returns nothing else than
\* bytes that hash to the cid.
LegacyAgrees ==
    \A c \in Id :
        pc[c] = "wait" /\ Is(c, "fetch") /\ line[c].reply # <<>> =>
            LET name == BytesOf(Opt(c, "--cid"))
                reply == line[c].reply
                result == Result(Asked(c), reply)
                Hashes(bytes) == HexDecodes(name) /\ Len(name) = 2 * AddressLen /\ Address(bytes) = HexDecode(name)
            IN /\ LegalFrame(reply) /\ Hashes(reply) => result = Ok(reply)
               /\ result.status = "ok" => Hashes(result.data)

\* The tail of the fuzz target: an indefinite head, a length near 2^64, filler.
HostileTail == <<255, 255, 255, 255, 155, 255, 255, 255, 255, 255, 255, 255, 255, 116, 97, 105, 108>>
\* No part of the frame decodes but the header alone, and a hostile tail leaves
\* what is decoded as it was or makes it fail.
Tight(frame) ==
    LET whole == DecodeMessage(frame)
        Headers(m) == [m EXCEPT !.payload = Null]
        shorter == {n \in 0..(Len(frame) - 1) : DecodeMessage(SubSeq(frame, 1, n)) # {}}
    IN /\ whole # {} /\ Cardinality(shorter) <= 1
       /\ \A n \in shorter : DecodeMessage(SubSeq(frame, 1, n)) = {Headers(m) : m \in whole}
       /\ DecodeMessage(frame \o HostileTail) \in {{}, whole}
\* The decoder measures what it consumes (p2p.rs:163-165), in every frame that
\* the serves send and the clients accept (fuzz_p2p_decode.rs).
FrameTight ==
    \A c \in Id :
        Answered(c) /\ line[c].ran.method # <<>> /\ LegalFrame(line[c].reply) => Tight(line[c].reply)

\* A supervisor reads the pidfile (1475-1479).  It is never empty, a serve that
\* runs is named by it, and whom it names runs, or a signal has ended it: SIGKILL,
\* or SIGTERM while its handler was not installed - all of it for serves that
\* did not use the file at the same time as another.
PidfileTells ==
    /\ \A p \in Id \ crossed :
          HasPidfile(p) /\ pc[p] \notin {"pidwrite", "pidrename"} =>
              pidfile # Nobody /\ text[pidfile] = p
    /\ pidfile # Nobody =>
          LET owner == text[pidfile] IN
          IF owner = Nobody THEN crossed # {}
          ELSE owner \in crossed \/ HasPidfile(owner) \/ pc[owner] = "killed"

\* "Only SIGKILL leaves the pidfile behind" (45), "SIGTERM => exit 0, pidfile
\* REMOVED" (1501): whom the file names has not been ended by SIGTERM.
OnlyKillLeaves ==
    pidfile # Nobody /\ text[pidfile] # Nobody => code[text[pidfile]] # 128 + SIGTERM

\* A serve that was told to stop does not cut a request short before the drain
\* window is over (1658-1663), however many clients came when.
DrainHonoured ==
    [][\A p \in Id : pc[p] = "drain" /\ pc'[p] = "leave" =>
          left[p] = 0 \/ \A c \in taken[p] : line[c].ask = <<>>]_vars

\* A serve that was told to stop exits by the steps of its main thread alone: its
\* handlers and clients may hang (1561-1564).
ShutdownEnds == \A p \in Id : shutdown[p] ~> pc[p] \in Ended

\* Where nobody hangs, a client that waits for an answer gets it, or learns that
\* there is none: though no socket has a timeout, no step of a serve or of another
\* client leaves it waiting.
CallsEnd == NobodyHangs => \A c \in Id : (pc[c] = "wait") ~> (pc[c] # "wait")

\* peers_add and peers_remove take effect, whatever the order of the edits, as
\* long as none overlaps another and none dies after its truncation.
EditsStick ==
    \A d \in Dirs \ torn :
        (\A p \in EditedBy(d) : pc[p] # "peerswrite") =>
            /\ ToSet(peers[d]) = ledger[d]
            /\ Len(peers[d]) = Cardinality(ledger[d])

\* "--once is scriptable" (1452): when it exits with 0, every peer of the list
\* was synced both ways, if nobody edited the list while it was read.
OnceHonest ==
    \A p \in Id : Is(p, "sync-loop") /\ pc[p] = "exited" /\ code[p] = 0 => want[p] \subseteq synced[p]
=============================================================================
