# spore-peer: a TLA+ verification project

spore-peer (`src/`) is one Rust binary: a node that holds encrypted message
bodies by content address and serves them over TCP, and, with `-fabric`, a
relay at which pointers to bodies wait for their recipients.  This directory
holds TLA+ modules translated from its source, the configurations that
model-check them with TLC, and theorems about them checked by TLAPS.

## 1. The system

Every accepted connection gets a handler thread (`serve`, `handle_client`).
The threads of a node share the relay state, the rate limiters, and one
directory, the *hold*.  Other processes (`sync`, `sync-loop`, `peers`) work on
the same hold.  Line numbers below are of `src/src/*.rs`.

| component | state | operations | interacts through |
|---|---|---|---|
| relay fabric (`fabric.rs`) | `reg` (handle -> token, expiry) and `queues` (handle -> FIFO), each behind its own mutex; `last_sweep_sec`; the `.fenv` files | `run_freg`, `run_fput`, `run_fpop`, `open` | hold files, clock, limiter |
| rate window (`spore_peer.rs` 112-142) | address -> (second, hits) | `allow` | one instance for PutObject, one for fput and fpop |
| body store (164-240, 297-316, 336-370) | `<cid>.body` and `.incoming-<cid>.part` files | `store_body`, `serve_body`, `enforce_write_policy`, `chain_view` | hold files |
| sync and push clients (726-908), sync loop (1006-1058) | none in memory; writes bodies to the hold | `sync_stream`, `push_stream`, `sync_pass`, `sync_loop` | rpc2 calls to a peer, hold files |
| peers list (911-999) | `peers.txt` | `peers_add`, `peers_remove`, `peers_list` | the file |
| serve loop, pidfile (1480-1666) | `SHUTDOWN` flag, `in_flight`, the pidfile and its temporary | write pidfile, install handler, bind, poll, accept, drain, exit | signals, threads, the file |
| rpc2 framing and CBOR (`p2p.rs`) | none | encode, decode, frame length | sockets |
| dispatch (372-550) | none | per-frame dispatch to rpc2, fabric verbs, cid fetch | sockets, all of the above |
| fetch client (552-628), fabric client (630-720) | none | one request, classify the answer | sockets |
| command line (1060-1469) | none | arguments, exit codes | starts all of the above |
| derivations (`fabric.rs` 60-129) | none | HKDF/HMAC | |

What is hard in it, and what makes each component correct:

* **Relay.**  The handlers interleave at the two mutexes; `run_fput` writes the
  file *before* it takes the queue lock; `run_fpop` checks the token under one
  lock and drains under another; clocks are read before locks are waited for;
  the node can die anywhere and rebuilds the queues from the files.  Correct
  means: index and files stay related, the queue is a bounded FIFO without
  duplicates, live envelopes are lost only as documented, nothing is
  delivered more often than it was put, the registry stays in its budget
  and a live registration belongs to its holder.
* **Body store.**  Concurrent pushes of one body share one temporary name, the
  sync client writes final names directly, the quota is checked before the write.
  Correct means: a visible body is whole, or is being completed; the
  store stays near its quota; what was acknowledged is served.
* **Serve loop.**  A signal, the accept loop and the handlers race; the signal
  may come before the handler is installed; the drain is bounded, and what it waits
  for never changes; the pidfile belongs to whoever ran last.  Correct means:
  told to stop, it exits; a request in progress gets its window; a supervisor
  may believe the pidfile.
* **Wire.**  Three families of requests share a port and are told apart by what
  decodes; encoders and decoders are written by hand; answers of an old
  protocol may begin with any byte.  Correct means: the handler that runs is the
  one that was meant, it sees the request that was made, and the caller reads
  what was answered.
* **Peers list.**  An edit reads, truncates and writes a file without a lock,
  while others edit it and sync loops read it.
* **Sync.**  Peers fail, lie, answer partially, hold corrupt files; both holds
  change under a pass; passes repeat and are capped.  Correct means: only intact
  bodies travel, an honest peer counted as synced shares the union, and what an
  honest peer has arrives whatever the other peers do.

`PROJECT.json` lists each of these hazards at its line with the properties
that cover it.

## 2. Modules

| module | models | kind |
|---|---|---|
| `RateWindow` | `RateLimiter` | operators |
| `Vec` | `retain`, `find`, `remove(0)` on sequences | operators |
| `FabricRelay` | the relay: registry, queues, `.fenv` and `.tmp` files, handler threads, crash, `open` | specification |
| `Mailbox` | what the relay promises about copies | abstract specification |
| `BodyStore` | the hold's bodies: quota walk, `store_body`, the file writes of a sync, `serve_body`, failures, crash | specification |
| `SyncLoop` | sync loops over several holds: `sync_pass`, `sync_stream`, `push_stream`, the answers of the peers | specification |
| `Gossip` | what synchronisation may do to a set of holds | abstract specification |
| `Cbor` | the encoders and the decoder of `p2p.rs` | operators |
| `Wire` | requests, dispatch and answers of a frame, what clients make of the answer | operators |
| `CommandLine` | the argument loops of `main` | operators |
| `Host` | the processes of a host: serve loop and pidfile, handlers, clients, peers list, signals | specification |
| `MCFabricRelay`, `MCBodyStore`, `MCSyncLoop`, `MCHost` | instances for TLC | |
| `VecProofs` | lemmas about `Vec` | proofs |
| `FabricRelayProofs`, `FabricQueueProofs` | theorems about `FabricRelay`: types, files and registry; its queues and its refinement of `Mailbox` | proofs |
| `BodyStoreProofs`, `SyncLoopProofs` | theorems about the specification of that name | proofs |
| `HostProofs` | theorems about `Host`: serves and the pidfile, edits of peers.txt and sync passes | proofs |
| `CborProofs` | what the decoder of `Cbor` does with any bytes, and with what the encoders wrote | proofs |
| `FrameProofs` | theorems about `Wire` and `Host`: the frames that serves answer | proofs |

`FabricRelay` uses `RateWindow` and `Vec`; `SyncLoop` uses `Vec`.  `BodyStore` looks at
one hold, write call by write call; `SyncLoop` at many holds, a body at a time.
`Host` uses `Vec`, `CommandLine` and `Wire`, which uses `Cbor`.  It looks at whole
processes and at the bytes between them; a frame is handled in one step, since what
handlers do to each other in the relay and in the store is the subject of the
other specifications.

### FabricRelay

A handler thread is a sequential program.  `pc[t]` names the next *region*, a
stretch of code that ends where the thread takes or gives up a lock or touches
a file:

    freg  register ->                                        (400-434)
    fput  lookup -> limit -> persist -> write -> rename -> enqueue ->   (476-575, 302-308)
    fpop  limit -> auth -> drain -> reply ->                 (614-639, 342-352)

One action per region: `Freg`, `FputLookup`, `Limit` (which fput and fpop
share), `FputPersist`, `FputWrite` and `FputRename`, the three calls of
`persist_envelope`, with `FputRefuse` and `FputPersistFails`, `FputEnqueue`, `FpopAuth`, `FpopDrain`, `FpopReply`.
`Receive` dispatches a request, `Tick` advances the clock, `Crash` ends the
process (the files stay, less those the handler inside the queue lock has
removed so far), `Open` starts it.

*Temporary files.*  `fs::write` opens the `.tmp` with truncation and then writes
it, and another fput of the same envelope may do the same or rename it in
between.  `tmps` are the `.tmp` files, `torn` the files of either kind that are not
whole, `fd[t]` the name that the file an fput has open goes by now, if it has one.
A `.tmp` that no fput is at any more stays on disk in the code; nothing reads
it, and whoever opens it next empties it, so the model forgets it.

*Clock reads.*  `now_sec()` is called outside the locks and used inside them.
`seen[t]` is the clock at the handler's last step, kept where the next region uses
a read of its own; a region that uses a read
made before its lock takes any second from `seen[t]` to `clock`.

*Data.*  A handle, a token, a pointer's content are model values; a pointer keeps
its deadline, which the code reads out of its bytes.  An envelope's file is named by the
hash of its bytes, `received_at` included, so file and content are one value:
the record `[handle, pointer, received]`, and `files` a set of them.  That two
fputs in one second write *the same* file follows from that.
Malformed requests (400 before any state is touched) are not generated.
The queue surgery is written with `Keep`, `First` and `DropFirst` instead of
recursion, stage by stage as in the code: `Merged` (dedupe or push and evict),
then the retain; each stage has a companion that lists the files it removes,
in order, because a crash may fall between two removals.

`Mailbox` is the abstract specification: a client puts an item (`asked`), each put
leaves one copy at most (`Deposit` uses the put up), and every pointer handed out uses up a
copy; puts and copies may be lost at any time, never made.  The refinement mapping
is `Asked`, the fputs whose file has not got its name, and `Pending`, the queue entries
plus envelopes on their way to the queue while the node serves, the files while it
is down.  A copy that came back by a crash or a rebuild has no put to come from.

### BodyStore

A file is the set of its chunks, because `fs::write` opens with truncation and
then writes in several calls, which other threads and processes observe.  `hold`
and `incoming` map the names `<cid>.body` and `.incoming-<cid>.part` to
contents.  A rename or a removal changes what a name means and leaves the
open files alone; `at[w]` follows the name that writer `w`'s open file has now.

    push  (walk ->) stat -> open -> write ... -> rename (-> unlink)   (200-205, 226-238)
    sync  fetch -> write ...                                          (771-800)

`Push`, `Visit`, `Admit` are `enforce_write_policy` with the walk of
`store_bytes`, entry by entry; `Stat`, `OpenPart`, `Write`, `Close`, `Rename`,
`Unlink` are the system calls of `store_body`; `SyncMissing`, `SyncGivesUp`,
`SyncOpen` with `Write` and `Close` those of a sync.  With `Faults`, writes
and renames fail (`WriteFails`, `Rename`) and the node dies (`NodeDies`); files
stay as they are.  `contended` is a history variable.  The file system is modelled from POSIX
semantics: rename is atomic, an open file survives its name.

### SyncLoop

A hold is the sequence of its bodies, oldest first, which is what `chain_view`
makes of modification times; `corrupt` are those whose file does not hash
to its name.  `pc[n]` is where the loop of node `n` is:

    sleep -> connect -> chain -> pull <-> get -> peerchain -> offer -> push -> connect (next peer)

A request and its answer are one step.  This loses nothing: the answer is
computed from the peer's hold at one moment, bodies are never removed, and what
the client does next only reads its own hold.  Between the test for a missing body
(`Ask`) and its write (`Fetch`) another node may push it; so it may between the
peer's list (`PushChain`) and the look at the own one (`Offer`).  `Dead` nodes fail to connect,
`Locked` ones ask for a token, `Full` ones may refuse a push, for space or for the rate.
`Liars` answer as they please: a chain that is theirs, or one of `Claims`
(`ChainAnswers`), or one that is no list (`Malformed`); the body, other bytes (`Tampered`)
or none (`NotServed`); a push stored, refused, acknowledged without being stored
(`PushBody`), or acknowledged under another hash (`PushRejected`).  `start` is a history variable, `MaxBreaks` bounds broken
connections.  `entries` of a push are the bodies it will attempt, so the
attempt counter is the position in it.

`Gossip` is the abstract specification: one intact body is carried from a hold that
has it to one that has nothing of that name.  The refinement mapping forgets
order and everything about the loops.

### Cbor, Wire, CommandLine

A frame is a sequence of bytes, and both sides of the codec are written out: a
request is encoded by the client's operators, decoded and dispatched by the
server's, its answer encoded and decoded again.  `Items` is `decode_value` with
its loops: a recursive function of a *task*, so many items from a position on at a level of
nesting, whose step is `Reading`; what decodes is a set with
one element or none.  `Handlings` is one round of `handle_client`: the set of
ways a frame may be answered, because the rate window, the quota and the relay are left open
(the relay refuses with two texts that stand for all).  `Result` is what each client makes of
the answer.  `Parse` turns a command line into a record of what to do with which options;
a word sets what the loop of its subcommand sets, the last one wins.

Abstracted: numbers of 2^28 and more, longer than any frame, are the one number `Huge`; text that is not ASCII
counts as invalid UTF-8; names of methods and fields are shorter than in the
program, and equal where those are; an address is two bytes, computed from the body.
JSON is serde_json's: a text begins with `{"` and parses back, which is all
that the dispatch depends on.

### Host

Every process runs one command line; `pc[p]` is where it is:

    serve      start -> (pidopen -> pidwrite -> pidrename ->) install -> bind
               -> poll <-> accept, poll -> drain -> leave -> exited     (1146-1173, 1480-1666)
    clients    start -> connect -> call <-> wait -> connect (next address) -> exited
    peers      start -> peersopen -> peerswrite -> exited               (964-999)

`PidOpen`, `PidWrite`, `PidRename` are the system calls of `write_pidfile`; `tmp`
and `pidfile` are names, `fd` and `text` the files behind them, so a rename under
an open file does what it does.  `Poll`, `Accept` and `Drain` are the three tests of
`serve`; `Handle` is a handler thread; `Terminate` is SIGTERM or SIGINT, which ends
a process that has no handler yet; `Kill` is SIGKILL, at any step.  `code[p]` is the exit code, or
128 and the number of the signal, SIGTERM standing for SIGINT too.  `Released` is what the kernel
does when a process ends.  `Connect`, `Call`, `Receive`, `Lost`, `CallsMade`, `ClientEnds`
are the clients, from a single fetch to the passes of a sync loop: `todo` holds
the calls still to be made, `targets` the addresses.  `PeersRead`, `PeersOpen`, `PeersWrite`
are an edit of peers.txt.  `OldServer` is a server of the legacy protocol.

`crossed` and `torn` are history variables: serves that used the pidfile at the same time,
and directories where edits overlapped or one died after the truncation.  `ledger` is what the edits asked for,
`want` and `synced` what a pass should do and has done.

## 3. Runs

All runs of the relay stop when the clock reaches `MaxTime`, hence
`CHECK_DEADLOCK FALSE`.  Handler threads are interchangeable, and where no files are
left over handles, tokens and contents are too (`SYMMETRY`).

| run | expects | what it asks |
|---|---|---|
| `relay_crash` | pass | crashes between any two steps, two handlers, temporary files in all their states, leftovers of a run with a longer horizon: `NoStrayFiles`, `NoImmortal`, and the refinement of `Mailbox` |
| `relay_queue` | pass | two handlers, two handles that compete for one place with leases that lapse, queues of cap 2, entries that expire, a rate of two: `TypeOK`, `RegistryBounded`, `OnlyHolderRenews`, `OnePerPointer`, `NewWithinCap`, `NoOvertaking`, `NoLiveLoss`, `DrainFills` |
| `relay_durable` | violation | `DurableQueue` |
| `relay_restart_dedupe` | violation | `OnePerPointer` across a crash |
| `relay_redeposit` | violation | `OnePerCid` when one content is put with two deadlines |
| `store_heals` | pass | three pushes and a sync of one body, nothing fails: `TypeOK`, `PartialHasWriter`, `VisibleBecomesWhole` (liveness) |
| `store_faults` | pass | two pushers, three bodies under a quota that fits one or two, failures and crashes: `HalfWrittenOnlyByRace`, `QuotaOvershoot` |
| `store_half` | violation | `NeverHalfWritten` with two pushes and nothing else |
| `sync_passes` | pass | two loops, five holds (one dead, one lying, one full and locked), corrupt files, a broken connection: `TypeOK`, refinement of `Gossip`, `SyncedMeansUnion`, and `Pulled` and `Pushed` (liveness) |
| `sync_tail` | violation | `Pulled` when the peer has one body more than a pull looks at |
| `host` | pass | three processes, eight assignments of command lines, stopped and killed anywhere: `TypeOK`, `AnswersAgree`, `LegacyAgrees`, `FrameTight`, `PidfileTells`, `EditsStick`, `OnceHonest`, `DrainHonoured`, and `ShutdownEnds` and `CallsEnd` (liveness) |
| `host_sigterm` | violation | `OnlyKillLeaves` while a serve starts |

Bounds.  Two handlers are enough for each race the code has: the regions
of one handler touch what one other handler does between two of them.  Clocks of
1-3 seconds give every comparison both outcomes and equality (deadline and
lease against now, against now + horizon).  Caps of 1 and 2, with one more
pointer than fits, exercise eviction.  Bodies of two chunks have a
beginning, an end and a gap; a third pusher lets two that share a file be
overtaken.  Three bodies with a push cap of two need a second pass; with a fetch cap
of two they have one that a pull never looks at (in the code: 2000 of 5000).

`relay_crash` and `relay_queue` have 2.2 and 3.7 million states.  In `relay_queue` every lease asked for is
longer than the cap of one second, so a registration is gone at the next tick; the rate of two hits a
second leaves room to fill a queue of two in one second, push out its oldest in the next, and drain.  `sync_passes`
(160,000 states) starts from four holds: all bodies at one looper, or at the other, which is more than a push
offers; some at each node, with a corrupt file at a looper that serves the other; one at each of three.  A claim of
the liar is empty, or lists a body that it may lack before one that the looper may lack.

The eight assignments of `host`
are the ones in which processes meet: two serves with one pidfile and one address;
a relay with clients of both protocols, one of them another implementation that numbers its
calls by 300 and 70000 and sends a body too large; tokens right, wrong and missing; two
edits with a pass, a removal and a list; old servers.  Bodies of 1 to 24
bytes, one beginning with each status byte, need heads of one and two bytes.  Three
processes are enough for a serve, its client, and one who gets in their way; two slices of
drain window are before and after its end.  That makes 120,000 states.

Fairness.  `BodyStore!FairSpec` assumes that an `fs::write` under way goes on: its thread
is scheduled and a write call returns.  `SyncLoop!FairSpec` assumes the same
of each loop: the process runs, it sleeps for `interval` seconds, and a peer that accepted a
connection answers or the connection breaks.  The code sets no read timeout,
so the last part is the network's to provide: a peer whose host vanishes silently blocks
the loop.  Nothing is assumed of pushes arriving, of liars, or of broken
connections beyond their number.  `Host!FairSpec` assumes only that the
main thread of a serve is scheduled, and nothing of clients, handlers or signals: `ShutdownEnds` holds though a
client connects and never sends, or never reads, and though a handler hangs.  `CallsEnd` is a promise to processes
that go on, and says so: `NobodyHangs`, that clients and handlers with a step to take are scheduled and an old
server answers or hangs up, is its hypothesis.  `WF` of the client and handler steps is written out with what
enables them, because TLC would otherwise decode frames to find out.

What the violations show:

* `relay_durable`: two fputs of one pointer in one second share a file.  The
  first is queued and drained between the second's persist (535) and enqueue
  (536): the second queues an entry whose file is gone.  A restart forgets it.
* `relay_restart_dedupe`: a crash between the persist of a re-published pointer
  and the removal of the superseded file (548).  `open` does not dedupe.
* `relay_redeposit`: dedupe compares the whole pointer with its deadline (538), so the same
  cid put again with another deadline is queued twice, where 441-442 says "dedupe is on
  (handle, pointer CID): re-publishing refreshes the deadline, never duplicates".
* `store_half`: the second of two pushes of one body truncates the `.part` file
  that the first is about to rename (233-235).  A reader then gets 500 for a
  body that is, as `store_heals` shows, whole again once the second has written on, unless
  that one dies: then it stays half written for good, and later pushes find
  the name taken.
* `sync_tail`: the cap compares a position, not a count (776).
* `host_sigterm`: the pidfile is written (1155) before the handler is installed (1568).  SIGTERM
  in between ends the process by the signal and the file stays, where 43-45 says "only SIGKILL leaves
  the pidfile behind" and 1501 "SIGTERM => exit 0, pidfile REMOVED".

Other places where a comment says more than the code does; the model follows the code, and no property
claims what the comment does:

* Two fputs of one pointer in one second write one `.tmp`.  The second empties it before the
  first renames it (`fabric.rs` 305-307); a crash then leaves a part under the `.fenv` name, which 306
  excludes, and `open` removes it with its envelope.  The rename of the second fails, and that fput answers 500 for a
  pointer that is queued.
* `json_to_cbor` writes true as simple value 20 and false as 19 (`fabric.rs` 723-725), where CBOR and `decode_value`
  have 21 and 20, against 699-701.  The answer `{"queued": true}` of an rpc2 fput is read as `{"queued": false}`:
  this one answer is what `Misread` in `AnswersAgree` lets pass.
* Two serves with one `--pidfile` share its temporary file (1486), and the rename of one exposes what the other has
  just emptied; 1476 says that "a watcher never reads a partial pid".
* A serve that cannot bind removes the pidfile (1160-1171), also when it is, by name, that of the serve which
  has the address; that one serves on without.
* `in_flight` is never decremented, against the comment at 1642-1649.  Once a connection was accepted, a drain takes
  its whole window, though every handler has finished (1658-1663).

Seen while modelling, and stated as the code has it: a push of a body that is
already there is refused with 507 when the store is full (the quota comes
before the test).  The clean-up of a failed rename removes whatever has the `.part`
name by then.  A sync writes over a body that was pushed and acknowledged since it
looked, so that body is unreadable for the time of the write.  `sync_pass` counts a peer
as synced although it refused every push with 429 or 507, and so it counts one that lied about its chain
or about what it stored (1021-1024): `SyncedMeansUnion` is about the others.  In the relay, eviction comes before the
retain, so a live entry can be evicted while expired ones are about to go
(`NoLiveLoss` allows it).  The rate window is one second, where
`spore_peer.rs` 100 and 1595 say per minute.  A rebuild sorts by the stamp of the
last refresh, so the order of a queue may change across a restart.  The budget of the registry
compares `reg.len()` (420), which counts lapsed entries that no sweep has removed
yet, so that a freg can be answered 503 with no live registration at all, where
`fabric.rs` 191 says "max LIVE freg registrations".

Of the processes: `PidfileTells` is about serves that did not use the file at the same time (`crossed`
has the others), and allows that a signal ended whom it names.
The number of connections ever accepted is what the shutdown
message calls "connection(s)" to drain (1616).  Two edits of peers.txt lose an update, and a pass
that reads between the truncation and the write of one finds no peer and
exits 0 under `--once`; `torn` and `EditedBy` except these.  `hex_decode` (246-254)
accepts a sign before a digit, unlike `hex::decode`.  A word that takes a value takes
the next option for it.

## 4. Proofs

`VecProofs` shows what `Keep`, `First` and `DropFirst` return: `Keep` is
a sequence of exactly the kept elements, in their order, by
way of `Rank` being a bijection from the kept indices to an initial segment; it has no
duplicates if there were none.

`FabricRelayProofs` proves, for every value of the constants under
`RelayAssumption` and `HandlesAssumption`:

| theorem | statement | argument |
|---|---|---|
| `TypeCorrect` | `Spec => []TypeOK` | inductive as it stands; `TypeOK` ties every `pc` to the verb served and to the envelope in flight |
| `NoStray` | `Spec => []NoStrayFiles` | inductive relative to `TypeOK`; `PutQueue` and `DrainQueue` say that a region keeps or removes every file it could lose sight of |
| `Mortal` | `Spec => []NoImmortal` | strengthened by `FlightWithinHorizon`: the envelope between persist and enqueue passed the check at a clock that has only grown |
| `RegistryStaysBounded` | `Spec => []RegistryBounded` | relative to `TypeOK`; a granted live renewal adds no entry, any other found room after the sweep |
| `HolderRenews` | `Spec => OnlyHolderRenews` | a freg's stale `now` is never ahead, so what is live at `clock` was live at `now` and survives the sweep |

`FabricQueueProofs` proves, under the same assumptions, what happens to the queues.  Its lemmas
`EnqueueEffect`, `DrainEffect` and `OpenEffect` say what an fput, an fpop and a start
make of a queue, entry by entry, and `QueueSteps` that nothing else touches one.  All rest on
`QueueInv`: each entry has the pointer and the deadline of its envelope, since the
retain tests the entry and the rebuild the envelope; a node that is down has empty queues and
idle handlers.

| theorem | statement | argument |
|---|---|---|
| `NewcomersFit` | `Spec => NewWithinCap` | a pointer enters by a push, which evicts down to the cap first; a refresh of an overlong queue adds none |
| `LiveKept` | `Spec => NoLiveLoss` | an entry goes by rank: the first `Overflow` by eviction, the first `max` live ones into the answer, all others because they expired |
| `DrainsFill` | `Spec => DrainFills` | the loop stops early only with the answer full (`TakenType`) |
| `OneEach` | `FreshRun => (Spec => []OnePerPointer)` | `PutUnique`: a refresh keeps an entry's pointer, and a push comes only where there is none; with `FoundFiles`, the start indexes the files it found |
| `InOrder` | `FreshRun => (Spec => NoOvertaking)` | places after a region are ranks of places before it; with `OneEach`, places and pointers are the same thing |

`FreshRun` says that there are no crashes and that the files of earlier runs do not hold a
pointer twice at one handle.  Without it both statements are false: a crash between persist and
removal leaves two files of one pointer, as the run `relay_restart_dedupe` shows, and after that
a pointer may be seen to stay behind one that it stood before.  The other three have no such hypothesis.

It also proves the refinement of `Mailbox`, crashes included:

| theorem | statement | argument |
|---|---|---|
| `RelayIsMailbox` | `Spec => AtMostOncePerDeposit` | a copy comes into being where an fput's `.tmp` gets its name, and the mapping takes that fput out of `Asked` in the same step, so each put makes one copy.  The mapping counts the copies of a pointer: entries and fputs on their way while the node is up, files while it is down.  Each region is a counting lemma (`PutCount`, `DrainCount`, `RebuiltCount`); a crash loses copies because every file backs an entry or an fput (`NoStray`); `MailInv` says that the fputs on their way are finitely many and that only a drained fpop has an answer |

`BodyStoreProofs` proves, under `StoreAssumption` and `FiniteAssumption` (threads and addresses are
finitely many, and there is a thread):

| theorem | statement | argument |
|---|---|---|
| `TypeCorrect` | `Spec => []TypeOK` | inductive; that a file has a length (`LastChunk`) is by well-foundedness of `<` |
| `LonePushIsWhole` | `Spec => []HalfWrittenOnlyByRace` | strengthened by `Lone(b)` for every body that is not contended: at most one handler stores it, its `.part` file holds the chunks written so far (or was removed under it and nothing has the name), and what is about to be renamed is whole |
| `PartialIsInWriting` | `~ Faults => (Spec => []PartialHasWriter)` | strengthened by the same statement for `.part` files, since a rename turns one into the other at any time |
| `OvershootBounded` | `Spec => []QuotaOvershoot` | `QuotaInv`: of the handlers admitted so far, the one whose walk of the hold began last (`k`) has counted everything but, for each other handler, the one body that this handler was storing since (`base`); what it has counted and what it adds fit (`Room`).  The same is kept for each walk under way (`claims`), and the walks under way are ordered by when they began (`After`).  What is stored is a set of chunks, so the bound is a count: the others' chunks map one to one into `(Handlers \ {k}) \X (1..Largest)` (`OthersBound`) |

`SyncLoopProofs` proves, under `SyncAssumption`:

| theorem | statement | argument |
|---|---|---|
| `TypeCorrect` | `Spec => []TypeOK` | inductive; `StoredHeld` and `AppendHeld` show that no hold gets two files of one name |
| `LoopsOnlyCarry` | `Spec => OnlyCarries` | the refinement of `Gossip`, strengthened by `OfferedHeld`: what a push has still to offer is in the looper's hold, which only grows, so what it sends without finding it corrupt is intact |
| `SyncedIsUnion` | `Uncapped => (Spec => SyncedMeansUnion)` | for every peer but the full and the lying ones, whatever these do to the two holds meanwhile; strengthened by `UnionAt`: while a looper pulls, what it lacks is ahead in its list; when it has pulled it lacks nothing; while it pushes, what the peer lacks is ahead.  Writes by others only add to both holds |

`Uncapped` says that `Bodies` is finite and no larger than `ChainCap` and
`FetchCap`: beyond them the statement is false, as the run `sync_tail` shows for
the pull.  `PushCap` needs no such hypothesis, since `SyncedMeansUnion` itself
excepts a push that was cut.

`HostProofs` proves, under `HostAssumption` and with the bytes of frames left abstract:

| theorem | statement | argument |
|---|---|---|
| `TypeCorrect` | `Spec => []TypeOK` | inductive, one lemma per group of actions; who listens is in its main loop, and a serve with handler threads has counted a connection |
| `DrainCorrect` | `Spec => DrainHonoured` | from `TypeOK`: only `Drain` leaves the drain, with the window over or nothing ever accepted, and then there are no handler threads |
| `PidfileCorrect` | `Spec => []PidfileTells` | strengthened by `PidInv`: of the serves outside `crossed` at most one is between its start and its end (`Alone`), and while it is, the names and the files behind them are its own as its label says (`AllMine`); nobody else's file is written under it (`FreshInode`, `TwoNames`); a name that is left has an owner who runs or was ended by a signal |
| `FetchCorrect` | `Spec => []LegacyAgrees` | strengthened by `FetchInv`: all that a fetch ever asks is for the cid of its command line.  What its parser makes of a frame is then case analysis, for every frame and any `Address` |

It goes on, with `PeersAssumption` (the lists of peers at the start have no
duplicates, as the program itself writes them) and `LinesAssumption` (the `--dir` of a serve, a push and a sync
loop is one of the directories of the model):

| theorem | statement | argument |
|---|---|---|
| `EditsCorrect` | `Spec => []EditsStick` | `PeersInv`: in a directory that is not `torn`, at most one edit is between its read and its write, what it has read is what the file says, and what it will write is what the ledger says |
| `OnceCorrect` | `Spec => []OnceHonest` | `PassInv`: what a pass wants and has not synced is the address at hand, one still in its targets, or it has noted a failure; with `PeersInv`, what it read is what the edits asked for |

`CborProofs` opens the bytes, under `CborAssumption` (the decoder follows at least two levels,
in the code 64).  The decoder recurses over tasks, and what it does is shown by induction over
their size: `Induction` says of a *set* of numbers that contains 0 and successors that it is `Nat`
(by its complement having no least element), and the set is that of the sizes up to which
the statement holds.  So `read` is well defined (`Reading` asks only for smaller tasks),
and:

| theorem | statement | argument |
|---|---|---|
| `DecoderMeasures` | for all bytes, counts, positions and levels: at most one reading, which ends inside the buffer; another buffer that agrees up to there reads the same; one cut short before reads as nothing | induction over tasks; the head and the payload of an item look only at bytes before its end, and a shorter buffer fails a test of `HeadFits` or `Leaf`, or a child's |

The other half is that the encoders write what the decoder reads.  `Spells(b, values, k)` says that the bytes
`b`, wherever they stand in a buffer shorter than `Huge` and at any level that leaves room for `k` more, are read as `values`; lemmas give it
for each encoder (`Lead` against `HeadAt` at 24, 256, 65536 and `Huge`), for concatenation, arrays and maps,
and for `json_to_cbor` of every value that the relay answers.

`FrameProofs` uses both for the frames of `Host`, under `WireAssumption` (a frame is shorter than
`Huge`: 192 MiB and 2^28) and `HoldsAssumption` (the files at the start have names in hexadecimal and contain
bytes, and the other implementation asks for bodies in hexadecimal):

| theorem | statement | argument |
|---|---|---|
| `FramedTight` | `Framed(reply) /\ LegalFrame(reply) => Tight(reply)` | a header, and nothing or one item: by `DecoderMeasures` a prefix decodes only where an item ends, and behind a whole message the tail is not looked at, or begins with a byte that is no item |
| `HandlingsFramed` | each answer in `Handlings(frame, hold, cfg)` keeps the hold one of files, and is `Framed` if it is one of rpc2 | a case for each branch of `handle_client` and `handle_rpc2`, for every frame: what was decoded is `Readable`, so that a token echoed by the relay can be encoded again |
| `FrameCorrect` | `Spec => []FrameTight` | `FrameInv`: holds are sequences of files (`Filed`), what clients will ask for is well asked (`Calling`), only a sync loop is in its push phase (`Pushing`), and an answer on a line is `Framed` (`Lined`); relative to `TypeOK` and `PidInv` |

`FrameTight` speaks of frames that `read_frame` accepts; longer ones are never decoded.
`FrameInv` itself is not checked by TLC, because `Framed` and `AskedWell` say that
there is some item, some set of calls, without bound; `FrameTight`, which it implies, is.

Only model-checked, and why:

* `AnswersAgree`.  That the handler sees the request that was made, and the caller what was answered, is
  true of the instance and not for every value of the constants: a handshake answers the number of
  bodies, which from `Huge` on is not read back exactly, and a body near `MaxFrame` that fits one answer does not fit
  another with a longer sequence number, so that the client finds a frame broken that the
  handler meant as an answer.  The lemmas on `Spells` are its first half.
* `Pulled`, `Pushed`, `VisibleBecomesWhole`, `ShutdownEnds`, `CallsEnd` are liveness under fairness.
* What `Sorted` returns beyond the elements it contains; no theorem needs it.

## 5. Plan

1. Every invariant a run checks is stated by a theorem but `AnswersAgree`.  A theorem in its place
   would bound the holds and the sequence numbers, and follow the value of every request, not only
   its form, through encoder and decoder.
2. Hazards without a property: two serves that share a pidfile, the token that `fpop` checks before it takes the
   queue's lock, the order of a rebuild after a refresh, sockets without a read timeout.
   `PROJECT.json` says of each why.

## 6. Not modelled

* The derivations of handles and tokens (`fabric.rs` 60-129): cryptography without
  state; the test vectors check it.
* Fuzz targets, benches, deployment files: no program state.  `FrameTight` takes its
  hostile tail from the fuzz target.
* Failing reads and writes of files other than the pidfile in `Host` (the store's are in `BodyStore`,
  the relay's in `FabricRelay`), the file of `fetch --out`, what is printed.
* Connections that break without a process ending, and the caps of a pass: `SyncLoop` has them.
* Comment lines in peers.txt and the shape test of an address, which is the constant `Valid`.
