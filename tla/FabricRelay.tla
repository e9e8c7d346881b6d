---------------------------- MODULE FabricRelay -----------------------------
(***************************************************************************)
(* The relay fabric of src/fabric.rs: recipients register a handle (freg), *)
(* depositors queue pointer envelopes at it (fput), the holder of the      *)
(* handle's token drains them (fpop).  Envelopes persist as .fenv files    *)
(* and the queue index is rebuilt from them when the node starts (open).   *)
(*                                                                         *)
(* Every connection has a handler thread.  A handler is one sequential     *)
(* program whose steps are the regions between its lock operations: `pc`   *)
(* says which region comes next, `req` is the request it serves, `seen`    *)
(* the latest value of the clock it can have read.  A handler reads the    *)
(* clock outside the locks, so a region may use any second from `seen` to  *)
(* `clock`.  The node may die between any two steps, and in the middle of  *)
(* the file removals of a region.                                          *)
(***************************************************************************)
EXTENDS Vec, RateWindow

CONSTANTS
    Handlers,       \* connection handler threads
    Handles,        \* mailbox addresses (32 bytes, lowercase hex)
    Tokens,         \* possession tokens of well-formed length
    NoToken,        \* an absent prev_token or token field (read as "")
    Cids,           \* the part of a pointer before its deadline
    Deadlines,      \* burn deadlines carried by pointers
    Ips,            \* client addresses
    Leases,         \* requested leases, in seconds
    PopMaxes,       \* requested drain sizes, after min(64)
    MaxPerHandle,   \* FabricConfig.max_per_handle
    MaxLease,       \* FabricConfig.max_lease_sec
    MaxRegs,        \* FabricConfig.max_regs
    Horizon,        \* FabricConfig.max_deadline_horizon_sec
    PutRate,        \* FabricConfig.fput_rate; 0 is unlimited
    Legacy,         \* .fenv files an earlier run of the node may have left
    CanCrash,       \* whether the node may die
    MaxTime         \* bound: the clock stops here

Pointer == [cid : Cids, deadline : Deadlines]
\* A 115-byte envelope; its content address names its file, so the file and
\* its content are one value here.
Envelope == [handle : Handles, pointer : Pointer, received : Nat]
Registration == [token : Tokens, expires : Nat]
\* The struct's received_at is read only by the sort in open, where it is
\* that of the envelope.
Queued == [pointer : Pointer, env : Envelope, deadline : Nat]

ASSUME RelayAssumption ==
    /\ Deadlines \subseteq Nat
    /\ Leases \subseteq Nat
    /\ PopMaxes \subseteq Nat
    /\ {MaxPerHandle, MaxLease, MaxRegs, Horizon, PutRate} \subseteq Nat
    /\ MaxTime \in Nat \ {0}
    /\ CanCrash \in BOOLEAN
    /\ Legacy \subseteq Envelope /\ IsFiniteSet(Legacy)
    /\ NoToken \notin Tokens
ASSUME HandlesAssumption == IsFiniteSet(Handles)

FregRequest ==
    [verb : {"freg"}, handle : Handles, token : Tokens,
     prev : Tokens \cup {NoToken}, lease : Leases]
FputRequest ==
    [verb : {"fput"}, handle : Handles, pointer : Pointer, ip : Ips]
FpopRequest ==
    [verb : {"fpop"}, handle : Handles, token : Tokens \cup {NoToken},
     max : PopMaxes, ip : Ips]
Request == FregRequest \cup FputRequest \cup FpopRequest
NoRequest == [verb |-> "none"]

VARIABLES
    clock,      \* now_sec()
    reg,        \* FabricState.reg: handle -> Registration
    lastSweep,  \* FabricState.last_sweep_sec
    queues,     \* FabricState.queues; a missing entry is an empty queue
    files,      \* the .fenv files of the hold directory
    tmps,       \* the .tmp files of envelopes that some fput is at
    torn,       \* those of both kinds, by name, that are not whole
    wins,       \* FabricState.fput_limiter.wins
    up,         \* the node serves
    pc, req, seen,
    fresh,      \* an fput handler's new envelope, from its stamp to its enqueue
    fd,         \* the name that the file an fput handler has open has by now
    out         \* an fpop handler's answer, until it is written to the socket

store == <<reg, lastSweep, queues, files, wins>>
disk == <<tmps, torn, fd>>
vars == <<clock, store, disk, up, pc, req, seen, fresh, out>>

NoEnvelope == [handle |-> "none"]
NoRegistrations == [h \in {} |-> [token |-> NoToken, expires |-> 0]]
NoWindows == [i \in {} |-> [sec |-> 0, hits |-> 0]]

Init ==
    /\ clock = 1      \* later than the never of last_sweep_sec
    /\ reg = NoRegistrations /\ lastSweep = 0 /\ wins = NoWindows
    /\ queues = [h \in Handles |-> <<>>]
    /\ files = Legacy /\ tmps = {} /\ torn = {}
    /\ up = FALSE
    /\ pc = [t \in Handlers |-> "idle"]
    /\ req = [t \in Handlers |-> NoRequest]
    /\ seen = [t \in Handlers |-> 0]
    /\ fresh = [t \in Handlers |-> NoEnvelope]
    /\ fd = [t \in Handlers |-> "none"]
    /\ out = [t \in Handlers |-> <<>>]

Tick ==
    /\ clock < MaxTime
    /\ clock' = clock + 1
    /\ UNCHANGED <<store, disk, up, pc, req, seen, fresh, out>>

-----------------------------------------------------------------------------
(* The handler program. *)

\* The values a clock read made since the handler's last step can have had.
Read(t) == seen[t]..clock

\* The regions that use a clock read made with no lock held.
ReadsClock == {"register", "limit", "persist", "drain"}
\* The handler goes on to another region; the reads it makes there are later
\* than this step.
Goto(t, label) ==
    /\ pc' = [pc EXCEPT ![t] = label]
    /\ seen' = [seen EXCEPT ![t] = IF label \in ReadsClock THEN clock ELSE 0]
    /\ UNCHANGED req

\* The handler answers and waits for the next connection.
Finish(t) ==
    /\ pc' = [pc EXCEPT ![t] = "idle"]
    /\ req' = [req EXCEPT ![t] = NoRequest]
    /\ seen' = [seen EXCEPT ![t] = 0]

Entry(verb) ==
    CASE verb = "freg" -> "register" [] verb = "fput" -> "lookup" [] verb = "fpop" -> "limit"

\* handle_verb / handle_rpc2_fabric: a well-formed request is dispatched.
Receive(t, r) ==
    /\ up /\ pc[t] = "idle"
    /\ pc' = [pc EXCEPT ![t] = Entry(r.verb)]
    /\ req' = [req EXCEPT ![t] = r]
    /\ seen' = [seen EXCEPT ![t] = IF Entry(r.verb) \in ReadsClock THEN clock ELSE 0]
    /\ UNCHANGED <<clock, store, disk, up, fresh, out>>

Live(h, now) == h \in DOMAIN reg /\ reg[h].expires > now

\* The registry after the time-gated sweep of a freg that read `now`.
Swept(now) ==
    IF now > lastSweep
    THEN [h \in {k \in DOMAIN reg : reg[k].expires > now} |-> reg[h]]
    ELSE reg
SweepTime(now) == IF now > lastSweep THEN now ELSE lastSweep

\* Faults: an off-by-one budget; a refresh that is not chained.
RegisterOverBudget(r, now) ==
    IF Live(r.handle, now) THEN r.prev = reg[r.handle].token
    ELSE Cardinality(DOMAIN Swept(now)) <= MaxRegs
RegisterUnchained(r, now) ==
    Cardinality(DOMAIN Swept(now) \ {r.handle}) < MaxRegs
\* A live registration yields only to its own token; any other needs room.
MayRegister(r, now) ==
    IF Live(r.handle, now) THEN r.prev = reg[r.handle].token
    ELSE Cardinality(DOMAIN Swept(now)) < MaxRegs

Granted(r, now) ==
    [token |-> r.token,
     expires |-> now + (IF r.lease < MaxLease THEN r.lease ELSE MaxLease)]

\* run_freg under the reg lock: the sweep, then the grant or the refusal
\* (403, 503).
Freg(t) ==
    /\ pc[t] = "register"
    /\ \E now \in Read(t) :
          /\ lastSweep' = SweepTime(now)
          /\ \/ /\ MayRegister(req[t], now)
                /\ reg' = [h \in DOMAIN Swept(now) \cup {req[t].handle} |->
                             IF h = req[t].handle THEN Granted(req[t], now) ELSE Swept(now)[h]]
             \/ /\ ~ MayRegister(req[t], now)
                /\ reg' = Swept(now)
    /\ Finish(t)
    /\ UNCHANGED <<clock, queues, files, wins, disk, up, fresh, out>>

\* run_fput: the registration check, under the reg lock (404 when it fails).
FputLookup(t) ==
    /\ pc[t] = "lookup"
    /\ \/ Live(req[t].handle, clock) /\ Goto(t, "limit")
       \/ ~ Live(req[t].handle, clock) /\ Finish(t)
    /\ UNCHANGED <<clock, store, disk, up, fresh, out>>

AfterLimit(verb) == IF verb = "fput" THEN "persist" ELSE "auth"

\* The rate window fput and fpop share (429 when it is full).
Limit(t) ==
    /\ pc[t] = "limit"
    /\ \E now \in Read(t) :
          \/ /\ Admits(wins, PutRate, req[t].ip, now)
             /\ wins' = AfterHit(wins, PutRate, req[t].ip, now)
             /\ Goto(t, AfterLimit(req[t].verb))
          \/ /\ ~ Admits(wins, PutRate, req[t].ip, now)
             /\ Finish(t)
             /\ UNCHANGED wins
    /\ UNCHANGED <<clock, reg, lastSweep, queues, files, disk, up, fresh, out>>

Acceptable(deadline, now) ==
    deadline # 0 /\ deadline > now /\ deadline <= now + Horizon

\* run_fput, no lock held: the deadline checks (400, 410), then the envelope
\* is stamped and persist_envelope writes its file: it opens the .tmp, which
\* empties it, writes it, and renames it.
FputPersist(t) ==
    /\ pc[t] = "persist"
    /\ \E now, received \in Read(t) :
          /\ now <= received
          /\ Acceptable(req[t].pointer.deadline, now)
          /\ LET env == [handle |-> req[t].handle, pointer |-> req[t].pointer,
                         received |-> received]
             IN  /\ fresh' = [fresh EXCEPT ![t] = env]
                 /\ tmps' = tmps \cup {env} /\ torn' = torn \cup {<<"tmp", env>>}
    /\ fd' = [fd EXCEPT ![t] = "tmp"]
    /\ Goto(t, "write")
    /\ UNCHANGED <<clock, store, up, out>>

FputWrite(t) ==
    /\ pc[t] = "write"
    /\ torn' = torn \ {<<fd[t], fresh[t]>>}
    /\ fd' = [fd EXCEPT ![t] = "none"]
    /\ Goto(t, "rename")
    /\ UNCHANGED <<clock, store, tmps, up, fresh, out>>

\* The .tmp becomes the .fenv for whoever has it open; the .fenv it replaces
\* has no name any more.
Moved(e) ==
    IF <<"tmp", e>> \in torn THEN (torn \ {<<"tmp", e>>}) \cup {<<"fenv", e>>}
    ELSE torn \ {<<"fenv", e>>}
FputRename(t) ==
    /\ pc[t] = "rename" /\ fresh[t] \in tmps
    /\ files' = files \cup {fresh[t]} /\ tmps' = tmps \ {fresh[t]} /\ torn' = Moved(fresh[t])
    /\ fd' = [u \in Handlers |->
                IF fresh[u] # fresh[t] THEN fd[u] ELSE IF fd[u] = "tmp" THEN "fenv" ELSE "none"]
    /\ Goto(t, "enqueue")
    /\ UNCHANGED <<clock, reg, lastSweep, queues, wins, up, fresh, out>>

FputRefuse(t) ==
    /\ pc[t] = "persist"
    /\ \E now \in Read(t) : ~ Acceptable(req[t].pointer.deadline, now)
    /\ Finish(t)
    /\ UNCHANGED <<clock, store, disk, up, fresh, out>>

\* Each of the three may fail (500), the rename when another fput of this
\* envelope has taken the .tmp.  What there is of a .tmp stays, but it counts
\* only while some fput is at it: whoever opens it next empties it.
FputPersistFails(t) ==
    /\ \/ /\ pc[t] = "persist"
          /\ \E now \in Read(t) : Acceptable(req[t].pointer.deadline, now)
       \/ pc[t] \in {"write", "rename"}
    /\ fresh' = [fresh EXCEPT ![t] = NoEnvelope]
    /\ fd' = [fd EXCEPT ![t] = "none"]
    /\ tmps' = {e \in tmps : \E u \in Handlers : fresh'[u] = e}
    /\ torn' = {f \in torn : f[1] = "tmp" => f[2] \in tmps'}
    /\ Finish(t)
    /\ UNCHANGED <<clock, store, up, out>>

-----------------------------------------------------------------------------
(* The queue part of run_fput, under the queues lock.  q is the handle's   *)
(* queue, e the persisted envelope, now the second read at the end.  Each  *)
(* stage yields the queue it leaves and the files it removes, in order.    *)

EnvsOf(q) == [i \in DOMAIN q |-> q[i].env]
\* Fault: dedupe by the envelope's address, which covers its timestamp.
SameEnvelope(q, e) == {i \in DOMAIN q : q[i].env = e}
Same(q, e) == {i \in DOMAIN q : q[i].pointer = e.pointer}
NewEntry(e) == [pointer |-> e.pointer, env |-> e, deadline |-> e.pointer.deadline]

\* Faults: a refresh moves the entry to the back; the superseded file stays.
RefreshedAtBack(q, e) == Append(Keep(q, DOMAIN q \ {First(Same(q, e))}), NewEntry(e))
SupersededStays(q, e) == <<>>
\* The dedupe branch: the first entry with the same pointer is refreshed in
\* place and its old file goes, unless it is the very file just written.
Refreshed(q, e) ==
    [q EXCEPT ![First(Same(q, e))] =
        [@ EXCEPT !.deadline = e.pointer.deadline, !.env = e]]
Superseded(q, e) ==
    LET old == q[First(Same(q, e))].env IN IF old # e THEN <<old>> ELSE <<>>

\* Fault: the cap is compared before the push.
OverflowLate(q) == IF Len(q) > MaxPerHandle THEN Len(q) - MaxPerHandle ELSE 0
\* The push branch: append, then evict the oldest down to the cap.
Overflow(q) == IF Len(q) + 1 > MaxPerHandle THEN Len(q) + 1 - MaxPerHandle ELSE 0
Pushed(q, e) == DropFirst(Append(q, NewEntry(e)), Overflow(q))
Evicted(q, e) == EnvsOf(SubSeq(Append(q, NewEntry(e)), 1, Overflow(q)))

Merged(q, e) == IF Same(q, e) # {} THEN Refreshed(q, e) ELSE Pushed(q, e)
MergeDrops(q, e) == IF Same(q, e) # {} THEN Superseded(q, e) ELSE Evicted(q, e)

\* The final retain.
Unburned(q, now) == {i \in DOMAIN q : q[i].deadline > now}
Burned(q, now) == DOMAIN q \ Unburned(q, now)

AfterPut(q, e, now) == Keep(Merged(q, e), Unburned(Merged(q, e), now))
PutDrops(q, e, now) ==
    MergeDrops(q, e) \o EnvsOf(Keep(Merged(q, e), Burned(Merged(q, e), now)))

\* .fenv files are removed; who has one open goes on writing to no name.
Remove(envs) ==
    /\ files' = files \ envs /\ torn' = torn \ ({"fenv"} \X envs)
    /\ fd' = [u \in Handlers |-> IF fd[u] = "fenv" /\ fresh[u] \in envs THEN "none" ELSE fd[u]]
    /\ UNCHANGED tmps

FputEnqueue(t) ==
    /\ pc[t] = "enqueue"
    /\ LET h == req[t].handle
           drops == PutDrops(queues[h], fresh[t], clock)
       IN  /\ queues' = [queues EXCEPT ![h] = AfterPut(@, fresh[t], clock)]
           /\ Remove({drops[i] : i \in DOMAIN drops})
    /\ fresh' = [fresh EXCEPT ![t] = NoEnvelope]
    /\ Finish(t)
    /\ UNCHANGED <<clock, reg, lastSweep, wins, up, out>>

-----------------------------------------------------------------------------
(* run_fpop *)

\* The token check under the reg lock (404, 403), released before the drain.
FpopAuth(t) ==
    /\ pc[t] = "auth"
    /\ LET ok == /\ Live(req[t].handle, clock)
                 /\ reg[req[t].handle].token = req[t].token
       IN  \/ ok /\ Goto(t, "drain")
           \/ ~ ok /\ Finish(t)
    /\ UNCHANGED <<clock, store, disk, up, fresh, out>>

\* Fault: expired entries count towards max.
TakenCountingExpired(q, max, now) == IF max < Len(q) THEN max ELSE Len(q)
\* The entries the drain loop removes: up to the max-th one that is not
\* expired, all of them if there are fewer.
Taken(q, max, now) ==
    CHOOSE n \in 0..Len(q) :
        /\ \A i \in 1..n : Rank(Unburned(q, now), i - 1) < max
        /\ n = Len(q) \/ Rank(Unburned(q, now), n) >= max

\* Faults: the last entry taken is not handed out; the files stay.
DeliveredShort(q, max, now) ==
    LET got == Keep(q, {i \in Unburned(q, now) : i < Taken(q, max, now)})
    IN  [i \in DOMAIN got |-> got[i].pointer]
NoDrainDrops(q, max, now) == <<>>
Delivered(q, max, now) ==
    LET got == Keep(q, {i \in Unburned(q, now) : i <= Taken(q, max, now)})
    IN  [i \in DOMAIN got |-> got[i].pointer]
DrainDrops(q, max, now) == EnvsOf(SubSeq(q, 1, Taken(q, max, now)))

\* The drain under the queues lock; the clock was read before it was taken.
FpopDrain(t) ==
    /\ pc[t] = "drain"
    /\ \E now \in Read(t) :
          LET h == req[t].handle
              drops == DrainDrops(queues[h], req[t].max, now)
          IN  /\ queues' = [queues EXCEPT ![h] = DropFirst(@, Taken(@, req[t].max, now))]
              /\ Remove({drops[i] : i \in DOMAIN drops})
              /\ out' = [out EXCEPT ![t] = Delivered(queues[h], req[t].max, now)]
    /\ Goto(t, "reply")
    /\ UNCHANGED <<clock, reg, lastSweep, wins, up, fresh>>

\* The answer goes to the socket; the entries are already gone.
FpopReply(t) ==
    /\ pc[t] = "reply"
    /\ out' = [out EXCEPT ![t] = <<>>]
    /\ Finish(t)
    /\ UNCHANGED <<clock, store, disk, up, fresh>>

-----------------------------------------------------------------------------
(* The node's own life. *)

\* The removals a handler has under way when it holds the queues lock.
PendingDrops(t) ==
    CASE pc[t] = "enqueue" -> {PutDrops(queues[req[t].handle], fresh[t], clock)}
      [] pc[t] = "drain" ->
           {DrainDrops(queues[req[t].handle], req[t].max, now) : now \in Read(t)}
      [] OTHER -> {<<>>}

\* The process dies: memory goes, the .fenv files stay, less those that the
\* handler in the critical section has removed so far.
Crash ==
    /\ CanCrash /\ up
    /\ \E t \in Handlers : \E drops \in PendingDrops(t) : \E n \in 0..Len(drops) :
          /\ files' = files \ {drops[i] : i \in 1..n}
          /\ torn' = {f \in torn : f[1] = "fenv" /\ f[2] \in files'}
    /\ up' = FALSE
    /\ reg' = NoRegistrations /\ lastSweep' = 0 /\ wins' = NoWindows
    /\ queues' = [h \in Handles |-> <<>>]
    /\ pc' = [t \in Handlers |-> "idle"]
    /\ req' = [t \in Handlers |-> NoRequest]
    /\ seen' = [t \in Handlers |-> 0]
    /\ fresh' = [t \in Handlers |-> NoEnvelope]
    /\ fd' = [t \in Handlers |-> "none"]
    /\ out' = [t \in Handlers |-> <<>>]
    /\ tmps' = {}
    /\ UNCHANGED clock

\* Fault: the horizon is not applied to what an earlier run left.
RebuildableAnyHorizon(f) == <<"fenv", f>> \notin torn /\ f.pointer.deadline > clock
\* open keeps an envelope that can be read and whose deadline is ahead and
\* within the horizon.
Rebuildable(f) ==
    /\ <<"fenv", f>> \notin torn
    /\ f.pointer.deadline > clock
    /\ f.pointer.deadline <= clock + Horizon

\* The envelopes S in order of received; the name's hash, which breaks ties,
\* may put equals in any order.
Sorted(S) ==
    {s \in [1..Cardinality(S) -> S] :
        /\ \A e \in S : \E i \in DOMAIN s : s[i] = e
        /\ \A i, j \in DOMAIN s : i < j => s[i] # s[j] /\ s[i].received <= s[j].received}

RebuiltQueue(s) == [i \in DOMAIN s |-> NewEntry(s[i])]

\* FabricState::open: compost, then index what is left.
Open ==
    /\ ~ up
    /\ up' = TRUE
    /\ files' = {f \in files : Rebuildable(f)}
    /\ torn' = {}
    /\ LET kept(h) == {f \in files : Rebuildable(f) /\ f.handle = h}
       IN  \E order \in [Handles -> UNION {Sorted(kept(h)) : h \in Handles}] :
              /\ \A h \in Handles : order[h] \in Sorted(kept(h))
              /\ queues' = [h \in Handles |-> RebuiltQueue(order[h])]
    /\ UNCHANGED <<clock, reg, lastSweep, wins, tmps, fd, pc, req, seen, fresh, out>>

Step(t) ==
    \/ Freg(t) \/ FputLookup(t) \/ Limit(t)
    \/ FputPersist(t) \/ FputRefuse(t) \/ FputWrite(t) \/ FputRename(t)
    \/ FputPersistFails(t) \/ FputEnqueue(t)
    \/ FpopAuth(t) \/ FpopDrain(t) \/ FpopReply(t)

Next ==
    \/ Tick \/ Crash \/ Open
    \/ \E t \in Handlers : Step(t) \/ \E r \in Request : Receive(t, r)

Spec == Init /\ [][Next]_vars

-----------------------------------------------------------------------------
(* Properties. *)

Labels == {"idle", "register", "lookup", "limit", "persist", "write", "rename", "enqueue",
           "auth", "drain", "reply"}
Stamped == {"write", "rename", "enqueue"}

\* What the node keeps: no address's window counts past the rate
\* (RateLimiter::allow), the sweep is never dated ahead.
NodeTypeOK ==
    /\ clock \in 1..MaxTime /\ lastSweep \in 0..clock /\ up \in BOOLEAN
    /\ DOMAIN reg \subseteq Handles /\ reg \in [DOMAIN reg -> Registration]
    /\ queues \in [Handles -> Seq(Queued)]
    /\ files \subseteq Envelope /\ IsFiniteSet(files)
    /\ DOMAIN wins \subseteq Ips /\ wins \in [DOMAIN wins -> Window]
    /\ \A i \in DOMAIN wins : wins[i].hits <= PutRate

DiskTypeOK ==
    /\ tmps \subseteq Envelope /\ torn \subseteq {"tmp", "fenv"} \X Envelope
    /\ fd \in [Handlers -> {"none", "tmp", "fenv"}]

\* What a handler keeps: it is in a region of the verb it serves, it has read
\* no clock that is ahead, and an fput to be queued carries its envelope.
HandlerTypeOK ==
    /\ pc \in [Handlers -> Labels]
    /\ req \in [Handlers -> Request \cup {NoRequest}]
    /\ seen \in [Handlers -> 0..clock]
    /\ fresh \in [Handlers -> Envelope \cup {NoEnvelope}]
    /\ out \in [Handlers -> Seq(Pointer)]
    /\ \A t \in Handlers :
          /\ pc[t] = "register" => req[t] \in FregRequest
          /\ pc[t] \in {"lookup", "persist"} \cup Stamped => req[t] \in FputRequest
          /\ pc[t] = "limit" => req[t] \in FputRequest \cup FpopRequest
          /\ pc[t] \in {"auth", "drain", "reply"} => req[t] \in FpopRequest
          /\ pc[t] \in Stamped => /\ fresh[t] \in Envelope
                                  /\ fresh[t].handle = req[t].handle
                                  /\ fresh[t].pointer = req[t].pointer

\* The type invariant of the relay (FabricState and the handler threads).
TypeOK == NodeTypeOK /\ DiskTypeOK /\ HandlerTypeOK

InQueue(f) == \E i \in DOMAIN queues[f.handle] : queues[f.handle][i].env = f
InFlight(f) == \E t \in Handlers : pc[t] = "enqueue" /\ fresh[t] = f

\* While the node serves, every .fenv file is the backing of a queue entry or
\* of an fput between its persist and its enqueue: no interleaving, and no
\* restart, leaves a file that nothing will ever drain, evict or expire
\* (run_fput 538-573, run_fpop 629-636, open).
NoStrayFiles == up => \A f \in files : InQueue(f) \/ InFlight(f)

\* While the node serves, every queue entry is backed by its .fenv file, so a
\* restart rebuilds it ("queues persist as .fenv files and rebuild",
\* fabric.rs 230-231).
DurableQueue ==
    up => \A h \in Handles : \A i \in DOMAIN queues[h] : queues[h][i].env \in files

\* No queue holds the same content twice ("Dedupe on (handle, pointer CID):
\* re-publishing refreshes the deadline, never duplicates", fabric.rs 441-442).
OnePerCid ==
    \A h \in Handles : \A i, j \in DOMAIN queues[h] :
        queues[h][i].pointer.cid = queues[h][j].pointer.cid => i = j

\* No queue holds a pointer, deadline included, twice: what run_fput 538 compares.
OnePerPointer ==
    \A h \in Handles : \A i, j \in DOMAIN queues[h] :
        queues[h][i].pointer = queues[h][j].pointer => i = j

\* No queued envelope burns later than the horizon from now, leftovers of an
\* earlier run included (run_fput 519-521, open 275-283).
NoImmortal ==
    \A h \in Handles : \A i \in DOMAIN queues[h] :
        queues[h][i].deadline <= clock + Horizon

\* The registry never outgrows its budget, and no lease outlasts the cap,
\* however registrations, sweeps and stale clock reads interleave (run_freg).
RegistryBounded ==
    /\ Cardinality(DOMAIN reg) <= MaxRegs
    /\ \A h \in DOMAIN reg : reg[h].expires <= clock + MaxLease

\* While the node serves, a live registration is removed or changed only by a
\* freg that shows its current token (chained refresh, run_freg 411-419).
OnlyHolderRenews ==
    [][\A h \in DOMAIN reg :
          up' /\ reg[h].expires > clock /\ (h \notin DOMAIN reg' \/ reg'[h] # reg[h])
          => \E t \in Handlers : /\ pc[t] = "register"
                                 /\ req[t].handle = h
                                 /\ req[t].prev = reg[h].token]_vars

PointersIn(q) == {q[i].pointer : i \in DOMAIN q}

\* A pointer enters a queue only as the queue ends within its cap
\* (max_per_handle, run_fput 552-561).
NewWithinCap ==
    [][\A h \in Handles :
          up /\ ~ (PointersIn(queues'[h]) \subseteq PointersIn(queues[h]))
          => Len(queues'[h]) <= MaxPerHandle]_vars

\* The queue is a FIFO for live envelopes: when one stays, so does every one
\* behind it that has not expired, and their order is kept.
NoOvertaking ==
    [][\A h \in Handles : \A i, j \in DOMAIN queues[h] :
          /\ i < j /\ queues[h][j].deadline > clock
          /\ queues[h][i].pointer \in PointersIn(queues'[h])
          => \E k, l \in DOMAIN queues'[h] :
                /\ k < l
                /\ queues'[h][k].pointer = queues[h][i].pointer
                /\ queues'[h][l].pointer = queues[h][j].pointer]_vars

\* While the node serves, an envelope that has not expired leaves its queue
\* only into an fpop's answer, or as one of the oldest of a full queue when an
\* fput pushes.  Expired entries count for full: the eviction comes before the
\* retain (run_fput 558-573).
NoLiveLoss ==
    [][\A h \in Handles : \A i \in DOMAIN queues[h] :
          /\ up' /\ queues[h][i].deadline > clock
          /\ queues[h][i].pointer \notin PointersIn(queues'[h])
          => \/ /\ i <= Overflow(queues[h])
                /\ \E t \in Handlers : pc[t] = "enqueue" /\ req[t].handle = h
             \/ \E t \in Handlers : \E k \in DOMAIN out'[t] :
                   /\ pc[t] = "drain" /\ req[t].handle = h
                   /\ out'[t][k] = queues[h][i].pointer]_vars

\* An answer shorter than the requested max means the mailbox is empty:
\* expired entries do not use up the drain (run_fpop 629-636).
DrainFills ==
    [][\A t \in Handlers :
          pc[t] = "drain" /\ pc'[t] = "reply" /\ Len(out'[t]) < req[t].max
          => queues'[req[t].handle] = <<>>]_vars

\* What the mailbox holds: the index and the fputs on their way to it while
\* the node serves, the files while it is down.
Pending ==
    [h \in Handles |-> [p \in Pointer |->
        IF up THEN Cardinality({i \in DOMAIN queues[h] : queues[h][i].pointer = p})
                 + Cardinality({t \in Handlers : /\ pc[t] = "enqueue"
                                                 /\ fresh[t].handle = h
                                                 /\ fresh[t].pointer = p})
        ELSE Cardinality({f \in files : f.handle = h /\ f.pointer = p})]]

\* The puts in the handlers' hands that have no file yet.
Asked ==
    [t \in Handlers |-> IF req[t].verb = "fput" /\ pc[t] \notin {"idle", "enqueue"}
                       THEN <<req[t].handle, req[t].pointer>> ELSE <<>>]

Promise == INSTANCE Mailbox WITH
    Clients <- Handlers, Boxes <- Handles, Items <- Pointer, pending <- Pending, asked <- Asked

\* Every copy of a pointer that is handed out or queued comes from a put of its
\* own, and is handed out at most once, across dedupe, eviction, crashes and
\* rebuilds ("deleting on read", fabric.rs 579).
AtMostOncePerDeposit == Promise!Spec
=============================================================================
