------------------------------ MODULE BodyStore ------------------------------
(***************************************************************************)
(* The hold of src/spore_peer.rs: Peer.PutObject handlers store bodies     *)
(* (enforce_write_policy, store_body), a sync client on the same directory *)
(* writes the bodies it fetched (sync_stream), and serve_body hands out    *)
(* what hashes to its name.                                                *)
(*                                                                         *)
(* A file is the set of its chunks: fs::write opens with truncation and    *)
(* then writes chunk after chunk, and other threads and processes see each *)
(* of these steps.  A rename or a removal changes what a name means, not   *)
(* the file a writer has open: `at` follows the name of that file.         *)
(***************************************************************************)
EXTENDS Naturals, FiniteSets, FiniteSetsExt

CONSTANTS
    Handlers,       \* connection handler threads of the node
    Syncs,          \* sync processes working on the same directory
    Bodies,         \* content addresses
    Size,           \* the length of each body, in chunks
    MaxStore,       \* ServeConfig.max_store_bytes, in chunks; 0 is unlimited
    Faults          \* whether writes fail and processes die

Writers == Handlers \cup Syncs
Chunks(b) == 1..Size[b]

ASSUME StoreAssumption ==
    /\ Handlers \cap Syncs = {}
    /\ Size \in [Bodies -> Nat \ {0}]
    /\ MaxStore \in Nat
    /\ Faults \in BOOLEAN

\* Threads are finitely many, and so are addresses of 32 bytes.
ASSUME FiniteAssumption ==
    IsFiniteSet(Bodies) /\ IsFiniteSet(Handlers) /\ Handlers # {}

VARIABLES
    hold,       \* the .body files: content address -> chunks present
    incoming,   \* the .incoming-<cid>.part files: likewise
    pc, body,   \* what a writer does next, and the body it works on
    next,       \* the next chunk it writes
    at,         \* the name its open file has now
    left, sum,  \* store_bytes: the entries not yet visited, the total so far
    contended   \* history: bodies that two pushes wrote at once, or a sync did

files == <<hold, incoming>>
walk == <<left, sum>>
vars == <<files, pc, body, next, at, walk, contended>>

NoFiles == [b \in {} |-> {}]
With(f, b, content) == [x \in DOMAIN f \cup {b} |-> IF x = b THEN content ELSE f[x]]
Without(f, b) == [x \in DOMAIN f \ {b} |-> f[x]]

Init ==
    /\ hold = NoFiles /\ incoming = NoFiles
    /\ pc = [w \in Writers |-> "idle"]
    /\ body \in [Writers -> Bodies]
    /\ next = [w \in Writers |-> 1]
    /\ at = [w \in Writers |-> "closed"]
    /\ left = [t \in Handlers |-> {}]
    /\ sum = [t \in Handlers |-> 0]
    /\ contended = {}

Goto(w, label) == pc' = [pc EXCEPT ![w] = label]

-----------------------------------------------------------------------------
(* Peer.PutObject: the write policy, then store_body. *)

\* A push whose address is that of its body, with the right token and within
\* the rate; the others change no file.
Push(t, b) ==
    /\ pc[t] = "idle"
    /\ body' = [body EXCEPT ![t] = b]
    /\ \/ /\ MaxStore > 0
          /\ left' = [left EXCEPT ![t] = Bodies]
          /\ Goto(t, "walk")
       \/ /\ MaxStore = 0
          /\ Goto(t, "stat")
          /\ UNCHANGED left
    /\ UNCHANGED <<files, next, at, sum, contended>>

\* The length of a file: a chunk beyond a truncated start leaves a gap.
Length(content) == IF content = {} THEN 0 ELSE Max(content)
Weight(b) == IF b \in DOMAIN hold THEN Length(hold[b]) ELSE 0

\* store_bytes visits one directory entry.
Visit(t) ==
    /\ pc[t] = "walk"
    /\ \E b \in left[t] :
          /\ left' = [left EXCEPT ![t] = @ \ {b}]
          /\ sum' = [sum EXCEPT ![t] = @ + Weight(b)]
    /\ UNCHANGED <<files, pc, body, next, at, contended>>

\* Fault: the body to be stored is not counted.
FitsWithout(t) == sum[t] <= MaxStore
Fits(t) == sum[t] + Size[body[t]] <= MaxStore

\* The end of the walk: the push goes on or is refused (507).
Admit(t) ==
    /\ pc[t] = "walk" /\ left[t] = {}
    /\ \/ Fits(t) /\ Goto(t, "stat")
       \/ ~ Fits(t) /\ Goto(t, "idle")
    /\ sum' = [sum EXCEPT ![t] = 0]
    /\ UNCHANGED <<files, body, next, at, left, contended>>

\* A body that has its name already is not written again.
Stat(t) ==
    /\ pc[t] = "stat"
    /\ Goto(t, IF body[t] \in DOMAIN hold THEN "idle" ELSE "open")
    /\ UNCHANGED <<files, body, next, at, walk, contended>>

\* fs::write of the .part file begins: created, or truncated under whoever
\* else has it open.
OpenPart(t) ==
    /\ pc[t] = "open"
    /\ incoming' = With(incoming, body[t], {})
    /\ at' = [at EXCEPT ![t] = "incoming"]
    /\ next' = [next EXCEPT ![t] = 1]
    /\ contended' = IF \E u \in Handlers : body[u] = body[t] /\ pc[u] \in {"write", "rename"}
                    THEN contended \cup {body[t]} ELSE contended
    /\ Goto(t, "write")
    /\ UNCHANGED <<hold, body, walk>>

\* Fault: the sync client goes on to a rename too.
AfterWriteRenames(w) == "rename"
AfterWrite(w) == IF w \in Handlers THEN "rename" ELSE "idle"

\* One write call of fs::write, on the file the writer has open.
Write(w) ==
    /\ pc[w] = "write" /\ next[w] <= Size[body[w]]
    /\ hold' = IF at[w] = "hold" THEN [hold EXCEPT ![body[w]] = @ \cup {next[w]}] ELSE hold
    /\ incoming' = IF at[w] = "incoming"
                   THEN [incoming EXCEPT ![body[w]] = @ \cup {next[w]}] ELSE incoming
    /\ next' = [next EXCEPT ![w] = @ + 1]
    /\ UNCHANGED <<pc, body, at, walk, contended>>

Closed(w) ==
    /\ at' = [at EXCEPT ![w] = "closed"]
    /\ next' = [next EXCEPT ![w] = 1]

\* Fault: a short write is taken for the whole.
CloseShort(w) ==
    /\ pc[w] = "write" /\ next[w] > 1
    /\ Closed(w)
    /\ Goto(w, AfterWrite(w))
    /\ UNCHANGED <<files, body, walk, contended>>
\* fs::write returns.
Close(w) ==
    /\ pc[w] = "write" /\ next[w] > Size[body[w]]
    /\ Closed(w)
    /\ Goto(w, AfterWrite(w))
    /\ UNCHANGED <<files, body, walk, contended>>

\* What the open files of body b are called after its .part file replaced its
\* .body file.
Renamed(b) ==
    [w \in Writers |->
        IF body[w] # b THEN at[w]
        ELSE CASE at[w] = "incoming" -> "hold"
               [] at[w] = "hold" -> "unlinked"
               [] OTHER -> at[w]]

\* fs::rename; it fails when another push has renamed or removed the .part, or
\* on an I/O error.
Rename(t) ==
    /\ pc[t] = "rename"
    /\ \/ /\ body[t] \in DOMAIN incoming
          /\ hold' = With(hold, body[t], incoming[body[t]])
          /\ incoming' = Without(incoming, body[t])
          /\ at' = Renamed(body[t])
          /\ Goto(t, "idle")
       \/ /\ body[t] \notin DOMAIN incoming \/ Faults
          /\ Goto(t, "unlink")
          /\ UNCHANGED <<files, at>>
    /\ UNCHANGED <<body, next, walk, contended>>

\* The clean-up of a failed rename: whatever has the name by now goes.
Unlink(t) ==
    /\ pc[t] = "unlink"
    /\ incoming' = Without(incoming, body[t])
    /\ at' = [w \in Writers |->
                IF body[w] = body[t] /\ at[w] = "incoming" THEN "unlinked" ELSE at[w]]
    /\ Goto(t, "idle")
    /\ UNCHANGED <<hold, body, next, walk, contended>>

-----------------------------------------------------------------------------
(* sync_stream, for one body the peer offers. *)

\* The body is missing here, so it is asked for.
SyncMissing(s, b) ==
    /\ pc[s] = "idle"
    /\ b \notin DOMAIN hold
    /\ body' = [body EXCEPT ![s] = b]
    /\ Goto(s, "fetch")
    /\ UNCHANGED <<files, next, at, walk, contended>>

\* The peer fails, or answers with an error or another body.
SyncGivesUp(s) ==
    /\ pc[s] = "fetch"
    /\ Goto(s, "idle")
    /\ UNCHANGED <<files, body, next, at, walk, contended>>

\* The answer is verified and fs::write of the final name begins.
SyncOpen(s) ==
    /\ pc[s] = "fetch"
    /\ hold' = With(hold, body[s], {})
    /\ at' = [at EXCEPT ![s] = "hold"]
    /\ next' = [next EXCEPT ![s] = 1]
    /\ contended' = contended \cup {body[s]}
    /\ Goto(s, "write")
    /\ UNCHANGED <<incoming, body, walk>>

-----------------------------------------------------------------------------
(* Faults. *)

\* Fault: the error is dropped.
WriteFailsUnnoticed(w) ==
    /\ Faults /\ pc[w] = "write"
    /\ Closed(w)
    /\ Goto(w, AfterWrite(w))
    /\ UNCHANGED <<files, body, walk, contended>>
\* A write fails (500, or the sync ends), or a sync process dies: what it
\* wrote stays.
WriteFails(w) ==
    /\ Faults /\ pc[w] = "write"
    /\ Closed(w)
    /\ Goto(w, "idle")
    /\ UNCHANGED <<files, body, walk, contended>>

\* The node dies and is started again: all its handlers are gone.
NodeDies ==
    /\ Faults
    /\ \E t \in Handlers : pc[t] # "idle"
    /\ pc' = [w \in Writers |-> IF w \in Handlers THEN "idle" ELSE pc[w]]
    /\ at' = [w \in Writers |-> IF w \in Handlers THEN "closed" ELSE at[w]]
    /\ next' = [w \in Writers |-> IF w \in Handlers THEN 1 ELSE next[w]]
    /\ left' = [t \in Handlers |-> {}] /\ sum' = [t \in Handlers |-> 0]
    /\ UNCHANGED <<files, body, contended>>

Handle(t) ==
    \/ \E b \in Bodies : Push(t, b)
    \/ Visit(t) \/ Admit(t) \/ Stat(t) \/ OpenPart(t) \/ Rename(t) \/ Unlink(t)

Sync(s) ==
    \/ \E b \in Bodies : SyncMissing(s, b)
    \/ SyncGivesUp(s) \/ SyncOpen(s)

Next ==
    \/ \E t \in Handlers : Handle(t)
    \/ \E s \in Syncs : Sync(s)
    \/ \E w \in Writers : Write(w) \/ Close(w) \/ WriteFails(w)
    \/ NodeDies

Spec == Init /\ [][Next]_vars

\* An fs::write under way goes on: its thread is scheduled and a write call
\* returns.  Nothing else is assumed.
FairSpec == Spec /\ \A w \in Writers : WF_vars(Write(w))

-----------------------------------------------------------------------------
(* Properties. *)

\* The files hold chunks of their bodies.
FilesOK ==
    /\ DOMAIN hold \subseteq Bodies /\ \A b \in DOMAIN hold : hold[b] \subseteq Chunks(b)
    /\ DOMAIN incoming \subseteq Bodies
    /\ \A b \in DOMAIN incoming : incoming[b] \subseteq Chunks(b)

\* A push and a sync each stay in their own program.
ProgramsOK ==
    /\ pc \in [Writers -> {"idle", "walk", "stat", "open", "write", "rename", "unlink", "fetch"}]
    /\ \A t \in Handlers : pc[t] # "fetch"
    /\ \A s \in Syncs : pc[s] \in {"idle", "fetch", "write"}
    /\ body \in [Writers -> Bodies]
    /\ left \in [Handlers -> SUBSET Bodies]
    /\ sum \in [Handlers -> Nat]

\* A writer has a file open while it writes, and the file has the name `at`
\* says it has.
OpenFilesOK ==
    /\ next \in [Writers -> Nat \ {0}]
    /\ at \in [Writers -> {"closed", "incoming", "hold", "unlinked"}]
    /\ \A w \in Writers :
          /\ pc[w] = "write" <=> at[w] # "closed"
          /\ pc[w] = "write" => next[w] \in 1..(Size[body[w]] + 1)
          /\ at[w] = "incoming" => body[w] \in DOMAIN incoming
          /\ at[w] = "hold" => body[w] \in DOMAIN hold

\* The type invariant of the hold and its writers (store_body 226-239,
\* sync_stream 771-800).
TypeOK == FilesOK /\ ProgramsOK /\ OpenFilesOK /\ contended \subseteq Bodies

\* serve_body answers with the body; it answers 500 for one that is not whole.
Servable(b) == b \in DOMAIN hold /\ hold[b] = Chunks(b)

\* Every body in the hold can be served: "a concurrent reader can never
\* observe a half-written body" (spore_peer.rs 230-231), "the only way a file
\* lands in the store is with sha256(body) == its filename" (210-211).
NeverHalfWritten == \A b \in DOMAIN hold : Servable(b)

\* A body that cannot be served was written by two pushes at once or by a
\* sync: neither failed writes nor crashes at any point, nor .part files left
\* behind, let a lone push expose part of a body (store_body 230-238).
HalfWrittenOnlyByRace == \A b \in DOMAIN hold : Servable(b) \/ b \in contended

\* Writer w will yet write every chunk the file under this name lacks.
Completes(w, name, b, content) ==
    /\ pc[w] = "write" /\ at[w] = name /\ body[w] = b
    /\ Chunks(b) \ content \subseteq next[w]..Size[b]

\* Unless processes die or writes fail, a body in the hold that cannot be
\* served is being completed: however pushes and syncs of it interleave
\* (store_body 226-235, sync_stream 771-800).
PartialHasWriter ==
    \A b \in DOMAIN hold :
        Servable(b) \/ \E w \in Writers : Completes(w, "hold", b, hold[b])

\* Under the same condition, a body that has its name can be served for good
\* some time later.
VisibleBecomesWhole == \A b \in Bodies : b \in DOMAIN hold ~> []Servable(b)

\* What the .body files take.
Stored == UNION {{b} \X (1..Weight(b)) : b \in Bodies}
Used == Cardinality(Stored)
Largest == Max({Size[b] : b \in Bodies})

\* Pushes overrun the quota by no more than one body for each other handler,
\* however their walks of the hold and their writes interleave
\* (enforce_write_policy 200-205, then store_body).
QuotaOvershoot ==
    MaxStore > 0 /\ Syncs = {}
        => Used <= MaxStore + (Cardinality(Handlers) - 1) * Largest
=============================================================================
