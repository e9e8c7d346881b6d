--------------------------- MODULE BodyStoreProofs ---------------------------
(***************************************************************************)
(* Proofs about BodyStore: its type invariant, that a body is half written *)
(* only after a race (with failed writes and crashes), that a half written *)
(* body is being completed (without them), and how far pushes can overrun  *)
(* the quota.                                                              *)
(***************************************************************************)
EXTENDS BodyStore, VecProofs

-----------------------------------------------------------------------------
(* The length of a file. *)

\* A set of chunks that is not empty has a last one (Length, the metadata of a
\* file in store_bytes 171-172).
LEMMA LastChunk ==
    ASSUME NEW n \in Nat, NEW S \in SUBSET (1..n), S # {}
    PROVE  Max(S) \in S
BY HasGreatest DEF Max

\* Every file has a length (store_bytes 171-174).
LEMMA WeightNat ==
    ASSUME FilesOK, NEW b \in Bodies
    PROVE  Weight(b) \in Nat
<1>1. CASE b \notin DOMAIN hold
  BY <1>1 DEF Weight
<1>2. CASE b \in DOMAIN hold
  <2>1. Size[b] \in Nat /\ hold[b] \in SUBSET (1..Size[b])
    BY <1>2, StoreAssumption DEF FilesOK, Chunks
  <2>2. hold[b] # {} => Max(hold[b]) \in hold[b]
    BY <2>1, LastChunk
  <2> HIDE DEF Max
  <2> QED BY <1>2, <2>1, <2>2 DEF Weight, Length
<1> QED BY <1>1, <1>2

-----------------------------------------------------------------------------
(* The type invariant. *)

\* Where a step moves nobody's file and no program, the files stay open as
\* they are (every action but those of fs::write, fs::rename, remove_file).
LEMMA SameOpenFiles ==
    ASSUME OpenFilesOK, ProgramsOK', UNCHANGED <<files, next, at>>,
           NEW t \in Writers, pc[t] # "write",
           \A w \in Writers \ {t} : pc'[w] = pc[w] /\ body'[w] = body[w],
           pc'[t] # "write"
    PROVE  OpenFilesOK'
<1> SUFFICES ASSUME NEW w \in Writers
             PROVE  /\ pc'[w] = "write" <=> at[w] # "closed"
                    /\ pc'[w] = "write" => next[w] \in 1..(Size[body'[w]] + 1)
                    /\ at[w] = "incoming" => body'[w] \in DOMAIN incoming
                    /\ at[w] = "hold" => body'[w] \in DOMAIN hold
  BY DEF OpenFilesOK, files
<1>1. CASE w = t
  BY <1>1 DEF OpenFilesOK
<1>2. CASE w # t
  BY <1>2 DEF OpenFilesOK
<1> QED BY <1>1, <1>2

\* Every step keeps the types (store_body, sync_stream).
LEMMA TypeStep ==
    ASSUME TypeOK, [Next]_vars
    PROVE  TypeOK'
<1> USE StoreAssumption DEF Writers, Chunks
<1>1. ASSUME NEW t \in Handlers, NEW b \in Bodies, Push(t, b) PROVE TypeOK'
  <2>1. FilesOK' /\ (contended \subseteq Bodies)'
    BY <1>1 DEF TypeOK, FilesOK, Push, files
  <2>2. ProgramsOK'
    BY <1>1 DEF TypeOK, ProgramsOK, Push, Goto, files
  <2>3. OpenFilesOK'
    BY <1>1, <2>2, SameOpenFiles DEF TypeOK, ProgramsOK, Push, Goto
  <2> QED BY <2>1, <2>2, <2>3 DEF TypeOK
<1>2. ASSUME NEW t \in Handlers, Visit(t) PROVE TypeOK'
  <2>1. FilesOK' /\ (contended \subseteq Bodies)'
    BY <1>2 DEF TypeOK, FilesOK, Visit, files
  <2>2. ProgramsOK'
    <3>1. PICK b \in left[t] : sum' = [sum EXCEPT ![t] = @ + Weight(b)]
                               /\ left' = [left EXCEPT ![t] = @ \ {b}]
      BY <1>2 DEF Visit
    <3>2. Weight(b) \in Nat
      BY <3>1, WeightNat DEF TypeOK, ProgramsOK
    <3> HIDE DEF Weight
    <3>3. sum' \in [Handlers -> Nat]
      BY <3>1, <3>2 DEF TypeOK, ProgramsOK
    <3>4. left' \in [Handlers -> SUBSET Bodies]
      BY <3>1 DEF TypeOK, ProgramsOK
    <3> QED BY <3>3, <3>4, <1>2 DEF TypeOK, ProgramsOK, Visit
  <2>3. OpenFilesOK'
    BY <1>2 DEF TypeOK, OpenFilesOK, Visit, files
  <2> QED BY <2>1, <2>2, <2>3 DEF TypeOK
<1>3. ASSUME NEW t \in Handlers, Admit(t) \/ Stat(t) PROVE TypeOK'
  <2>1. FilesOK' /\ (contended \subseteq Bodies)'
    BY <1>3 DEF TypeOK, FilesOK, Admit, Stat, files
  <2>2. ProgramsOK'
    <3>1. CASE Admit(t)
      BY <3>1 DEF TypeOK, ProgramsOK, Admit, Goto
    <3>2. CASE Stat(t)
      BY <3>2 DEF TypeOK, ProgramsOK, Stat, Goto, walk
    <3> QED BY <1>3, <3>1, <3>2
  <2>3. OpenFilesOK'
    BY <1>3, <2>2, SameOpenFiles DEF TypeOK, ProgramsOK, Admit, Stat, Goto
  <2> QED BY <2>1, <2>2, <2>3 DEF TypeOK
<1>4. ASSUME NEW t \in Handlers, OpenPart(t) PROVE TypeOK'
  <2>1. FilesOK' /\ (contended \subseteq Bodies)'
    BY <1>4 DEF TypeOK, FilesOK, ProgramsOK, OpenPart, With
  <2>2. ProgramsOK'
    BY <1>4 DEF TypeOK, ProgramsOK, OpenPart, Goto, walk
  <2>3. OpenFilesOK'
    BY <1>4 DEF TypeOK, OpenFilesOK, ProgramsOK, OpenPart, Goto, With
  <2> QED BY <2>1, <2>2, <2>3 DEF TypeOK
<1>5. ASSUME NEW t \in Handlers, Rename(t) PROVE TypeOK'
  <2>1. FilesOK' /\ (contended \subseteq Bodies)'
    BY <1>5 DEF TypeOK, FilesOK, ProgramsOK, Rename, With, Without, files
  <2>2. ProgramsOK'
    BY <1>5 DEF TypeOK, ProgramsOK, Rename, Goto, walk
  <2>3. OpenFilesOK'
    <3>1. CASE at' = Renamed(body[t])
      BY <1>5, <3>1 DEF TypeOK, OpenFilesOK, ProgramsOK, Rename, Goto, With, Without, Renamed, files
    <3>2. CASE at' = at /\ UNCHANGED files
      BY <1>5, <3>2, <2>2, SameOpenFiles DEF TypeOK, ProgramsOK, Rename, Goto
    <3> QED BY <1>5, <3>1, <3>2 DEF Rename
  <2> QED BY <2>1, <2>2, <2>3 DEF TypeOK
<1>6. ASSUME NEW t \in Handlers, Unlink(t) PROVE TypeOK'
  <2>1. FilesOK' /\ (contended \subseteq Bodies)'
    BY <1>6 DEF TypeOK, FilesOK, Unlink, Without
  <2>2. ProgramsOK'
    BY <1>6 DEF TypeOK, ProgramsOK, Unlink, Goto, walk
  <2>3. OpenFilesOK'
    BY <1>6 DEF TypeOK, OpenFilesOK, ProgramsOK, Unlink, Goto, Without
  <2> QED BY <2>1, <2>2, <2>3 DEF TypeOK
<1>7. ASSUME NEW s \in Syncs, NEW b \in Bodies, SyncMissing(s, b) PROVE TypeOK'
  <2>1. FilesOK' /\ (contended \subseteq Bodies)'
    BY <1>7 DEF TypeOK, FilesOK, SyncMissing, files
  <2>2. ProgramsOK'
    BY <1>7 DEF TypeOK, ProgramsOK, SyncMissing, Goto, walk
  <2>3. OpenFilesOK'
    BY <1>7, <2>2, SameOpenFiles DEF TypeOK, ProgramsOK, SyncMissing, Goto
  <2> QED BY <2>1, <2>2, <2>3 DEF TypeOK
<1>8. ASSUME NEW s \in Syncs, SyncGivesUp(s) PROVE TypeOK'
  <2>1. FilesOK' /\ (contended \subseteq Bodies)'
    BY <1>8 DEF TypeOK, FilesOK, SyncGivesUp, files
  <2>2. ProgramsOK'
    BY <1>8 DEF TypeOK, ProgramsOK, SyncGivesUp, Goto, walk
  <2>3. OpenFilesOK'
    BY <1>8, <2>2, SameOpenFiles DEF TypeOK, ProgramsOK, SyncGivesUp, Goto
  <2> QED BY <2>1, <2>2, <2>3 DEF TypeOK
<1>9. ASSUME NEW s \in Syncs, SyncOpen(s) PROVE TypeOK'
  <2>1. FilesOK' /\ (contended \subseteq Bodies)'
    BY <1>9 DEF TypeOK, FilesOK, ProgramsOK, SyncOpen, With
  <2>2. ProgramsOK'
    BY <1>9 DEF TypeOK, ProgramsOK, SyncOpen, Goto, walk
  <2>3. OpenFilesOK'
    BY <1>9 DEF TypeOK, OpenFilesOK, ProgramsOK, SyncOpen, Goto, With
  <2> QED BY <2>1, <2>2, <2>3 DEF TypeOK
<1>10. ASSUME NEW w \in Writers, Write(w) PROVE TypeOK'
  <2>0. next[w] \in 1..Size[body[w]]
    BY <1>10 DEF TypeOK, ProgramsOK, OpenFilesOK, Write
  <2>1. FilesOK' /\ (contended \subseteq Bodies)'
    BY <1>10, <2>0 DEF TypeOK, FilesOK, ProgramsOK, OpenFilesOK, Write
  <2>2. ProgramsOK'
    BY <1>10 DEF TypeOK, ProgramsOK, Write, walk
  <2>3. OpenFilesOK'
    BY <1>10, <2>0 DEF TypeOK, OpenFilesOK, ProgramsOK, Write
  <2> QED BY <2>1, <2>2, <2>3 DEF TypeOK
<1>11. ASSUME NEW w \in Writers, Close(w) \/ WriteFails(w) PROVE TypeOK'
  <2>1. FilesOK' /\ (contended \subseteq Bodies)'
    BY <1>11 DEF TypeOK, FilesOK, Close, WriteFails, files
  <2>2. ProgramsOK'
    BY <1>11 DEF TypeOK, ProgramsOK, Close, WriteFails, Goto, AfterWrite, walk
  <2>3. OpenFilesOK'
    BY <1>11 DEF TypeOK, OpenFilesOK, ProgramsOK, Close, WriteFails, Closed, Goto, AfterWrite, files
  <2> QED BY <2>1, <2>2, <2>3 DEF TypeOK
<1>12. ASSUME NodeDies PROVE TypeOK'
  <2>1. FilesOK' /\ (contended \subseteq Bodies)'
    BY <1>12 DEF TypeOK, FilesOK, NodeDies, files
  <2>2. ProgramsOK'
    BY <1>12 DEF TypeOK, ProgramsOK, NodeDies
  <2>3. OpenFilesOK'
    BY <1>12 DEF TypeOK, OpenFilesOK, ProgramsOK, NodeDies, files
  <2> QED BY <2>1, <2>2, <2>3 DEF TypeOK
<1>13. CASE UNCHANGED vars
  BY <1>13 DEF vars, files, walk, TypeOK, FilesOK, ProgramsOK, OpenFilesOK
<1> QED BY <1>1, <1>2, <1>3, <1>4, <1>5, <1>6, <1>7, <1>8, <1>9, <1>10, <1>11, <1>12, <1>13
        DEF Next, Handle, Sync

\* The type invariant holds in every reachable state, for any number of
\* handlers, sync processes and bodies, with and without faults.
THEOREM TypeCorrect == Spec => []TypeOK
<1>1. Init => TypeOK
  BY StoreAssumption DEF Init, NoFiles, TypeOK, FilesOK, ProgramsOK, OpenFilesOK, Writers
<1>2. TypeOK /\ [Next]_vars => TypeOK'
  BY TypeStep
<1> QED BY <1>1, <1>2, PTL DEF Spec

-----------------------------------------------------------------------------
(* A lone push exposes a whole body. *)

\* Handler t has the .part file of b open, or is about to rename it.
Storing(t, b) == body[t] = b /\ pc[t] \in {"write", "rename"}

\* At most one handler at a time stores b.
OneStores(b) == \A t, u \in Handlers : Storing(t, b) /\ Storing(u, b) => t = u

\* Its file, as long as it has the name of the .part file, holds the chunks
\* written so far; nothing has the name when it was removed under the handler.
PartGrows(b) ==
    \A t \in Handlers : body[t] = b /\ pc[t] = "write" =>
        \/ at[t] = "incoming" /\ incoming[b] = 1..(next[t] - 1)
        \/ at[t] = "unlinked" /\ b \notin DOMAIN incoming

\* What it will rename is whole.
PartWhole(b) ==
    \A t \in Handlers : body[t] = b /\ pc[t] = "rename" /\ b \in DOMAIN incoming =>
        incoming[b] = Chunks(b)

\* The inductive strengthening of HalfWrittenOnlyByRace.
Lone(b) ==
    /\ b \in DOMAIN hold => hold[b] = Chunks(b)
    /\ OneStores(b) /\ PartGrows(b) /\ PartWhole(b)
    /\ \A s \in Syncs : ~ (body[s] = b /\ pc[s] = "write")
LoneIsWhole == \A b \in Bodies \ contended : Lone(b)


\* A step that writes no file keeps Lone(b) when nobody newly stores b
\* (enforce_write_policy, the test of store_body 226-228, a failed write or the
\* death of the node).
LEMMA LoneKept ==
    ASSUME NEW b \in Bodies, Lone(b), UNCHANGED files,
           \A w \in Writers : body'[w] = b /\ pc'[w] \in {"write", "rename"} =>
               body[w] = b /\ pc'[w] = pc[w] /\ next'[w] = next[w] /\ at'[w] = at[w]
    PROVE  Lone(b)'
<1> USE DEF Writers, files
<1>1. (b \in DOMAIN hold => hold[b] = Chunks(b))'
  BY DEF Lone, Chunks
<1>2. OneStores(b)'
  BY DEF Lone, OneStores, Storing
<1>3. PartGrows(b)'
  BY DEF Lone, PartGrows
<1>4. PartWhole(b)'
  BY DEF Lone, PartWhole, Chunks
<1>5. (\A s \in Syncs : ~ (body[s] = b /\ pc[s] = "write"))'
  BY DEF Lone
<1> QED BY <1>1, <1>2, <1>3, <1>4, <1>5 DEF Lone

\* A step of writer w on another body keeps Lone(b) too: it touches no file of
\* b, and no program but w's.
LEMMA LoneElsewhere ==
    ASSUME TypeOK, NEW b \in Bodies, Lone(b), NEW w \in Writers, body[w] # b,
           body' = body,
           b \in DOMAIN hold' <=> b \in DOMAIN hold, b \in DOMAIN hold => hold'[b] = hold[b],
           b \in DOMAIN incoming' <=> b \in DOMAIN incoming,
           b \in DOMAIN incoming => incoming'[b] = incoming[b],
           \A v \in Writers \ {w} :
               body[v] = b => pc'[v] = pc[v] /\ next'[v] = next[v] /\ at'[v] = at[v]
    PROVE  Lone(b)'
<1> USE DEF Writers
<1>1. (b \in DOMAIN hold => hold[b] = Chunks(b))'
  BY DEF Lone, Chunks
<1>2. OneStores(b)'
  BY DEF Lone, OneStores, Storing
<1>3. PartGrows(b)'
  BY DEF Lone, PartGrows, TypeOK, OpenFilesOK
<1>4. PartWhole(b)'
  BY DEF Lone, PartWhole, Chunks
<1>5. (\A s \in Syncs : ~ (body[s] = b /\ pc[s] = "write"))'
  BY DEF Lone
<1> QED BY <1>1, <1>2, <1>3, <1>4, <1>5 DEF Lone

\* Every step keeps Lone(b) or makes b contended (store_body, sync_stream).
LEMMA LoneStep ==
    ASSUME TypeOK, [Next]_vars, NEW b \in Bodies \ contended', Lone(b)
    PROVE  Lone(b)'
<1> USE StoreAssumption DEF Writers, TypeOK, ProgramsOK
<1>1. ASSUME NEW t \in Handlers, NEW c \in Bodies, Push(t, c) PROVE Lone(b)'
  BY <1>1, LoneKept DEF Push, Goto
<1>2. ASSUME NEW t \in Handlers, Visit(t) \/ Admit(t) \/ Stat(t) PROVE Lone(b)'
  BY <1>2, LoneKept DEF Visit, Admit, Stat, Goto, files
<1>3. ASSUME NEW t \in Handlers, OpenPart(t) PROVE Lone(b)'
  <2>1. CASE body[t] # b
    BY <1>3, <2>1, LoneElsewhere DEF OpenPart, Goto, With, FilesOK, OpenFilesOK
  <2>2. CASE body[t] = b
    <3>1. \A u \in Handlers : ~ Storing(u, b)
      BY <1>3, <2>2 DEF OpenPart, Storing
    <3>2. (b \in DOMAIN hold => hold[b] = Chunks(b))'
      BY <1>3 DEF OpenPart, Lone, Chunks
    <3>3. OneStores(b)'
      BY <1>3, <3>1 DEF OpenPart, OneStores, Storing, Goto
    <3>4. PartGrows(b)'
      <4>1. incoming'[b] = {} /\ next'[t] = 1 /\ at'[t] = "incoming"
        BY <1>3, <2>2 DEF OpenPart, With, OpenFilesOK
      <4>2. \A u \in Handlers : body'[u] = b /\ pc'[u] = "write" => u = t
        BY <1>3, <3>1 DEF OpenPart, Storing, Goto
      <4> QED BY <4>1, <4>2 DEF PartGrows
    <3>5. PartWhole(b)'
      BY <1>3, <3>1 DEF OpenPart, PartWhole, Storing, Goto
    <3>6. (\A s \in Syncs : ~ (body[s] = b /\ pc[s] = "write"))'
      BY <1>3 DEF OpenPart, Lone, Goto
    <3> QED BY <3>2, <3>3, <3>4, <3>5, <3>6 DEF Lone
  <2> QED BY <2>1, <2>2
<1>4. ASSUME NEW t \in Handlers, Rename(t) PROVE Lone(b)'
  <2>1. CASE body[t] # b /\ at' = Renamed(body[t])
    <3>1. \A v \in Writers : body[v] = b => at'[v] = at[v]
      BY <2>1 DEF Renamed
    <3> QED BY <1>4, <2>1, <3>1, LoneElsewhere DEF Rename, Goto, With, Without, files
  <2>2. CASE body[t] = b /\ at' = Renamed(body[t])
    <3>1. \A u \in Handlers : ~ Storing(u, b)'
      BY <1>4, <2>2 DEF Rename, Goto, Storing, Lone, OneStores
    <3>2. (b \in DOMAIN hold => hold[b] = Chunks(b))'
      BY <1>4, <2>2 DEF Rename, With, Lone, PartWhole, Chunks, files
    <3>3. (\A s \in Syncs : ~ (body[s] = b /\ pc[s] = "write"))'
      BY <1>4 DEF Rename, Goto, Lone
    <3> QED BY <3>1, <3>2, <3>3 DEF Lone, OneStores, PartGrows, PartWhole, Storing
  <2>3. CASE at' = at /\ UNCHANGED files
    BY <1>4, <2>3, LoneKept DEF Rename, Goto
  <2> QED BY <1>4, <2>1, <2>2, <2>3 DEF Rename
<1>5. ASSUME NEW t \in Handlers, Unlink(t) PROVE Lone(b)'
  <2>1. CASE body[t] # b
    BY <1>5, <2>1, LoneElsewhere DEF Unlink, Goto, Without, OpenFilesOK
  <2>2. CASE body[t] = b
    <3>0. b \notin DOMAIN incoming'
      BY <1>5, <2>2 DEF Unlink, Without
    <3>1. \A u \in Handlers : Storing(u, b)' => Storing(u, b) /\ pc'[u] = pc[u]
      BY <1>5 DEF Unlink, Goto, Storing
    <3>2. (b \in DOMAIN hold => hold[b] = Chunks(b))'
      BY <1>5 DEF Unlink, Lone, Chunks
    <3>3. OneStores(b)'
      BY <3>1 DEF Lone, OneStores
    <3>4. PartGrows(b)'
      BY <1>5, <2>2, <3>0, <3>1 DEF Unlink, PartGrows, Lone, Storing, OpenFilesOK
    <3>5. PartWhole(b)'
      BY <3>0 DEF PartWhole
    <3>6. (\A s \in Syncs : ~ (body[s] = b /\ pc[s] = "write"))'
      BY <1>5 DEF Unlink, Lone, Goto
    <3> QED BY <3>2, <3>3, <3>4, <3>5, <3>6 DEF Lone
  <2> QED BY <2>1, <2>2
<1>6. ASSUME NEW s \in Syncs, NEW c \in Bodies, SyncMissing(s, c) PROVE Lone(b)'
  BY <1>6, LoneKept DEF SyncMissing, Goto
<1>7. ASSUME NEW s \in Syncs, SyncGivesUp(s) PROVE Lone(b)'
  BY <1>7, LoneKept DEF SyncGivesUp, Goto
<1>8. ASSUME NEW s \in Syncs, SyncOpen(s) PROVE Lone(b)'
  <2>1. body[s] # b
    BY <1>8 DEF SyncOpen
  <2> QED BY <1>8, <2>1, LoneElsewhere DEF SyncOpen, Goto, With, OpenFilesOK
<1>9. ASSUME NEW w \in Writers, Write(w) PROVE Lone(b)'
  <2>1. CASE body[w] # b
    BY <1>9, <2>1, LoneElsewhere DEF Write, FilesOK, OpenFilesOK
  <2>2. CASE body[w] = b
    <3>1. w \in Handlers /\ Storing(w, b)
      BY <1>9, <2>2 DEF Write, Lone, Storing
    <3>2. at[w] \in {"incoming", "unlinked"} /\ hold' = hold
      BY <1>9, <2>2, <3>1 DEF Write, Lone, PartGrows
    <3>3. (b \in DOMAIN hold => hold[b] = Chunks(b))'
      BY <3>2 DEF Lone, Chunks
    <3>4. OneStores(b)'
      BY <1>9 DEF Write, Lone, OneStores, Storing
    <3>5. \A u \in Handlers : body'[u] = b /\ pc'[u] \in {"write", "rename"} => u = w
      BY <1>9, <3>1 DEF Write, Lone, OneStores, Storing
    <3>6. PartGrows(b)'
      <4>1. CASE at[w] = "incoming"
        <5>1. incoming[b] = 1..(next[w] - 1) /\ next[w] \in Nat \ {0}
          BY <1>9, <2>2, <3>1, <4>1 DEF Write, Lone, PartGrows, OpenFilesOK
        <5>2. incoming'[b] = incoming[b] \cup {next[w]}
          BY <1>9, <2>2, <4>1 DEF Write, FilesOK, OpenFilesOK
        <5>3. next'[w] = next[w] + 1 /\ at'[w] = "incoming"
          BY <1>9, <4>1 DEF Write, OpenFilesOK
        <5>4. incoming'[b] = 1..(next'[w] - 1)
          BY <5>1, <5>2, <5>3
        <5> QED BY <3>5, <5>3, <5>4 DEF PartGrows
      <4>2. CASE at[w] = "unlinked"
        BY <1>9, <2>2, <3>1, <3>5, <4>2 DEF Write, Lone, PartGrows
      <4> QED BY <3>2, <4>1, <4>2
    <3>7. PartWhole(b)'
      BY <1>9, <3>5 DEF Write, PartWhole
    <3>8. (\A s \in Syncs : ~ (body[s] = b /\ pc[s] = "write"))'
      BY <1>9 DEF Write, Lone
    <3> QED BY <3>3, <3>4, <3>6, <3>7, <3>8 DEF Lone
  <2> QED BY <2>1, <2>2
<1>10. ASSUME NEW w \in Writers, Close(w) PROVE Lone(b)'
  <2>1. CASE body[w] # b
    BY <1>10, <2>1, LoneElsewhere DEF Close, Closed, Goto, files
  <2>2. CASE body[w] = b
    <3>1. w \in Handlers /\ Storing(w, b)
      BY <1>10, <2>2 DEF Close, Lone, Storing
    <3>2. (b \in DOMAIN hold => hold[b] = Chunks(b))'
      BY <1>10 DEF Close, Lone, Chunks, files
    <3>3. \A u \in Handlers : Storing(u, b)' => u = w /\ pc'[u] = "rename"
      BY <1>10, <3>1 DEF Close, Lone, OneStores, Storing, Goto, AfterWrite
    <3>4. OneStores(b)' /\ PartGrows(b)'
      BY <3>3 DEF OneStores, PartGrows, Storing
    <3>5. b \in DOMAIN incoming => incoming[b] = Chunks(b)
      <4>1. next[w] = Size[b] + 1
        BY <1>10, <2>2 DEF Close, OpenFilesOK
      <4> QED BY <1>10, <2>2, <3>1, <4>1 DEF Close, Lone, PartGrows, Chunks
    <3>6. PartWhole(b)'
      BY <1>10, <3>5 DEF Close, PartWhole, Chunks, files
    <3>7. (\A s \in Syncs : ~ (body[s] = b /\ pc[s] = "write"))'
      BY <1>10 DEF Close, Lone, Goto, AfterWrite
    <3> QED BY <3>2, <3>4, <3>6, <3>7 DEF Lone
  <2> QED BY <2>1, <2>2
<1>11. ASSUME NEW w \in Writers, WriteFails(w) PROVE Lone(b)'
  BY <1>11, LoneKept DEF WriteFails, Closed, Goto, OpenFilesOK
<1>12. ASSUME NodeDies PROVE Lone(b)'
  BY <1>12, LoneKept DEF NodeDies
<1>13. CASE UNCHANGED vars
  BY <1>13, LoneKept DEF vars
<1> QED BY <1>1, <1>2, <1>3, <1>4, <1>5, <1>6, <1>7, <1>8, <1>9, <1>10, <1>11, <1>12, <1>13
        DEF Next, Handle, Sync

\* A body in the hold that is not whole was written by two pushes at once or by
\* a sync, whatever fails and whenever the node dies (store_body 226-239).
THEOREM LonePushIsWhole == Spec => []HalfWrittenOnlyByRace
<1>1. Init => LoneIsWhole
  BY DEF Init, NoFiles, LoneIsWhole, Lone, OneStores, PartGrows, PartWhole, Storing, Writers
<1>2. TypeOK /\ LoneIsWhole /\ [Next]_vars => LoneIsWhole'
  <2> SUFFICES ASSUME TypeOK, LoneIsWhole, [Next]_vars, NEW b \in Bodies \ contended'
               PROVE  Lone(b)'
    BY DEF LoneIsWhole
  <2>1. contended \subseteq contended'
    BY DEF Next, Handle, Sync, Push, Visit, Admit, Stat, OpenPart, Rename, Unlink, SyncMissing,
           SyncGivesUp, SyncOpen, Write, Close, WriteFails, NodeDies, vars
  <2>2. Lone(b)
    BY <2>1 DEF LoneIsWhole
  <2> QED BY <2>2, LoneStep
<1>3. TypeOK /\ LoneIsWhole => HalfWrittenOnlyByRace
  BY DEF TypeOK, FilesOK, LoneIsWhole, Lone, HalfWrittenOnlyByRace, Servable
<1> QED BY <1>1, <1>2, <1>3, TypeCorrect, PTL DEF Spec

-----------------------------------------------------------------------------
(* Without faults, what is not whole is being written. *)

\* The file called `name` of body b is whole, or has a writer who completes it.
Kept(name, b, content) ==
    content = Chunks(b) \/ \E w \in Writers : Completes(w, name, b, content)

\* The inductive strengthening of PartialHasWriter: also the .part files, which
\* a rename makes visible at any time.
HoldKept == \A b \in DOMAIN hold : Kept("hold", b, hold[b])
PartKept == \A b \in DOMAIN incoming : Kept("incoming", b, incoming[b])

\* One more chunk written, by the writer who completes the file or another
\* (a write call of fs::write, 234 and 800).
LEMMA OneMore ==
    ASSUME NEW b \in Bodies, NEW n \in Nat, NEW m \in {n, n + 1},
           NEW content, NEW newContent, content \subseteq newContent,
           Chunks(b) \ content \subseteq n..Size[b],
           m = n \/ n \in newContent
    PROVE  Chunks(b) \ newContent \subseteq m..Size[b]
BY StoreAssumption DEF Chunks

\* A step after which every writer still writes what it wrote, and every file
\* is what it was (all but those of fs::write, fs::rename, remove_file).
LEMMA KeptQuietly ==
    ASSUME TypeOK, HoldKept, PartKept, UNCHANGED files,
           \A w \in Writers : pc[w] = "write" =>
               pc'[w] = "write" /\ at'[w] = at[w] /\ body'[w] = body[w] /\ next'[w] = next[w]
    PROVE  HoldKept' /\ PartKept'
BY DEF HoldKept, PartKept, Kept, Completes, Chunks, files

\* Without faults, every step keeps whole or in writing what is (store_body,
\* sync_stream).
LEMMA KeptNext ==
    ASSUME ~ Faults, TypeOK, HoldKept, PartKept, [Next]_vars
    PROVE  HoldKept' /\ PartKept'
<1> USE StoreAssumption DEF Writers, ProgramsOK
<1>1. ASSUME NEW t \in Handlers, NEW c \in Bodies, Push(t, c) PROVE HoldKept' /\ PartKept'
  BY <1>1, KeptQuietly DEF Push, Goto, TypeOK
<1>2. ASSUME NEW t \in Handlers, Visit(t) \/ Admit(t) \/ Stat(t) PROVE HoldKept' /\ PartKept'
  BY <1>2, KeptQuietly DEF Visit, Admit, Stat, Goto, TypeOK, files
<1>3. ASSUME NEW s \in Syncs, SyncGivesUp(s) \/ \E c \in Bodies : SyncMissing(s, c)
      PROVE  HoldKept' /\ PartKept'
  BY <1>3, KeptQuietly DEF SyncMissing, SyncGivesUp, Goto, TypeOK
<1>4. ASSUME NEW t \in Handlers, Rename(t), at' = at /\ UNCHANGED files
      PROVE  HoldKept' /\ PartKept'
  BY <1>4, KeptQuietly DEF Rename, Goto, TypeOK
<1>5. ASSUME NEW t \in Handlers, OpenPart(t) PROVE HoldKept' /\ PartKept'
  <2>1. HoldKept'
    BY <1>5 DEF OpenPart, Goto, TypeOK, OpenFilesOK, HoldKept, Kept, Completes, Chunks
  <2>2. ASSUME NEW b \in DOMAIN incoming', b # body[t] PROVE Kept("incoming", b, incoming[b])'
    <3>1. b \in DOMAIN incoming /\ incoming'[b] = incoming[b]
      BY <1>5, <2>2 DEF OpenPart, With
    <3> QED BY <1>5, <2>2, <3>1 DEF OpenPart, Goto, TypeOK, OpenFilesOK, PartKept, Kept, Completes, Chunks
  <2>3. Kept("incoming", body[t], {})'
    <3>1. Completes(t, "incoming", body[t], {})'
      BY <1>5 DEF OpenPart, Goto, TypeOK, OpenFilesOK, Completes, Chunks
    <3> QED BY <3>1 DEF Kept
  <2>4. incoming'[body[t]] = {}
    BY <1>5 DEF OpenPart, With
  <2>5. body' = body
    BY <1>5 DEF OpenPart
  <2> QED BY <2>1, <2>2, <2>3, <2>4, <2>5 DEF PartKept
<1>6. ASSUME NEW s \in Syncs, SyncOpen(s) PROVE HoldKept' /\ PartKept'
  <2>1. PartKept'
    BY <1>6 DEF SyncOpen, Goto, TypeOK, OpenFilesOK, PartKept, Kept, Completes, Chunks
  <2>2. ASSUME NEW b \in DOMAIN hold', b # body[s] PROVE Kept("hold", b, hold[b])'
    <3>1. b \in DOMAIN hold /\ hold'[b] = hold[b]
      BY <1>6, <2>2 DEF SyncOpen, With
    <3> QED BY <1>6, <2>2, <3>1 DEF SyncOpen, Goto, TypeOK, OpenFilesOK, HoldKept, Kept, Completes, Chunks
  <2>3. Kept("hold", body[s], {})'
    <3>1. Completes(s, "hold", body[s], {})'
      BY <1>6 DEF SyncOpen, Goto, TypeOK, OpenFilesOK, Completes, Chunks
    <3> QED BY <3>1 DEF Kept
  <2>4. hold'[body[s]] = {}
    BY <1>6 DEF SyncOpen, With
  <2>5. body' = body
    BY <1>6 DEF SyncOpen
  <2> QED BY <2>1, <2>2, <2>3, <2>4, <2>5 DEF HoldKept
<1>7. ASSUME NEW t \in Handlers, Rename(t), at' = Renamed(body[t]), body[t] \in DOMAIN incoming,
             hold' = With(hold, body[t], incoming[body[t]]),
             incoming' = Without(incoming, body[t])
      PROVE  HoldKept' /\ PartKept'
  <2>2. UNCHANGED <<body, next>> /\ \A w \in Writers : pc[w] = "write" => pc'[w] = "write"
    BY <1>7 DEF Rename, Goto, TypeOK
  <2>3. \A w \in Writers : body[w] # body[t] => at'[w] = at[w]
    BY <1>7 DEF Renamed
  <2>4. \A w \in Writers : body[w] = body[t] /\ at[w] = "incoming" => at'[w] = "hold"
    BY <1>7 DEF Renamed
  <2>5. ASSUME NEW b \in DOMAIN hold', b # body[t] PROVE Kept("hold", b, hold[b])'
    <3>1. b \in DOMAIN hold /\ hold'[b] = hold[b]
      BY <1>7, <2>5 DEF With
    <3> QED BY <2>2, <2>3, <2>5, <3>1 DEF HoldKept, Kept, Completes, Chunks
  <2>7. hold'[body[t]] = incoming[body[t]]
    BY <1>7 DEF With
  <2>8. \/ incoming[body[t]] = Chunks(body[t])
        \/ \E w \in Writers : Completes(w, "hold", body[t], hold[body[t]])'
    BY <1>7, <2>2, <2>4, <2>7 DEF PartKept, Kept, Completes, Chunks
  <2>9. Kept("hold", body[t], hold[body[t]])'
    BY <2>2, <2>7, <2>8 DEF Kept, Chunks
  <2>10. HoldKept'
    BY <2>2, <2>5, <2>9 DEF HoldKept
  <2>11. ASSUME NEW b \in DOMAIN incoming' PROVE Kept("incoming", b, incoming[b])'
    <3>1. b \in DOMAIN incoming /\ b # body[t] /\ incoming'[b] = incoming[b]
      BY <1>7, <2>11 DEF Without
    <3> QED BY <2>2, <2>3, <3>1 DEF PartKept, Kept, Completes, Chunks
  <2> QED BY <2>10, <2>11 DEF PartKept
<1>8. ASSUME NEW t \in Handlers, Unlink(t) PROVE HoldKept' /\ PartKept'
  <2>1. HoldKept'
    BY <1>8 DEF Unlink, Goto, TypeOK, OpenFilesOK, HoldKept, Kept, Completes, Chunks
  <2>2. ASSUME NEW b \in DOMAIN incoming' PROVE Kept("incoming", b, incoming[b])'
    <3>1. b \in DOMAIN incoming /\ b # body[t] /\ incoming'[b] = incoming[b]
      BY <1>8, <2>2 DEF Unlink, Without
    <3> QED BY <1>8, <3>1 DEF Unlink, Goto, TypeOK, OpenFilesOK, PartKept, Kept, Completes, Chunks
  <2> QED BY <2>1, <2>2 DEF PartKept
<1>9. ASSUME NEW w \in Writers, Write(w) PROVE HoldKept' /\ PartKept'
  <2>1. \A v \in Writers : pc[v] = "write" =>
           /\ pc'[v] = "write" /\ at'[v] = at[v] /\ body'[v] = body[v] /\ next[v] \in Nat
           /\ \/ v # w /\ next'[v] = next[v]
              \/ v = w /\ next'[v] = next[v] + 1
    BY <1>9 DEF Write, TypeOK, OpenFilesOK
  <2>2. HoldKept'
    <3> SUFFICES ASSUME NEW b \in DOMAIN hold' PROVE Kept("hold", b, hold[b])'
      BY DEF HoldKept
    <3>1. b \in DOMAIN hold /\ b \in Bodies /\ hold[b] \subseteq hold'[b]
      BY <1>9 DEF Write, TypeOK, FilesOK
    <3>2. hold'[b] \in SUBSET Chunks(b)
      BY TypeStep DEF TypeOK, FilesOK, Chunks
    <3>3. CASE hold[b] = Chunks(b)
      BY <3>1, <3>2, <3>3 DEF Kept, Chunks
    <3>4. ASSUME NEW v \in Writers, Completes(v, "hold", b, hold[b])
          PROVE  Completes(v, "hold", b, hold[b])'
      <4>1. v = w => next[v] \in hold'[b]
        BY <1>9, <3>1, <3>4 DEF Write, Completes
      <4>2. Chunks(b) \ hold'[b] \subseteq next'[v]..Size[b]
        BY <2>1, <3>1, <3>4, <4>1, OneMore DEF Completes
      <4> QED BY <2>1, <3>4, <4>2 DEF Completes, Chunks
    <3> QED BY <3>1, <3>3, <3>4 DEF HoldKept, Kept
  <2>3. PartKept'
    <3> SUFFICES ASSUME NEW b \in DOMAIN incoming' PROVE Kept("incoming", b, incoming[b])'
      BY DEF PartKept
    <3>1. b \in DOMAIN incoming /\ b \in Bodies /\ incoming[b] \subseteq incoming'[b]
      BY <1>9 DEF Write, TypeOK, FilesOK
    <3>2. incoming'[b] \in SUBSET Chunks(b)
      BY TypeStep DEF TypeOK, FilesOK, Chunks
    <3>3. CASE incoming[b] = Chunks(b)
      BY <3>1, <3>2, <3>3 DEF Kept, Chunks
    <3>4. ASSUME NEW v \in Writers, Completes(v, "incoming", b, incoming[b])
          PROVE  Completes(v, "incoming", b, incoming[b])'
      <4>1. v = w => next[v] \in incoming'[b]
        BY <1>9, <3>1, <3>4 DEF Write, Completes
      <4>2. Chunks(b) \ incoming'[b] \subseteq next'[v]..Size[b]
        BY <2>1, <3>1, <3>4, <4>1, OneMore DEF Completes
      <4> QED BY <2>1, <3>4, <4>2 DEF Completes, Chunks
    <3> QED BY <3>1, <3>3, <3>4 DEF PartKept, Kept
  <2> QED BY <2>2, <2>3
<1>10. ASSUME NEW w \in Writers, Close(w) PROVE HoldKept' /\ PartKept'
  <2>1. \A v \in Writers \ {w} :
           pc'[v] = pc[v] /\ at'[v] = at[v] /\ body'[v] = body[v] /\ next'[v] = next[v]
    BY <1>10 DEF Close, Closed, Goto, TypeOK, OpenFilesOK
  <2>2. ASSUME NEW b \in Bodies, NEW name, NEW content \in SUBSET Chunks(b),
               Completes(w, name, b, content)
        PROVE  content = Chunks(b)
    <3>1. next[w] > Size[b] /\ next[w] \in Nat /\ Size[b] \in Nat
      BY <1>10, <2>2 DEF Close, Completes, TypeOK, OpenFilesOK
    <3>2. Chunks(b) \ content = {}
      BY <2>2, <3>1 DEF Completes
    <3> QED BY <3>2
  <2>3. UNCHANGED files
    BY <1>10 DEF Close
  <2>4. HoldKept'
    <3> SUFFICES ASSUME NEW b \in DOMAIN hold PROVE Kept("hold", b, hold[b])'
      BY <2>3 DEF HoldKept, files
    <3>1. b \in Bodies /\ hold[b] \in SUBSET Chunks(b) /\ Kept("hold", b, hold[b])
      BY DEF TypeOK, FilesOK, HoldKept
    <3>2. hold[b] = Chunks(b) \/ \E v \in Writers \ {w} : Completes(v, "hold", b, hold[b])
      BY <3>1, <2>2 DEF Kept
    <3> QED BY <2>1, <2>3, <3>2 DEF Kept, Completes, Chunks, files
  <2>5. PartKept'
    <3> SUFFICES ASSUME NEW b \in DOMAIN incoming PROVE Kept("incoming", b, incoming[b])'
      BY <2>3 DEF PartKept, files
    <3>1. b \in Bodies /\ incoming[b] \in SUBSET Chunks(b) /\ Kept("incoming", b, incoming[b])
      BY DEF TypeOK, FilesOK, PartKept
    <3>2. \/ incoming[b] = Chunks(b)
          \/ \E v \in Writers \ {w} : Completes(v, "incoming", b, incoming[b])
      BY <3>1, <2>2 DEF Kept
    <3> QED BY <2>1, <2>3, <3>2 DEF Kept, Completes, Chunks, files
  <2> QED BY <2>4, <2>5
<1>11. CASE UNCHANGED vars
  BY <1>11, KeptQuietly DEF vars
<1>12. ASSUME NEW t \in Handlers, Rename(t) PROVE HoldKept' /\ PartKept'
  BY <1>4, <1>7, <1>12 DEF Rename
<1> QED BY <1>1, <1>2, <1>3, <1>5, <1>6, <1>8, <1>9, <1>10, <1>11, <1>12
        DEF Next, Handle, Sync, WriteFails, NodeDies

\* When no write fails and nobody dies, a body in the hold that cannot be
\* served is being completed, for any number of handlers, sync processes and
\* bodies (store_body 226-235, sync_stream 771-800).
THEOREM PartialIsInWriting == ~ Faults => (Spec => []PartialHasWriter)
<1> SUFFICES ASSUME ~ Faults PROVE Spec => []PartialHasWriter
  OBVIOUS
<1>1. Init => HoldKept /\ PartKept
  BY DEF Init, NoFiles, HoldKept, PartKept
<1>2. TypeOK /\ HoldKept /\ PartKept /\ [Next]_vars => HoldKept' /\ PartKept'
  BY KeptNext
<1>3. HoldKept => PartialHasWriter
  BY DEF HoldKept, Kept, PartialHasWriter, Servable
<1> QED BY <1>1, <1>2, <1>3, TypeCorrect, PTL DEF Spec
-----------------------------------------------------------------------------
(* The quota.  A walk of the hold counts what is there when it begins, so   *)
(* that of the handlers that were ever admitted the one whose walk began    *)
(* last has counted all of it but, for each other handler, the one body     *)
(* that this handler was storing by then.                                   *)

Units(B) == UNION {{b} \X Chunks(b) : b \in B}
InFlight == {"stat", "open", "write", "rename", "unlink"}
Flying(u) == pc[u] \in InFlight

LEMMA UnitsAt ==
    ASSUME NEW B, NEW x
    PROVE  x \in Units(B) <=> \E b \in B : x \in {b} \X Chunks(b)
  BY DEF Units

LEMMA StoredAt ==
    ASSUME NEW x
    PROVE  x \in Stored <=> \E b \in Bodies : x \in {b} \X (1..Weight(b))
  BY DEF Stored

\* No body is larger than the largest.
LEMMA LargestBounds ==
    ASSUME Bodies # {}
    PROVE  Largest \in Nat /\ \A b \in Bodies : Size[b] <= Largest
<1> DEFINE f == [b \in Bodies |-> 1..Size[b]]
           R == {f[b] : b \in Bodies}
           n == Cardinality(UNION R)
           T == {Size[b] : b \in Bodies}
<1>1. \A b \in Bodies : Size[b] \in Nat /\ Size[b] # 0
  BY StoreAssumption
<1>2. f \in Surjection(Bodies, R)
  BY DEF Surjection
<1>3. IsFiniteSet(R)
  BY <1>2, FS_Surjection, FiniteAssumption
<1>4. \A S \in R : IsFiniteSet(S)
  <2> SUFFICES ASSUME NEW b \in Bodies PROVE IsFiniteSet(1..Size[b])
    OBVIOUS
  <2>1. 1 \in Int /\ Size[b] \in Int
    BY <1>1
  <2> QED BY <2>1, FS_Interval
<1>5. IsFiniteSet(UNION R) /\ n \in Nat
  BY <1>3, <1>4, FS_UNION, FS_CardinalityType
<1>6. ASSUME NEW b \in Bodies PROVE Size[b] \in 1..n
  <2>1. f[b] \in SUBSET (UNION R) /\ f[b] = 1..Size[b]
    OBVIOUS
  <2>2. Cardinality(1..Size[b]) <= n
    BY <1>5, <2>1, FS_Subset
  <2>3. Cardinality(1..Size[b]) = Size[b]
    BY <1>1, FS_Interval
  <2> HIDE DEF n
  <2> QED BY <1>1, <1>5, <2>2, <2>3
<1> HIDE DEF n
<1>7. T \subseteq 1..n /\ T # {}
  BY <1>6
<1> HIDE DEF T
<1>8. PICK x \in T : \A y \in T : y <= x
  BY <1>5, <1>7, HasGreatest
<1>9. \A y \in T : x >= y /\ y \in Nat /\ x \in Nat
  BY <1>5, <1>7, <1>8
<1>10. Max(T) \in T /\ \A y \in T : Max(T) >= y
  BY <1>9 DEF Max
<1>11. Largest = Max(T)
  BY DEF Largest, T
<1> HIDE DEF Max
<1> QED BY <1>7, <1>9, <1>10, <1>11 DEF T

LEMMA LengthAt ==
    ASSUME NEW b \in Bodies, NEW content \in SUBSET Chunks(b)
    PROVE  Length(content) \in 0..Size[b]
<1>1. Size[b] \in Nat /\ content \in SUBSET (1..Size[b])
  BY StoreAssumption DEF Chunks
<1>2. content # {} => Max(content) \in 1..Size[b]
  BY <1>1, LastChunk
<1> HIDE DEF Max
<1> QED BY <1>1, <1>2 DEF Length

\* All of the hold is within its bodies.
LEMMA StoredFinite ==
    ASSUME FilesOK
    PROVE  IsFiniteSet(Stored) /\ Stored \subseteq Units(Bodies) /\ IsFiniteSet(Units(Bodies))
<1>1. \A b \in Bodies : Weight(b) \in 0..Size[b] /\ Size[b] \in Nat
  <2> SUFFICES ASSUME NEW b \in Bodies PROVE Weight(b) \in 0..Size[b] /\ Size[b] \in Nat
    OBVIOUS
  <2>1. Size[b] \in Nat /\ 0 \in 0..Size[b]
    BY StoreAssumption
  <2>2. b \in DOMAIN hold => Length(hold[b]) \in 0..Size[b]
    BY LengthAt DEF FilesOK
  <2> QED BY <2>1, <2>2 DEF Weight
<1>2. Stored \subseteq Units(Bodies)
  <2> SUFFICES ASSUME NEW b \in Bodies, NEW i \in 1..Weight(b) PROVE <<b, i>> \in Units(Bodies)
    BY DEF Stored
  <2>1. i \in Chunks(b)
    BY <1>1 DEF Chunks
  <2> QED BY <2>1 DEF Units
<1>3. IsFiniteSet(Units(Bodies))
  <2>1. CASE Bodies = {}
    <3>1. Units(Bodies) = {}
      BY <2>1 DEF Units
    <3> QED BY <3>1, FS_EmptySet
  <2>2. CASE Bodies # {}
    <3> DEFINE top == 1..Largest
    <3>0. 1 \in Int /\ Largest \in Int
      BY <2>2, LargestBounds
    <3>a. IsFiniteSet(top)
      BY <3>0, FS_Interval
    <3> HIDE DEF top
    <3>b. IsFiniteSet(Bodies \X top)
      BY <3>a, FiniteAssumption, FS_Product
    <3>1. IsFiniteSet(Bodies \X (1..Largest))
      BY <3>b DEF top
    <3>2. Units(Bodies) \subseteq Bodies \X (1..Largest)
      BY <1>1, <2>2, LargestBounds DEF Units, Chunks
    <3> QED BY <3>1, <3>2, FS_Subset
  <2> QED BY <2>1, <2>2
<1> QED BY <1>2, <1>3, FS_Subset

\* A body takes its weight.
LEMMA UnitsOf ==
    ASSUME NEW b, NEW n \in Nat
    PROVE  IsFiniteSet({b} \X (1..n)) /\ Cardinality({b} \X (1..n)) = n
<1>1. IsFiniteSet({b}) /\ Cardinality({b}) = 1
  BY FS_Singleton
<1> DEFINE N == 1..n
<1>2. IsFiniteSet(N) /\ Cardinality(N) = n
  BY FS_Interval
<1> HIDE DEF N
<1>3. IsFiniteSet({b} \X N) /\ Cardinality({b} \X N) = Cardinality({b}) * Cardinality(N)
  BY <1>1, <1>2, FS_Product
<1>4. 1 * n = n
  OBVIOUS
<1>5. IsFiniteSet({b} \X N) /\ Cardinality({b} \X N) = n
  BY <1>1, <1>2, <1>3, <1>4
<1> QED BY <1>5 DEF N

LEMMA Fewer ==
    ASSUME NEW S, IsFiniteSet(S), NEW T, T \subseteq S, NEW n \in Nat, Cardinality(S) <= n
    PROVE  IsFiniteSet(T) /\ Cardinality(T) <= n /\ Cardinality(T) \in Nat
<1>1. IsFiniteSet(T) /\ Cardinality(T) <= Cardinality(S)
  BY FS_Subset
<1>2. Cardinality(T) \in Nat /\ Cardinality(S) \in Nat
  BY <1>1, FS_CardinalityType
<1> QED BY <1>1, <1>2

LEMMA Joined ==
    ASSUME NEW S, NEW T, IsFiniteSet(S), IsFiniteSet(T)
    PROVE  /\ IsFiniteSet(S \cup T) /\ Cardinality(S \cup T) <= Cardinality(S) + Cardinality(T)
           /\ Cardinality(S) \in Nat /\ Cardinality(T) \in Nat /\ Cardinality(S \cup T) \in Nat
<1>0. IsFiniteSet(S \cap T)
  <2>1. S \cap T \in SUBSET S
    OBVIOUS
  <2> QED BY <2>1, FS_Subset
<1>1. IsFiniteSet(S \cup T)
  BY FS_Union
<1>2. /\ Cardinality(S) \in Nat /\ Cardinality(T) \in Nat /\ Cardinality(S \cap T) \in Nat
      /\ Cardinality(S \cup T) \in Nat
  BY <1>0, <1>1, FS_CardinalityType
<1>3. Cardinality(S \cup T) = Cardinality(S) + Cardinality(T) - Cardinality(S \cap T)
  BY FS_Union
<1> QED BY <1>1, <1>2, <1>3

\* What a handler may have stored since a walk began: nothing or one body.
One == {{}} \cup {{b} : b \in Bodies}
Others(c, t) == UNION {c[u] : u \in Handlers \ {t}}
Claiming(c) == {u \in Handlers : c[u] # {}}
Covers(c) == \A u \in Handlers : Flying(u) => c[u] = {body[u]}

\* All that is there, and what handler k may add, fits but for what the others
\* may have stored since k's walk began.
Room(base, k) == Cardinality((Stored \cup Units(base[k])) \ Units(Others(base, k))) <= MaxStore
\* So far, a walk has counted what it has passed but for that.
Counted(t, c) == Cardinality({x \in Stored : x[1] \notin left[t]} \ Units(Others(c, t))) <= sum[t]
\* The walk of t began after that of u.
After(claims, t, u) == claims[t][u] = {} /\ Claiming(claims[t]) \subseteq Claiming(claims[u])

\* base is what may have been stored since the walk of k began, claims[t] the
\* same for t's walk under way.  A walk is not fresh when a handler was
\* admitted whose walk began later; then it began before that of k.
Account(base, k, fresh, claims) ==
    /\ k \in Handlers /\ base \in [Handlers -> One] /\ claims \in [Handlers -> [Handlers -> One]]
    /\ fresh \subseteq {t \in Handlers : pc[t] = "walk"}
    /\ Covers(base) /\ Room(base, k)
    /\ base[k] = {} => Stored = {} /\ Claiming(base) = {}
    /\ \A t \in Handlers : pc[t] = "walk" /\ t \notin fresh => base[t] = {}
    /\ \A t \in fresh :
          /\ Covers(claims[t]) /\ Counted(t, claims[t])
          /\ base[t] = {} \/ Claiming(claims[t]) \subseteq Claiming(base)
    /\ \A t, u \in fresh : t # u => After(claims, t, u) \/ After(claims, u, t)

QuotaInv == \E base, k, fresh, claims : Account(base, k, fresh, claims)

LEMMA OthersAt ==
    ASSUME NEW c, NEW t, NEW x
    PROVE  x \in Units(Others(c, t)) <=> \E u \in Handlers \ {t} : x \in Units(c[u])
  BY DEF Units, Others

LEMMA UnitsWithin ==
    ASSUME FilesOK, NEW B, B \subseteq Bodies
    PROVE  Units(B) \subseteq Units(Bodies) /\ IsFiniteSet(Units(B))
<1>1. Units(B) \subseteq Units(Bodies)
  BY DEF Units
<1> QED BY <1>1, StoredFinite, FS_Subset

LEMMA UnitsOfOne ==
    ASSUME NEW b \in Bodies
    PROVE  IsFiniteSet(Units({b})) /\ Cardinality(Units({b})) = Size[b] /\ Size[b] \in Nat
<1>1. Units({b}) = {b} \X (1..Size[b])
  BY DEF Units, Chunks
<1>2. Size[b] \in Nat
  BY StoreAssumption
<1>3. IsFiniteSet({b} \X (1..Size[b])) /\ Cardinality({b} \X (1..Size[b])) = Size[b]
  BY <1>2, UnitsOf
<1> QED BY <1>1, <1>2, <1>3

\* The others take no more than the largest body each.
LEMMA OthersBound ==
    ASSUME NEW c \in [Handlers -> One], NEW k \in Handlers, Bodies # {}
    PROVE  /\ IsFiniteSet(Units(Others(c, k)))
           /\ Cardinality(Units(Others(c, k))) <= (Cardinality(Handlers) - 1) * Largest
           /\ (Cardinality(Handlers) - 1) * Largest \in Nat
<1> DEFINE U == Units(Others(c, k))
           H == Handlers \ {k}
           L == 1..Largest
           owner(x) == CHOOSE u \in H : x \in Units(c[u])
           f == [x \in U |-> <<owner(x), x[2]>>]
<1>1. Largest \in Nat /\ \A b \in Bodies : Size[b] <= Largest /\ Size[b] \in Nat
  BY LargestBounds, StoreAssumption
<1>2. ASSUME NEW x \in U PROVE owner(x) \in H /\ x \in Units(c[owner(x)])
  BY OthersAt
<1>3. ASSUME NEW u \in H, NEW x \in Units(c[u])
      PROVE  /\ x[2] \in L
             /\ \A y \in Units(c[u]) : y[2] = x[2] => x = y
  <2>1. c[u] \in One
    OBVIOUS
  <2>2. PICK b \in c[u] : x \in {b} \X Chunks(b)
    BY UnitsAt
  <2>3. b \in Bodies /\ c[u] = {b}
    BY <2>1, <2>2 DEF One
  <2>4. x[2] \in Chunks(b) /\ x = <<b, x[2]>>
    BY <2>2
  <2>5. \A y \in Units(c[u]) : y = <<b, y[2]>>
    BY <2>3 DEF Units
  <2>6. x[2] \in L
    BY <1>1, <2>3, <2>4 DEF Chunks
  <2> QED BY <2>4, <2>5, <2>6
<1>4. IsFiniteSet(H) /\ Cardinality(H) = Cardinality(Handlers) - 1 /\ Cardinality(H) \in Nat
  BY FiniteAssumption, FS_RemoveElement, FS_CardinalityType
<1>5. IsFiniteSet(L) /\ Cardinality(L) = Largest
  <2>1. 1 \in Int /\ Largest \in Int
    BY <1>1
  <2> QED BY <1>1, <2>1, FS_Interval
<1> HIDE DEF U, H, L, owner
<1>6. f \in Injection(U, H \X L)
  <2>1. f \in [U -> H \X L]
    BY <1>2, <1>3
  <2>2. ASSUME NEW x \in U, NEW y \in U, f[x] = f[y] PROVE x = y
    <3>1. owner(x) = owner(y) /\ x[2] = y[2]
      BY <2>2
    <3> QED BY <1>2, <1>3, <3>1
  <2> HIDE DEF f
  <2>3. \A x, y \in U : f[x] = f[y] => x = y
    BY <2>2
  <2> QED BY <2>1, <2>3 DEF Injection, IsInjective
<1> HIDE DEF f
<1>7. IsFiniteSet(H \X L) /\ Cardinality(H \X L) = Cardinality(H) * Cardinality(L)
  BY <1>4, <1>5, FS_Product
<1>8. IsFiniteSet(U) /\ Cardinality(U) <= Cardinality(H \X L)
  BY <1>6, <1>7, FS_Injection
<1>9. Cardinality(H \X L) = (Cardinality(Handlers) - 1) * Largest
  BY <1>4, <1>5, <1>7
<1>10. Cardinality(H \X L) \in Nat
  BY <1>7, FS_CardinalityType
<1> QED BY <1>8, <1>9, <1>10 DEF U

\* The invariant bounds what is stored.
LEMMA AccountBounds ==
    ASSUME TypeOK, QuotaInv
    PROVE  Used <= MaxStore + (Cardinality(Handlers) - 1) * Largest
<1>1. PICK base, k, fresh, claims : Account(base, k, fresh, claims)
  BY DEF QuotaInv
<1>2. k \in Handlers /\ base \in [Handlers -> One] /\ Room(base, k)
  BY <1>1 DEF Account
<1>3. Bodies # {}
  BY <1>2 DEF TypeOK, ProgramsOK, Writers
<1> DEFINE V == (Stored \cup Units(base[k])) \ Units(Others(base, k))
           O == Units(Others(base, k))
           n == (Cardinality(Handlers) - 1) * Largest
<1>4. IsFiniteSet(O) /\ Cardinality(O) <= n /\ n \in Nat
  BY <1>2, <1>3, OthersBound
<1>5. IsFiniteSet(V) /\ Cardinality(V) <= MaxStore
  <2>1. IsFiniteSet(Stored) /\ base[k] \subseteq Bodies
    BY <1>2, StoredFinite DEF TypeOK, One
  <2>2. IsFiniteSet(Units(base[k]))
    BY <2>1, UnitsWithin DEF TypeOK
  <2>3. IsFiniteSet(Stored \cup Units(base[k]))
    BY <2>1, <2>2, Joined
  <2>4. V \subseteq Stored \cup Units(base[k])
    OBVIOUS
  <2> QED BY <1>2, <2>3, <2>4, FS_Subset DEF Room
<1>6. Stored \subseteq V \cup O
  OBVIOUS
<1> HIDE DEF V, O, n
<1>7. IsFiniteSet(V \cup O) /\ Cardinality(V \cup O) <= Cardinality(V) + Cardinality(O)
      /\ Cardinality(V) \in Nat /\ Cardinality(O) \in Nat /\ Cardinality(V \cup O) \in Nat
  BY <1>4, <1>5, Joined
<1>8. MaxStore \in Nat /\ MaxStore + n \in Nat
  BY <1>4, StoreAssumption
<1>9. Cardinality(V \cup O) <= MaxStore + n
  BY <1>4, <1>5, <1>7, <1>8
<1>10. Cardinality(Stored) <= MaxStore + n
  BY <1>6, <1>7, <1>8, <1>9, Fewer
<1> QED BY <1>10 DEF Used, n

\* Steps that admit nobody: what is stored changes only by those in flight,
\* and walks may end.
LEMMA AccountKept ==
    ASSUME TypeOK, TypeOK', NEW base, NEW k, NEW fresh, NEW claims, Account(base, k, fresh, claims),
           \A x \in Stored' : x \in Stored \/ \E u \in Handlers : Flying(u) /\ x \in Units({body[u]}),
           \A u \in Handlers : Flying(u)' => Flying(u) /\ body'[u] = body[u],
           \A t \in Handlers : pc'[t] = "walk" => pc[t] = "walk" /\ left'[t] = left[t] /\ sum'[t] = sum[t]
    PROVE  QuotaInv'
<1>0. PICK still : still = {t \in fresh : pc'[t] = "walk"}
  OBVIOUS
<1>1. /\ k \in Handlers /\ base \in [Handlers -> One] /\ claims \in [Handlers -> [Handlers -> One]]
      /\ fresh \subseteq {t \in Handlers : pc[t] = "walk"}
  BY DEF Account
<1>2. IsFiniteSet(Stored) /\ FilesOK
  BY StoredFinite DEF TypeOK
<1>3. ASSUME NEW c \in [Handlers -> One], NEW t \in Handlers, Covers(c)
      PROVE  Covers(c)' /\ Stored' \ Units(Others(c, t)) \subseteq Stored \cup Units(c[t])
  <2>1. Covers(c)'
    BY <1>3 DEF Covers
  <2>2. ASSUME NEW x \in Stored', x \notin Stored, x \notin Units(c[t]) PROVE x \in Units(Others(c, t))
    <3>1. PICK u \in Handlers : Flying(u) /\ x \in Units({body[u]})
      BY <2>2
    <3>2. c[u] = {body[u]}
      BY <1>3, <3>1 DEF Covers
    <3>3. u # t
      BY <2>2, <3>1, <3>2
    <3> QED BY <3>1, <3>2, <3>3, OthersAt
  <2> QED BY <2>1, <2>2
<1>4. Covers(base)' /\ Room(base, k)'
  <2>1. Covers(base) /\ Room(base, k)
    BY DEF Account
  <2>2. Covers(base)' /\ Stored' \ Units(Others(base, k)) \subseteq Stored \cup Units(base[k])
    BY <1>1, <1>3, <2>1
  <2> DEFINE V == (Stored \cup Units(base[k])) \ Units(Others(base, k))
             W == (Stored' \cup Units(base[k])) \ Units(Others(base, k))
  <2>3. W \subseteq V
    BY <2>2
  <2>4. IsFiniteSet(V)
    <3>1. base[k] \subseteq Bodies
      BY <1>1 DEF One
    <3>2. IsFiniteSet(Units(base[k]))
      BY <1>2, <3>1, UnitsWithin
    <3>3. IsFiniteSet(Stored \cup Units(base[k]))
      BY <1>2, <3>2, Joined
    <3>4. V \subseteq Stored \cup Units(base[k])
      OBVIOUS
    <3> QED BY <3>3, <3>4, FS_Subset
  <2>5. Cardinality(V) <= MaxStore /\ MaxStore \in Nat
    BY <2>1, StoreAssumption DEF Room
  <2> HIDE DEF V, W
  <2>6. Cardinality(W) <= MaxStore
    BY <2>3, <2>4, <2>5, Fewer
  <2> QED BY <2>2, <2>6 DEF Room, W, Others, Units, Chunks
<1>5. base[k] = {} => Stored' = {} /\ Claiming(base) = {}
  <2> SUFFICES ASSUME base[k] = {} PROVE Stored' = {} /\ Claiming(base) = {}
    OBVIOUS
  <2>1. Stored = {} /\ Claiming(base) = {} /\ Covers(base)
    BY DEF Account
  <2>2. \A u \in Handlers : ~ Flying(u)
    BY <2>1 DEF Claiming, Covers
  <2> QED BY <2>1, <2>2
<1>6. \A t \in Handlers : pc'[t] = "walk" /\ t \notin still => base[t] = {}
  BY <1>0 DEF Account
<1>7. ASSUME NEW t \in still
      PROVE  /\ Covers(claims[t])' /\ Counted(t, claims[t])'
             /\ base[t] = {} \/ Claiming(claims[t]) \subseteq Claiming(base)
  <2> DEFINE c == claims[t]
             S == {x \in Stored : x[1] \notin left[t]} \ Units(Others(c, t))
             R == {x \in Stored' : x[1] \notin left'[t]} \ Units(Others(c, t))
  <2>1. c \in [Handlers -> One] /\ Covers(c) /\ Counted(t, c) /\ t \in Handlers /\ t \in fresh /\ pc[t] = "walk" /\ pc'[t] = "walk"
    BY <1>0, <1>1 DEF Account
  <2>2. left'[t] = left[t] /\ sum'[t] = sum[t] /\ sum[t] \in Nat
    BY <2>1 DEF TypeOK, ProgramsOK
  <2>3. Covers(c)' /\ Stored' \ Units(Others(c, t)) \subseteq Stored
    <3>1. ASSUME NEW x \in Stored', x \notin Stored, x \notin Units(Others(c, t)) PROVE FALSE
      <4>1. PICK u \in Handlers : Flying(u) /\ x \in Units({body[u]})
        BY <3>1
      <4>2. u # t /\ c[u] = {body[u]}
        BY <2>1, <4>1 DEF Flying, InFlight, Covers
      <4> QED BY <3>1, <4>1, <4>2, OthersAt
    <3> QED BY <1>3, <2>1, <3>1
  <2>4. R \subseteq S /\ S \subseteq Stored
    BY <2>2, <2>3
  <2>5. IsFiniteSet(S)
    BY <1>2, <2>4, FS_Subset
  <2>6. Cardinality(S) <= sum[t]
    BY <2>1 DEF Counted
  <2> HIDE DEF S, R
  <2>7. Cardinality(R) <= sum'[t]
    BY <2>2, <2>4, <2>5, <2>6, Fewer
  <2>8. base[t] = {} \/ Claiming(c) \subseteq Claiming(base)
    BY <2>1 DEF Account
  <2> HIDE DEF c
  <2>9. Counted(t, c)'
    BY <2>7 DEF Counted, R, Others, Units, Chunks
  <2> QED BY <2>3, <2>8, <2>9 DEF c
<1>8. \A t, u \in still : t # u => After(claims, t, u) \/ After(claims, u, t)
  BY <1>0 DEF Account
<1>9. still \subseteq {t \in Handlers : pc'[t] = "walk"}
  BY <1>0, <1>1
<1>10. Account(base, k, still, claims)'
  BY <1>1, <1>4, <1>5, <1>6, <1>7, <1>8, <1>9 DEF Account, Claiming, After
<1> QED BY <1>10 DEF QuotaInv

\* A walk begins: what the others are storing is theirs.
LEMMA AccountPush ==
    ASSUME TypeOK, TypeOK', QuotaInv, NEW t \in Handlers, NEW b \in Bodies, Push(t, b), MaxStore > 0
    PROVE  QuotaInv'
<1>1. PICK base, k, fresh, claims : Account(base, k, fresh, claims)
  BY DEF QuotaInv
<1>0. PICK mine : mine = [u \in Handlers |-> IF Flying(u) THEN {body[u]} ELSE {}]
  OBVIOUS
<1>2. PICK claims2 : claims2 = [claims EXCEPT ![t] = mine]
  OBVIOUS
<1>3. PICK fresh2 : fresh2 = fresh \cup {t}
  OBVIOUS
<1>4. /\ k \in Handlers /\ base \in [Handlers -> One] /\ claims \in [Handlers -> [Handlers -> One]]
      /\ fresh \subseteq {u \in Handlers : pc[u] = "walk"}
  BY <1>1 DEF Account
<1>5. \A u \in Handlers : body[u] \in Bodies
  BY DEF TypeOK, ProgramsOK, Writers
<1>6. mine \in [Handlers -> One]
  BY <1>0, <1>5 DEF One
<1>7. /\ claims2 \in [Handlers -> [Handlers -> One]] /\ claims2[t] = mine
      /\ \A u \in Handlers \ {t} : claims2[u] = claims[u]
  BY <1>2, <1>4, <1>6
<1>8. /\ pc[t] = "idle" /\ pc'[t] = "walk" /\ left'[t] = Bodies
      /\ \A u \in Handlers \ {t} : pc'[u] = pc[u] /\ body'[u] = body[u] /\ left'[u] = left[u]
      /\ UNCHANGED <<files, sum>>
  BY StoreAssumption DEF Push, Goto, TypeOK, ProgramsOK, Writers
<1>9. Stored' = Stored
  BY <1>8 DEF Stored, Weight, Length, files
<1>10. ~ Flying(t) /\ ~ Flying(t)' /\ \A u \in Handlers \ {t} : Flying(u)' <=> Flying(u)
  BY <1>8 DEF Flying, InFlight
<1>11. \A c : Covers(c) => Covers(c)'
  BY <1>8, <1>10 DEF Covers
<1>12. Covers(mine)
  BY <1>0 DEF Covers
<1>13. Covers(base)' /\ Room(base, k)'
  BY <1>1, <1>9, <1>11 DEF Account, Room, Others, Units, Chunks
<1>14. \A u \in Handlers : pc'[u] = "walk" /\ u \notin fresh2 => base[u] = {}
  BY <1>1, <1>3, <1>8 DEF Account
<1>15. ASSUME NEW c, c \in [Handlers -> One], Covers(c) PROVE Claiming(mine) \subseteq Claiming(c)
  <2>1. \A u \in Handlers : mine[u] # {} => Flying(u)
    BY <1>0
  <2>2. \A u \in Handlers : Flying(u) => c[u] # {}
    BY <1>15 DEF Covers
  <2> QED BY <2>1, <2>2 DEF Claiming
<1>16. ASSUME NEW u \in fresh2
       PROVE  /\ Covers(claims2[u])' /\ Counted(u, claims2[u])'
              /\ base[u] = {} \/ Claiming(claims2[u]) \subseteq Claiming(base)
  <2>1. CASE u = t
    <3>1. Covers(mine)' /\ Claiming(mine) \subseteq Claiming(base)
      BY <1>1, <1>4, <1>11, <1>12, <1>15 DEF Account
    <3>2. {x \in Stored' : x[1] \notin left'[t]} = {}
      BY <1>8 DEF Stored
    <3>3. Cardinality({}) = 0 /\ sum'[t] \in Nat
      BY FS_EmptySet DEF TypeOK, ProgramsOK
    <3> DEFINE X == {x \in Stored' : x[1] \notin left'[t]}
    <3>4. Cardinality(X \ Units(Others(mine, t))) <= sum'[t]
      BY <3>2, <3>3
    <3>5. Counted(t, mine)'
      BY <3>4 DEF Counted, Others, Units, Chunks
    <3>6. claims2[u] = mine
      BY <1>7, <2>1
    <3> QED BY <2>1, <3>1, <3>5, <3>6
  <2>2. CASE u # t
    <3>1. u \in fresh /\ u \in Handlers
      BY <1>3, <1>4, <2>2
    <3>2. Covers(claims[u]) /\ Counted(u, claims[u]) /\ (base[u] = {} \/ Claiming(claims[u]) \subseteq Claiming(base))
      BY <1>1, <3>1 DEF Account
    <3> DEFINE c == claims[u]
    <3>3. c = claims2[u]
      BY <1>7, <2>2, <3>1
    <3>4. left'[u] = left[u] /\ sum'[u] = sum[u]
      BY <1>8, <2>2, <3>1
    <3> HIDE DEF c
    <3>5. Covers(c) /\ Counted(u, c) => Covers(c)' /\ Counted(u, c)'
      BY <1>9, <1>11, <3>4 DEF Counted, Others, Units, Chunks
    <3> QED BY <3>2, <3>3, <3>5 DEF c
  <2> QED BY <2>1, <2>2
<1>17. ASSUME NEW u \in fresh2, NEW w \in fresh2, u # w
       PROVE  After(claims2, u, w) \/ After(claims2, w, u)
  <2>1. ASSUME NEW v \in fresh2, v # t PROVE After(claims2, t, v)
    <3>1. v \in fresh /\ v \in Handlers /\ pc[v] = "walk"
      BY <1>3, <1>4, <2>1
    <3>2. mine[v] = {}
      BY <1>0, <3>1 DEF Flying, InFlight
    <3>3. Claiming(mine) \subseteq Claiming(claims[v])
      BY <1>1, <1>4, <1>15, <3>1 DEF Account
    <3> QED BY <1>7, <2>1, <3>1, <3>2, <3>3 DEF After
  <2>2. CASE u # t /\ w # t
    <3>1. u \in fresh /\ w \in fresh /\ u \in Handlers /\ w \in Handlers
      BY <1>3, <1>4, <2>2
    <3> QED BY <1>1, <1>7, <1>17, <2>2, <3>1 DEF Account, After
  <2> QED BY <1>17, <2>1, <2>2
<1>18. base[k] = {} => Stored' = {} /\ Claiming(base) = {}
  BY <1>1, <1>9 DEF Account
<1>19. fresh2 \subseteq {u \in Handlers : pc'[u] = "walk"}
  BY <1>3, <1>4, <1>8
<1>20. Account(base, k, fresh2, claims2)'
  BY <1>4, <1>7, <1>13, <1>14, <1>16, <1>17, <1>18, <1>19 DEF Account, Claiming, After
<1> QED BY <1>20 DEF QuotaInv

\* A walk counts one more body.
LEMMA AccountVisit ==
    ASSUME TypeOK, TypeOK', QuotaInv, NEW t \in Handlers, Visit(t)
    PROVE  QuotaInv'
<1>1. PICK base, k, fresh, claims : Account(base, k, fresh, claims)
  BY DEF QuotaInv
<1>2. PICK b \in left[t] : /\ left' = [left EXCEPT ![t] = @ \ {b}]
                           /\ sum' = [sum EXCEPT ![t] = @ + Weight(b)]
  BY DEF Visit
<1>3. UNCHANGED <<files, pc, body>>
  BY DEF Visit
<1>4. left \in [Handlers -> SUBSET Bodies] /\ sum \in [Handlers -> Nat] /\ FilesOK
  BY DEF TypeOK, ProgramsOK
<1>5. b \in Bodies /\ Weight(b) \in Nat
  BY <1>2, <1>4, WeightNat
<1>6. left'[t] = left[t] \ {b} /\ sum'[t] = sum[t] + Weight(b)
      /\ \A u \in Handlers \ {t} : left'[u] = left[u] /\ sum'[u] = sum[u]
  <2> HIDE DEF Weight
  <2> QED BY <1>2, <1>4
<1>7. Stored' = Stored
  BY <1>3 DEF Stored, Weight, Length, files
<1>8. ASSUME NEW c, NEW u \in Handlers, Counted(u, c) PROVE Counted(u, c)'
  <2>1. CASE u # t
    BY <1>6, <1>7, <1>8, <2>1 DEF Counted, Others, Units, Chunks
  <2>2. CASE u = t
    <3> DEFINE O == Units(Others(c, t))
               S == {x \in Stored : x[1] \notin left[t]} \ O
               R == {x \in Stored : x[1] \notin left'[t]} \ O
               W == {b} \X (1..Weight(b))
    <3>1. R \subseteq S \cup W
      <4> SUFFICES ASSUME NEW x \in R, x \notin S PROVE x \in W
        OBVIOUS
      <4>1. x \in Stored /\ x[1] = b
        BY <1>6
      <4>2. PICK a \in Bodies : x \in {a} \X (1..Weight(a))
        BY <4>1, StoredAt
      <4>3. a = b
        BY <4>1, <4>2
      <4> QED BY <4>2, <4>3
    <3>2. IsFiniteSet(S) /\ IsFiniteSet(W) /\ Cardinality(W) = Weight(b)
      <4>1. IsFiniteSet(W) /\ Cardinality(W) = Weight(b)
        BY <1>5, UnitsOf
      <4>2. IsFiniteSet(Stored) /\ S \subseteq Stored
        BY <1>4, StoredFinite
      <4> QED BY <4>1, <4>2, FS_Subset
    <3>3. Cardinality(S) <= sum[t]
      BY <1>8, <2>2 DEF Counted
    <3> HIDE DEF S, R, W
    <3>4. /\ IsFiniteSet(S \cup W) /\ Cardinality(S \cup W) <= Cardinality(S) + Cardinality(W)
          /\ Cardinality(S) \in Nat /\ Cardinality(W) \in Nat /\ Cardinality(S \cup W) \in Nat
      BY <3>2, Joined
    <3>5. sum[t] \in Nat /\ sum[t] + Weight(b) \in Nat
      BY <1>4, <1>5
    <3>6. Cardinality(S \cup W) <= sum[t] + Weight(b)
      <4> HIDE DEF Weight
      <4> QED BY <1>5, <3>2, <3>3, <3>4, <3>5
    <3>7. Cardinality(R) <= sum'[t]
      BY <1>6, <3>1, <3>4, <3>5, <3>6, Fewer
    <3> QED BY <1>7, <2>2, <3>7 DEF Counted, R, Others, Units, Chunks
  <2> QED BY <2>1, <2>2
<1>9. \A c, u : (Covers(c)' <=> Covers(c)) /\ (Flying(u)' <=> Flying(u))
  BY <1>3 DEF Covers, Flying
<1>10. Room(base, k)'
  BY <1>1, <1>7 DEF Account, Room, Others, Units, Chunks
<1>11. ASSUME NEW u \in fresh PROVE Covers(claims[u])' /\ Counted(u, claims[u])'
  <2>1. Covers(claims[u]) /\ Counted(u, claims[u]) /\ u \in Handlers
    BY <1>1 DEF Account
  <2> DEFINE c == claims[u]
  <2> HIDE DEF c
  <2>2. Covers(c) /\ Counted(u, c) => Covers(c)' /\ Counted(u, c)'
    BY <1>8, <1>9, <2>1
  <2> QED BY <2>1, <2>2 DEF c
<1>12. Account(base, k, fresh, claims)'
  BY <1>1, <1>3, <1>7, <1>9, <1>10, <1>11 DEF Account, Claiming, After
<1> QED BY <1>12 DEF QuotaInv

\* A push is admitted.  It is the new k when it was among those that may have
\* stored something since k's walk began, or when nothing was stored yet.
LEMMA AccountAdmit ==
    ASSUME TypeOK, TypeOK', QuotaInv, NEW t \in Handlers, Admit(t), Fits(t), pc'[t] = "stat"
    PROVE  QuotaInv'
<1>1. PICK base, k, fresh, claims : Account(base, k, fresh, claims)
  BY DEF QuotaInv
<1>2. PICK b : b = body[t]
  OBVIOUS
<1>3. PICK claims2 : claims2 = [u \in Handlers |-> [claims[u] EXCEPT ![t] = {b}]]
  OBVIOUS
<1>4. PICK fresh2 : fresh2 = {u \in fresh \ {t} : claims[u][t] = {}}
  OBVIOUS
<1>5. /\ k \in Handlers /\ base \in [Handlers -> One] /\ claims \in [Handlers -> [Handlers -> One]]
      /\ fresh \subseteq {u \in Handlers : pc[u] = "walk"}
  BY <1>1 DEF Account
<1>6. b \in Bodies /\ {b} \in One
  BY <1>2 DEF TypeOK, ProgramsOK, Writers, One
<1>7. /\ pc[t] = "walk" /\ left[t] = {} /\ sum[t] + Size[b] <= MaxStore
      /\ \A u \in Handlers \ {t} : pc'[u] = pc[u] /\ sum'[u] = sum[u]
      /\ UNCHANGED <<files, body, left>>
  BY <1>2 DEF Admit, Fits, Goto, TypeOK, ProgramsOK, Writers
<1>8. Stored' = Stored
  BY <1>7 DEF Stored, Weight, Length, files
<1>9. ~ Flying(t) /\ Flying(t)' /\ \A u \in Handlers \ {t} : Flying(u)' <=> Flying(u)
  BY <1>7 DEF Flying, InFlight
<1>10. ASSUME NEW c \in [Handlers -> One]
       PROVE  LET d == [c EXCEPT ![t] = {b}] IN
              /\ d \in [Handlers -> One] /\ d[t] = {b} /\ \A u \in Handlers \ {t} : d[u] = c[u]
              /\ Claiming(d) = Claiming(c) \cup {t}
              /\ Others(d, t) = Others(c, t)
              /\ \A u \in Handlers : c[t] = {} => Others(c, u) \subseteq Others(d, u)
  <2> DEFINE d == [c EXCEPT ![t] = {b}]
  <2>1. d \in [Handlers -> One] /\ d[t] = {b} /\ \A u \in Handlers \ {t} : d[u] = c[u]
    BY <1>6
  <2> HIDE DEF d
  <2>2. Claiming(d) = Claiming(c) \cup {t}
    BY <2>1 DEF Claiming
  <2>3. Others(d, t) = Others(c, t)
    BY <2>1 DEF Others
  <2>4. ASSUME NEW u \in Handlers, c[t] = {} PROVE Others(c, u) \subseteq Others(d, u)
    BY <2>1, <2>4 DEF Others
  <2>5. /\ d \in [Handlers -> One] /\ d[t] = {b} /\ \A u \in Handlers \ {t} : d[u] = c[u]
        /\ Claiming(d) = Claiming(c) \cup {t}
        /\ Others(d, t) = Others(c, t)
        /\ \A u \in Handlers : c[t] = {} => Others(c, u) \subseteq Others(d, u)
    BY <2>1, <2>2, <2>3, <2>4
  <2> QED BY <2>5 DEF d
<1>11. claims2 \in [Handlers -> [Handlers -> One]]
       /\ \A u \in Handlers : claims2[u] = [claims[u] EXCEPT ![t] = {b}]
  <2>1. \A u \in Handlers : claims[u] \in [Handlers -> One]
    BY <1>5
  <2>2. \A u \in Handlers : [claims[u] EXCEPT ![t] = {b}] \in [Handlers -> One]
    BY <1>10, <2>1
  <2> QED BY <1>3, <2>2
<1>12. fresh2 \subseteq {u \in Handlers : pc'[u] = "walk"}
  BY <1>4, <1>5, <1>7
<1>13. IsFiniteSet(Stored) /\ FilesOK
  BY StoredFinite DEF TypeOK
<1>14. ASSUME NEW u \in fresh2
       PROVE  /\ Covers(claims2[u])' /\ Counted(u, claims2[u])'
              /\ Claiming(claims2[u]) = Claiming(claims[u]) \cup {t}
              /\ \A w \in Handlers \ {t} : claims2[u][w] = claims[u][w]
  <2>1. u \in fresh /\ u \in Handlers /\ u # t /\ claims[u][t] = {}
    BY <1>4, <1>5
  <2>2. PICK c : c = claims[u]
    OBVIOUS
  <2>3. c \in [Handlers -> One] /\ Covers(c) /\ Counted(u, c)
    BY <1>1, <1>5, <2>1, <2>2 DEF Account
  <2>4. PICK d : d = [c EXCEPT ![t] = {b}]
    OBVIOUS
  <2>5. /\ \A w \in Handlers \ {t} : d[w] = c[w]
        /\ Claiming(d) = Claiming(c) \cup {t}
        /\ Others(c, u) \subseteq Others(d, u)
    BY <1>10, <2>1, <2>2, <2>3, <2>4
  <2>a. Covers(d)'
    <3>1. \A w \in Handlers : Flying(w)' => d[w] = {body'[w]}
      BY <1>2, <1>6, <1>7, <1>9, <2>3, <2>4 DEF Covers
    <3> QED BY <3>1 DEF Covers
  <2> DEFINE S == {x \in Stored : x[1] \notin left[u]} \ Units(Others(c, u))
             R == {x \in Stored : x[1] \notin left[u]} \ Units(Others(d, u))
  <2>6. R \subseteq S /\ S \subseteq Stored
    BY <2>5 DEF Units
  <2>7. IsFiniteSet(S) /\ Cardinality(S) <= sum[u] /\ sum[u] \in Nat
    BY <1>13, <2>1, <2>3, <2>6, FS_Subset DEF Counted, TypeOK, ProgramsOK
  <2> HIDE DEF R, S
  <2>8. Cardinality(R) <= sum[u]
    BY <2>6, <2>7, Fewer
  <2>9. Counted(u, d)'
    BY <1>7, <1>8, <2>1, <2>8 DEF Counted, R, Others, Units, Chunks
  <2>10. claims2[u] = d
    BY <1>11, <2>1, <2>2, <2>4
  <2> QED BY <2>2, <2>5, <2>a, <2>9, <2>10
<1>15. ASSUME NEW u \in fresh2, NEW w \in fresh2, u # w
       PROVE  After(claims2, u, w) \/ After(claims2, w, u)
  <2>1. u \in fresh /\ w \in fresh /\ u \in Handlers \ {t} /\ w \in Handlers \ {t}
    BY <1>4, <1>5
  <2>2. After(claims, u, w) \/ After(claims, w, u)
    BY <1>1, <1>15, <2>1 DEF Account
  <2> QED BY <1>14, <1>15, <2>1, <2>2 DEF After
<1>16. PICK c : c = IF base[t] = {} THEN base ELSE claims[t]
  OBVIOUS
<1>17. PICK base2 : base2 = [c EXCEPT ![t] = {b}]
  OBVIOUS
<1>18. PICK k2 : k2 = IF base[t] = {} /\ base[k] # {} THEN k ELSE t
  OBVIOUS
<1>19. base[t] # {} => t \in fresh
  BY <1>1, <1>7 DEF Account
<1>20. c \in [Handlers -> One] /\ Covers(c) /\ k2 \in Handlers
  BY <1>1, <1>5, <1>16, <1>18, <1>19 DEF Account
<1>21. /\ base2 \in [Handlers -> One] /\ base2[t] = {b} /\ \A u \in Handlers \ {t} : base2[u] = c[u]
       /\ Claiming(base2) = Claiming(c) \cup {t} /\ Others(base2, t) = Others(c, t)
       /\ \A u \in Handlers : c[t] = {} => Others(c, u) \subseteq Others(base2, u)
  BY <1>10, <1>17, <1>20
<1>22. Covers(base2)'
  <2>1. \A w \in Handlers : Flying(w)' => base2[w] = {body'[w]}
    BY <1>2, <1>7, <1>9, <1>20, <1>21 DEF Covers
  <2> QED BY <2>1 DEF Covers
<1>23. Room(base2, k2)'
  <2> DEFINE W == (Stored \cup Units(base2[k2])) \ Units(Others(base2, k2))
  <2>1. MaxStore \in Nat /\ sum[t] \in Nat
    BY StoreAssumption DEF TypeOK, ProgramsOK
  <2>2. IsFiniteSet(Units({b})) /\ Cardinality(Units({b})) = Size[b] /\ Size[b] \in Nat
    BY <1>6, UnitsOfOne
  <2>3. CASE base[t] = {} /\ base[k] # {}
    <3>1. c = base /\ k2 = k /\ k # t /\ base2[k] = base[k]
      BY <1>5, <1>16, <1>18, <1>21, <2>3
    <3> DEFINE V == (Stored \cup Units(base[k])) \ Units(Others(base, k))
    <3>2. W \subseteq V
      BY <1>5, <1>21, <2>3, <3>1 DEF Units
    <3>3. IsFiniteSet(V)
      <4>1. base[k] \subseteq Bodies
        BY <1>5 DEF One
      <4>2. IsFiniteSet(Units(base[k]))
        BY <1>13, <4>1, UnitsWithin
      <4>3. IsFiniteSet(Stored \cup Units(base[k]))
        BY <1>13, <4>2, Joined
      <4>4. V \subseteq Stored \cup Units(base[k])
        OBVIOUS
      <4> QED BY <4>3, <4>4, FS_Subset
    <3>4. Cardinality(V) <= MaxStore
      BY <1>1 DEF Account, Room
    <3> HIDE DEF V, W
    <3>5. Cardinality(W) <= MaxStore
      BY <2>1, <3>2, <3>3, <3>4, Fewer
    <3> QED BY <1>8, <3>5 DEF Room, W, Others, Units, Chunks
  <2>4. CASE ~ (base[t] = {} /\ base[k] # {})
    <3>1. k2 = t /\ base2[k2] = {b}
      BY <1>18, <1>21, <2>4
    <3> DEFINE V == Stored \ Units(Others(c, t))
    <3>2. IsFiniteSet(V) /\ Cardinality(V) <= sum[t]
      <4>1. IsFiniteSet(V)
        BY <1>13, FS_Difference
      <4>2. CASE base[t] = {}
        <5>1. V = {}
          BY <1>1, <2>4, <4>2 DEF Account
        <5> QED BY <2>1, <4>1, <5>1, FS_EmptySet
      <4>3. CASE base[t] # {}
        <5>1. c = claims[t] /\ Counted(t, c)
          BY <1>1, <1>16, <1>19, <4>3 DEF Account
        <5>2. {x \in Stored : x[1] \notin left[t]} = Stored
          BY <1>7
        <5> HIDE DEF V
        <5>3. Cardinality({x \in Stored : x[1] \notin left[t]} \ Units(Others(c, t))) <= sum[t]
          BY <5>1 DEF Counted
        <5> QED BY <4>1, <5>2, <5>3 DEF V
      <4> QED BY <4>2, <4>3
    <3>3. W \subseteq V \cup Units({b})
      BY <1>21, <3>1
    <3> HIDE DEF V, W
    <3>4. /\ IsFiniteSet(V \cup Units({b}))
          /\ Cardinality(V \cup Units({b})) <= Cardinality(V) + Cardinality(Units({b}))
          /\ Cardinality(V) \in Nat /\ Cardinality(V \cup Units({b})) \in Nat
      BY <2>2, <3>2, Joined
    <3>5. Cardinality(V \cup Units({b})) <= MaxStore
      BY <1>7, <2>1, <2>2, <3>2, <3>4
    <3>6. Cardinality(W) <= MaxStore
      BY <2>1, <3>3, <3>4, <3>5, Fewer
    <3> QED BY <1>8, <3>6 DEF Room, W, Others, Units, Chunks
  <2> QED BY <2>3, <2>4
<1>24. base2[k2] # {}
  BY <1>5, <1>16, <1>18, <1>21
<1>25. ASSUME NEW u \in Handlers \ {t} PROVE base2[u] = c[u] /\ (base[u] = {} => base2[u] = {})
  <2>1. CASE base[t] = {}
    BY <1>16, <1>21, <2>1
  <2>2. CASE base[t] # {}
    <3>1. c = claims[t] /\ Claiming(claims[t]) \subseteq Claiming(base)
      BY <1>1, <1>16, <1>19, <2>2 DEF Account
    <3> QED BY <1>21, <3>1 DEF Claiming
  <2> QED BY <2>1, <2>2
\* A walk that is no longer fresh began before k2's.
<1>26. ASSUME NEW u \in Handlers, pc'[u] = "walk", u \notin fresh2 PROVE base2[u] = {}
  <2>1. u # t /\ pc[u] = "walk"
    BY <1>7, <1>9, <1>26 DEF Flying, InFlight
  <2>2. CASE u \notin fresh
    <3>1. base[u] = {}
      BY <1>1, <2>1, <2>2 DEF Account
    <3> QED BY <1>25, <2>1, <3>1
  <2>3. CASE u \in fresh
    <3>1. claims[u][t] # {}
      BY <1>4, <1>26, <2>1, <2>3
    <3>2. CASE base[t] = {}
      <4>1. ~ (Claiming(claims[u]) \subseteq Claiming(base))
        BY <3>1, <3>2 DEF Claiming
      <4>2. base[u] = {}
        BY <1>1, <2>3, <4>1 DEF Account
      <4> QED BY <1>25, <2>1, <4>2
    <3>3. CASE base[t] # {}
      <4>1. c = claims[t] /\ t \in fresh
        BY <1>16, <1>19, <3>3
      <4>2. After(claims, t, u)
        BY <1>1, <2>1, <2>3, <3>1, <4>1 DEF Account, After
      <4> QED BY <1>25, <2>1, <4>1, <4>2 DEF After
    <3> QED BY <3>2, <3>3
  <2> QED BY <2>2, <2>3
<1>27. ASSUME NEW u \in fresh2 PROVE base2[u] = {} \/ Claiming(claims2[u]) \subseteq Claiming(base2)
  <2>1. u \in fresh /\ u \in Handlers \ {t} /\ claims[u][t] = {}
    BY <1>4, <1>5
  <2>2. Claiming(claims2[u]) = Claiming(claims[u]) \cup {t}
    BY <1>14
  <2>3. CASE base[t] = {}
    <3>1. base[u] = {} \/ Claiming(claims[u]) \subseteq Claiming(base)
      BY <1>1, <2>1 DEF Account
    <3> QED BY <1>16, <1>21, <1>25, <2>1, <2>2, <2>3, <3>1
  <2>4. CASE base[t] # {}
    <3>1. c = claims[t] /\ t \in fresh
      BY <1>16, <1>19, <2>4
    <3>2. After(claims, t, u) \/ After(claims, u, t)
      BY <1>1, <2>1, <3>1 DEF Account
    <3> QED BY <1>21, <1>25, <2>1, <2>2, <3>1, <3>2 DEF After
  <2> QED BY <2>3, <2>4
<1>28. Account(base2, k2, fresh2, claims2)'
  <2>1. \A u \in fresh2 : Covers(claims2[u])' /\ Counted(u, claims2[u])'
    BY <1>14
  <2> QED BY <1>11, <1>12, <1>15, <1>20, <1>21, <1>22, <1>23, <1>24, <1>26, <1>27, <2>1
        DEF Account, Claiming, After
<1> QED BY <1>28 DEF QuotaInv

\* What a step may have stored when it touches no file but that of b.
LEMMA StoredMore ==
    ASSUME FilesOK', NEW b \in Bodies,
           \A a \in Bodies \ {b} : /\ a \in DOMAIN hold' <=> a \in DOMAIN hold
                                   /\ a \in DOMAIN hold => hold'[a] = hold[a]
    PROVE  \A x \in Stored' : x \in Stored \/ x \in Units({b})
<1> SUFFICES ASSUME NEW x \in Stored' PROVE x \in Stored \/ x \in Units({b})
  OBVIOUS
<1>1. PICK a \in Bodies : x \in {a} \X (1..Weight(a)')
  BY DEF Stored
<1>2. CASE a # b
  <2>1. Weight(a)' = Weight(a)
    BY <1>2 DEF Weight, Length
  <2> HIDE DEF Weight
  <2> QED BY <1>1, <2>1, StoredAt
<1>3. CASE a = b
  <2>1. b \in DOMAIN hold' => Length(hold'[b]) \in 0..Size[b]
    BY LengthAt DEF FilesOK, Chunks
  <2>2. Weight(b)' = IF b \in DOMAIN hold' THEN Length(hold'[b]) ELSE 0
    BY DEF Weight, Length
  <2>3. Size[b] \in Nat
    BY StoreAssumption
  <2> HIDE DEF Weight
  <2>4. x \in {b} \X Chunks(b)
    BY <1>1, <1>3, <2>1, <2>2, <2>3 DEF Chunks
  <2> QED BY <2>4, UnitsAt
<1> QED BY <1>2, <1>3

\* A step of a push in flight, in a node without syncs.
LEMMA AccountStore ==
    ASSUME TypeOK, TypeOK', QuotaInv, NEW t \in Handlers,
           Stat(t) \/ OpenPart(t) \/ Rename(t) \/ Unlink(t) \/ Write(t) \/ Close(t) \/ WriteFails(t)
    PROVE  QuotaInv'
<1>1. PICK base, k, fresh, claims : Account(base, k, fresh, claims)
  BY DEF QuotaInv
<1>2. /\ UNCHANGED <<body, walk>> /\ Flying(t)
      /\ \E l \in InFlight \cup {"idle"} : pc' = pc \/ Goto(t, l)
  BY DEF Stat, OpenPart, Rename, Unlink, Write, Close, Closed, WriteFails, AfterWrite, Flying, InFlight
<1>3. pc \in [Writers -> {"idle", "walk", "stat", "open", "write", "rename", "unlink", "fetch"}]
      /\ t \in Writers /\ body[t] \in Bodies /\ FilesOK' /\ FilesOK /\ OpenFilesOK
  BY DEF TypeOK, ProgramsOK, Writers
<1>4. \A u \in Handlers : /\ Flying(u)' => Flying(u)
                          /\ pc'[u] = "walk" => pc[u] = "walk"
  BY <1>2, <1>3 DEF Flying, InFlight, Goto, Writers
<1>5. \A a \in Bodies \ {body[t]} : /\ a \in DOMAIN hold' <=> a \in DOMAIN hold
                                    /\ a \in DOMAIN hold => hold'[a] = hold[a]
  <2>1. CASE Rename(t)
    BY <2>1 DEF Rename, With, files
  <2>2. CASE Write(t)
    BY <1>3, <2>2 DEF Write, FilesOK
  <2>3. CASE Stat(t) \/ OpenPart(t) \/ Unlink(t) \/ Close(t) \/ WriteFails(t)
    BY <2>3 DEF Stat, OpenPart, Unlink, Close, WriteFails, files
  <2> QED BY <2>1, <2>2, <2>3
<1>6. \A x \in Stored' : x \in Stored \/ x \in Units({body[t]})
  BY <1>3, <1>5, StoredMore
<1>7. \A u \in Handlers : body'[u] = body[u] /\ left'[u] = left[u] /\ sum'[u] = sum[u]
  BY <1>2 DEF walk
<1> QED BY <1>1, <1>2, <1>4, <1>6, <1>7, AccountKept

LEMMA QuotaStep ==
    ASSUME Syncs = {}, MaxStore > 0, TypeOK, TypeOK', QuotaInv, [Next]_vars
    PROVE  QuotaInv'
<1>1. PICK base, k, fresh, claims : Account(base, k, fresh, claims)
  BY DEF QuotaInv
<1>2. ASSUME NEW t \in Handlers, Handle(t) PROVE QuotaInv'
  <2>1. ASSUME NEW b \in Bodies, Push(t, b) PROVE QuotaInv'
    BY <2>1, AccountPush
  <2>2. CASE Visit(t)
    BY <2>2, AccountVisit
  <2>3. CASE Admit(t)
    <3>1. pc \in [Writers -> {"idle", "walk", "stat", "open", "write", "rename", "unlink", "fetch"}]
          /\ t \in Writers
      BY DEF TypeOK, ProgramsOK, Writers
    <3>2. CASE Fits(t) /\ Goto(t, "stat")
      <4>1. pc'[t] = "stat"
        BY <3>1, <3>2 DEF Goto
      <4> QED BY <2>3, <3>2, <4>1, AccountAdmit
    <3>3. CASE Goto(t, "idle")
      <4>1. UNCHANGED <<files, body, left>> /\ sum' = [sum EXCEPT ![t] = 0]
        BY <2>3 DEF Admit
      <4>2. \A u \in Handlers : /\ Flying(u)' => Flying(u) /\ body'[u] = body[u]
                                /\ pc'[u] = "walk" => pc[u] = "walk" /\ left'[u] = left[u] /\ sum'[u] = sum[u]
        BY <3>1, <3>3, <4>1 DEF Flying, InFlight, Goto, Writers
      <4>3. Stored' = Stored
        BY <4>1 DEF Stored, Weight, Length, files
      <4> QED BY <1>1, <4>2, <4>3, AccountKept
    <3> QED BY <2>3, <3>2, <3>3 DEF Admit
  <2>4. CASE Stat(t) \/ OpenPart(t) \/ Rename(t) \/ Unlink(t)
    BY <2>4, AccountStore
  <2> QED BY <1>2, <2>1, <2>2, <2>3, <2>4 DEF Handle
<1>3. ASSUME NEW w \in Writers, Write(w) \/ Close(w) \/ WriteFails(w) PROVE QuotaInv'
  BY <1>3, AccountStore DEF Writers
<1>4. CASE NodeDies
  <2>1. UNCHANGED <<files, body>> /\ \A u \in Handlers : pc'[u] = "idle"
    BY <1>4 DEF NodeDies, Writers
  <2>2. \A u \in Handlers : ~ Flying(u)' /\ pc'[u] # "walk"
    BY <2>1 DEF Flying, InFlight
  <2>3. Stored' = Stored
    BY <2>1 DEF Stored, Weight, Length, files
  <2> QED BY <1>1, <2>2, <2>3, AccountKept
<1>5. CASE UNCHANGED vars
  <2>1. UNCHANGED <<files, pc, body, left, sum>>
    BY <1>5 DEF vars, walk
  <2>2. Stored' = Stored /\ \A u \in Handlers : Flying(u)' <=> Flying(u)
    BY <2>1 DEF Stored, Weight, Length, files, Flying
  <2> QED BY <1>1, <2>1, <2>2, AccountKept
<1> QED BY <1>2, <1>3, <1>4, <1>5 DEF Next

\* Pushes overrun the quota by no more than the largest body for each other
\* handler, for every number of handlers, bodies and sizes, whatever fails
\* (enforce_write_policy 200-205).
THEOREM OvershootBounded == Spec => []QuotaOvershoot
<1> DEFINE Inv == Syncs = {} /\ MaxStore > 0 => QuotaInv
<1>1. Init => Inv
  <2> SUFFICES ASSUME Init, Syncs = {}, MaxStore > 0 PROVE QuotaInv
    OBVIOUS
  <2>1. PICK k \in Handlers : TRUE
    BY FiniteAssumption
  <2> DEFINE none == [u \in Handlers |-> {}]
             claims == [u \in Handlers |-> none]
  <2>2. Stored = {}
    BY DEF Init, NoFiles, Stored, Weight
  <2>3. none \in [Handlers -> One] /\ claims \in [Handlers -> [Handlers -> One]] /\ Claiming(none) = {}
    BY DEF One, Claiming
  <2>4. \A u \in Handlers : pc[u] = "idle"
    BY DEF Init, Writers
  <2>5. (Stored \cup Units(none[k])) \ Units(Others(none, k)) = {}
    BY <2>2 DEF Units
  <2> HIDE DEF none
  <2>6. Room(none, k)
    BY <2>5, FS_EmptySet, StoreAssumption DEF Room
  <2>7. Account(none, k, {}, claims)
    BY <2>1, <2>2, <2>3, <2>4, <2>6 DEF Account, Covers, Flying, InFlight
  <2> QED BY <2>7 DEF QuotaInv
<1>2. TypeOK /\ TypeOK' /\ Inv /\ [Next]_vars => Inv'
  BY QuotaStep
<1>3. TypeOK /\ Inv => QuotaOvershoot
  BY AccountBounds DEF QuotaOvershoot
<1> QED BY <1>1, <1>2, <1>3, TypeCorrect, PTL DEF Spec
=============================================================================
