------------------------------ MODULE SyncLoop ------------------------------
(***************************************************************************)
(* The sync loops of src/spore_peer.rs: every pass goes through the peers  *)
(* list and, over one connection each, pulls what the peer has             *)
(* (sync_stream) and pushes what it lacks (push_stream).  A node serves    *)
(* others while its own loop runs.                                         *)
(*                                                                         *)
(* A request and its answer are one step, at the moment the answering node *)
(* reads its hold.  A hold is the sequence of its bodies in the order of   *)
(* their modification times, as chain_view sorts it.  A node that lies     *)
(* answers every call as it pleases; its hold is what it has to serve.     *)
(***************************************************************************)
EXTENDS Vec, SequencesExt

CONSTANTS
    Nodes,      \* holds with a serving node
    Loopers,    \* nodes that run sync-loop
    Bodies,
    Peers,      \* the peers list of each looper
    Dead,       \* nodes that cannot be reached
    Liars,      \* nodes that run another program than this one
    Claims,     \* what a liar may list as its chain
    Locked,     \* nodes that ask for a write token
    Full,       \* nodes that may answer pushes with 429 or 507
    ChainCap,   \* entries in an answer to Peer.Chain (5000)
    FetchCap,   \* of which a pull looks at (2000)
    PushCap,    \* bodies a push offers (2000)
    MaxBreaks,  \* model bound: how many connections break
    StartHolds  \* what the holds contain at first: records [hold, corrupt]

ASSUME SyncAssumption ==
    /\ Loopers \cup Dead \cup Liars \cup Locked \cup Full \subseteq Nodes
    /\ Peers \in [Loopers -> Seq(Nodes)]
    /\ \A n \in Loopers : n \notin ToSet(Peers[n])
    /\ Claims \subseteq Seq(Bodies)
    /\ {ChainCap, FetchCap, PushCap} \subseteq Nat \ {0}
    /\ MaxBreaks \in Nat
    /\ \A s \in StartHolds :
          /\ s.hold \in [Nodes -> Seq(Bodies)]
          /\ \A n \in Nodes : IsInjective(s.hold[n])
          /\ s.corrupt \in [Nodes -> SUBSET Bodies]
          /\ \A n \in Nodes : s.corrupt[n] \subseteq ToSet(s.hold[n])

VARIABLES
    hold,       \* the bodies of each node, oldest first
    corrupt,    \* those whose file does not hash to its name
    pc,         \* what each loop does next
    turn,       \* the index of the peer it is at
    entries, place, \* the bodies it goes through, and where it is
    breaks,     \* connections that broke so far
    start,      \* history: intact bodies of both sides when they connected
    synced      \* the peers this pass counted as synced

holds == <<hold, corrupt>>
position == <<entries, place>>
vars == <<holds, pc, turn, position, breaks, start, synced>>

Held(n) == ToSet(hold[n])
Whole(n) == Held(n) \ corrupt[n]
Peer(n) == Peers[n][turn[n]]

Init ==
    /\ \E s \in StartHolds : hold = s.hold /\ corrupt = s.corrupt
    /\ pc = [n \in Loopers |-> "sleep"]
    /\ turn = [n \in Loopers |-> 1]
    /\ entries = [n \in Loopers |-> <<>>]
    /\ place = [n \in Loopers |-> 1]
    /\ breaks = 0
    /\ start = [n \in Loopers |-> {}]
    /\ synced = [n \in Loopers |-> {}]

Goto(n, label) == pc' = [pc EXCEPT ![n] = label]

\* Going through a list of bodies begins, goes on, is over.
Begin(n, list) ==
    /\ entries' = [entries EXCEPT ![n] = list]
    /\ place' = [place EXCEPT ![n] = 1]
Advance(n) == place' = [place EXCEPT ![n] = @ + 1] /\ UNCHANGED entries
AtEnd(n) == place[n] > Len(entries[n])
Entry(n) == entries[n][place[n]]

\* The connection is closed and the pass goes to the next peer.
NextPeer(n) ==
    /\ Goto(n, "connect")
    /\ turn' = [turn EXCEPT ![n] = @ + 1]
    /\ Begin(n, <<>>)
    /\ start' = [start EXCEPT ![n] = {}]

\* A file written now is the newest; writing it anew moves it there.
Stored(s, b) == Append(Keep(s, {j \in DOMAIN s : s[j] # b}), b)

\* Fault: one entry fewer than the cap.
ChainShort(s) ==
    [j \in 1..(IF Len(s) < ChainCap THEN Len(s) ELSE ChainCap - 1) |-> s[Len(s) + 1 - j]]
\* The answer to Peer.Chain with TOP = 0: newest first, ChainCap at most.
Chain(s) ==
    [j \in 1..(IF Len(s) < ChainCap THEN Len(s) ELSE ChainCap) |-> s[Len(s) + 1 - j]]

-----------------------------------------------------------------------------
(* sync_loop and sync_pass. *)

PassStarts(n) ==
    /\ pc[n] = "sleep"
    /\ Goto(n, "connect")
    /\ turn' = [turn EXCEPT ![n] = 1]
    /\ synced' = [synced EXCEPT ![n] = {}]
    /\ UNCHANGED <<holds, position, breaks, start>>

PassEnds(n) ==
    /\ pc[n] = "connect" /\ turn[n] > Len(Peers[n])
    /\ Goto(n, "sleep")
    /\ UNCHANGED <<holds, turn, position, breaks, start, synced>>

Connect(n) ==
    /\ pc[n] = "connect" /\ turn[n] <= Len(Peers[n]) /\ Peer(n) \notin Dead
    /\ Goto(n, "chain")
    /\ start' = [start EXCEPT ![n] = Whole(n) \cup Whole(Peer(n))]
    /\ UNCHANGED <<holds, turn, position, breaks, synced>>

\* "A dead or unreachable peer is logged and skipped."
ConnectFails(n) ==
    /\ pc[n] = "connect" /\ turn[n] <= Len(Peers[n]) /\ Peer(n) \in Dead
    /\ NextPeer(n)
    /\ UNCHANGED <<holds, breaks, synced>>

\* The connection breaks before an answer has come.
CallFails(n) ==
    /\ pc[n] \in {"chain", "get", "peerchain", "push"} /\ breaks < MaxBreaks
    /\ breaks' = breaks + 1
    /\ NextPeer(n)
    /\ UNCHANGED <<holds, synced>>

-----------------------------------------------------------------------------
(* sync_stream. *)

\* What the peer may answer to Peer.Chain.
ChainAnswers(n) ==
    {Chain(hold[Peer(n)])} \cup (IF Peer(n) \in Liars THEN Claims ELSE {})

PullChain(n) ==
    /\ pc[n] = "chain"
    /\ \E list \in ChainAnswers(n) : Begin(n, list)
    /\ Goto(n, "pull")
    /\ UNCHANGED <<holds, turn, breaks, start, synced>>

\* An error for an answer, or an entry that is not a pair, ends it for this
\* peer, in both directions.
Malformed(n) ==
    /\ pc[n] \in {"chain", "pull", "peerchain"} /\ Peer(n) \in Liars
    /\ NextPeer(n)
    /\ UNCHANGED <<holds, breaks, synced>>

Skip(n) ==
    /\ pc[n] = "pull" /\ ~ AtEnd(n) /\ Entry(n) \in Held(n)
    /\ Advance(n)
    /\ UNCHANGED <<holds, pc, turn, breaks, start, synced>>

Ask(n) ==
    /\ pc[n] = "pull" /\ ~ AtEnd(n) /\ Entry(n) \notin Held(n) /\ place[n] <= FetchCap
    /\ Goto(n, "get")
    /\ UNCHANGED <<holds, turn, position, breaks, start, synced>>

\* The end of the list, or a missing body beyond the cap.
PullEnds(n) ==
    /\ pc[n] = "pull"
    /\ ~ AtEnd(n) => Entry(n) \notin Held(n) /\ place[n] > FetchCap
    /\ Goto(n, "peerchain")
    /\ UNCHANGED <<holds, turn, position, breaks, start, synced>>

\* The body comes and hashes to its name: it is written, over one that has
\* been pushed here meanwhile if there is one.
Fetch(n) ==
    /\ pc[n] = "get" /\ Entry(n) \in Whole(Peer(n))
    /\ hold' = [hold EXCEPT ![n] = Stored(@, Entry(n))]
    /\ Advance(n)
    /\ Goto(n, "pull")
    /\ UNCHANGED <<corrupt, turn, breaks, start, synced>>

\* serve_body finds a corrupt file (500), or a liar does not serve what it
\* listed, and the pull goes on without it.
NotServed(n) ==
    /\ pc[n] = "get" /\ (Entry(n) \notin Whole(Peer(n)) \/ Peer(n) \in Liars)
    /\ Advance(n)
    /\ Goto(n, "pull")
    /\ UNCHANGED <<holds, turn, breaks, start, synced>>

\* Fault: the bytes are written without a look at their hash.
TamperedStored(n) ==
    /\ pc[n] = "get" /\ Peer(n) \in Liars
    /\ hold' = [hold EXCEPT ![n] = Stored(@, Entry(n))]
    /\ corrupt' = [corrupt EXCEPT ![n] = @ \cup {Entry(n)}]
    /\ Advance(n)
    /\ Goto(n, "pull")
    /\ UNCHANGED <<turn, breaks, start, synced>>
\* Other bytes come: "tampered", which ends it for this peer.
Tampered(n) ==
    /\ pc[n] = "get" /\ Peer(n) \in Liars
    /\ NextPeer(n)
    /\ UNCHANGED <<holds, breaks, synced>>

-----------------------------------------------------------------------------
(* push_stream. *)

FirstOf(s, cap) == IF Len(s) <= cap THEN s ELSE SubSeq(s, 1, cap)

\* Fault: the cap counts positions, as the one of the pull does.
OfferedByPosition(n, peerHas) ==
    LET head == FirstOf(hold[n], PushCap)
    IN  Keep(head, {j \in DOMAIN head : head[j] \notin peerHas})
\* Fault: no cap.
OfferedAll(n, peerHas) ==
    Keep(hold[n], {j \in DOMAIN hold[n] : hold[n][j] \notin peerHas})
\* What a push offers: the first PushCap bodies that the peer did not list,
\* oldest first.  Corrupt ones count, they are skipped later.
Offered(n, peerHas) ==
    FirstOf(Keep(hold[n], {j \in DOMAIN hold[n] : hold[n][j] \notin peerHas}), PushCap)

PushChain(n) ==
    /\ pc[n] = "peerchain"
    /\ \E list \in ChainAnswers(n) : Begin(n, list)
    /\ Goto(n, "offer")
    /\ UNCHANGED <<holds, turn, breaks, start, synced>>

\* The own hold is looked at when the peer's answer is here.
Offer(n) ==
    /\ pc[n] = "offer"
    /\ Begin(n, Offered(n, ToSet(entries[n])))
    /\ Goto(n, "push")
    /\ UNCHANGED <<holds, turn, breaks, start, synced>>

\* The next body is corrupt here, or the peer refuses it: the rate (429) is
\* looked at before the token, the space (507) after it.
NotPushed(n) ==
    /\ pc[n] = "push" /\ ~ AtEnd(n)
    /\ Entry(n) \in corrupt[n] \/ Peer(n) \in Full \cup Liars
    /\ Advance(n)
    /\ UNCHANGED <<holds, pc, turn, breaks, start, synced>>

\* PutObject: the peer stores the body under its hash unless it has it.  A liar
\* may say so without doing it.
PushBody(n) ==
    /\ pc[n] = "push" /\ ~ AtEnd(n) /\ Entry(n) \notin corrupt[n]
    /\ Peer(n) \notin Locked \/ Peer(n) \in Liars
    /\ \/ /\ Entry(n) \notin Held(Peer(n))
          /\ hold' = [hold EXCEPT ![Peer(n)] = Append(@, Entry(n))]
       \/ /\ Entry(n) \in Held(Peer(n)) \/ Peer(n) \in Liars
          /\ UNCHANGED hold
    /\ Advance(n)
    /\ UNCHANGED <<corrupt, pc, turn, breaks, start, synced>>

\* The peer wants a token (401), or a liar names another hash as stored: that
\* ends it for this peer.
PushRejected(n) ==
    /\ pc[n] = "push" /\ ~ AtEnd(n) /\ Entry(n) \notin corrupt[n]
    /\ Peer(n) \in Locked \cup Liars
    /\ NextPeer(n)
    /\ UNCHANGED <<holds, breaks, synced>>

PushEnds(n) ==
    /\ pc[n] = "push" /\ AtEnd(n)
    /\ synced' = [synced EXCEPT ![n] = @ \cup {Peer(n)}]
    /\ NextPeer(n)
    /\ UNCHANGED <<holds, breaks>>

Step(n) ==
    \/ PassStarts(n) \/ PassEnds(n) \/ Connect(n) \/ ConnectFails(n)
    \/ PullChain(n) \/ Malformed(n) \/ Skip(n) \/ Ask(n) \/ PullEnds(n)
    \/ Fetch(n) \/ NotServed(n) \/ Tampered(n)
    \/ PushChain(n) \/ Offer(n) \/ NotPushed(n) \/ PushBody(n) \/ PushRejected(n) \/ PushEnds(n)

Next == \E n \in Loopers : Step(n) \/ CallFails(n)

Spec == Init /\ [][Next]_vars

\* Every loop goes on: its process runs, it sleeps for a bounded time, and a
\* peer that accepted a connection answers or the connection breaks.
FairSpec == Spec /\ \A n \in Loopers : WF_vars(Step(n))

-----------------------------------------------------------------------------
(* Properties. *)

\* No hold has two files of one name.
HoldsOK ==
    /\ hold \in [Nodes -> Seq(Bodies)] /\ \A n \in Nodes : IsInjective(hold[n])
    /\ corrupt \in [Nodes -> SUBSET Bodies]
    /\ \A n \in Nodes : corrupt[n] \subseteq Held(n)

\* A loop's place in the peers list and in its list of bodies fits what it does.
PlaceOK(n) ==
    /\ turn[n] <= Len(Peers[n]) + 1
    /\ pc[n] \notin {"sleep", "connect"} => turn[n] <= Len(Peers[n])
    /\ place[n] <= Len(entries[n]) + 1
    /\ pc[n] = "get" => ~ AtEnd(n) /\ place[n] <= FetchCap
    /\ pc[n] = "push" => Len(entries[n]) <= PushCap

LoopsOK ==
    /\ pc \in [Loopers -> {"sleep", "connect", "chain", "pull", "get", "peerchain", "offer",
                        "push"}]
    /\ turn \in [Loopers -> Nat \ {0}]
    /\ entries \in [Loopers -> Seq(Bodies)]
    /\ place \in [Loopers -> Nat \ {0}]
    /\ \A n \in Loopers : PlaceOK(n)

\* The type invariant of the holds and the loops (sync_pass 1006-1042).
TypeOK ==
    /\ HoldsOK /\ LoopsOK
    /\ breaks \in 0..MaxBreaks
    /\ start \in [Loopers -> SUBSET Bodies]
    /\ synced \in [Loopers -> SUBSET Nodes]

\* The loops only carry intact bodies to holds that have nothing of that name,
\* liars and corrupt files notwithstanding (sync_stream 793-800, serve_body
\* 308-315, push_stream 856-863, store_body).
Carrying == INSTANCE Gossip WITH held <- [n \in Nodes |-> Held(n)],
                                 whole <- [n \in Nodes |-> Whole(n)]
OnlyCarries == Carrying!Spec

\* A peer that runs this program is counted as synced only when each side has
\* every body the other had intact when they connected, whoever else writes to
\* the two holds in the meantime; unless it refuses pushes or a cap was hit.
\* "One pull+push pass over one socket per peer makes BOTH stores converge to
\* the union" (spore_peer.rs 2532-2534).  A peer that lies about its chain or
\* about what it stored is counted too (1021-1024): nothing here tells.
SyncedMeansUnion ==
    [][\A n \in Loopers : \A p \in (synced'[n] \ synced[n]) \ (Full \cup Liars) :
          Len(entries[n]) < PushCap => start[n] \subseteq Held(n)' \cap Held(p)']_vars

Honest(n) == {Peers[n][j] : j \in DOMAIN Peers[n]} \ (Dead \cup Liars)

\* What an honest peer has intact arrives, whatever other peers of the list do:
\* "convergence must not depend on every peer being online" (1001-1005).
Pulled ==
    \A n \in Loopers : \A p \in Honest(n) : \A b \in Bodies :
        b \in Whole(p) ~> b \in Held(n)

\* What is intact here arrives at each honest peer that takes pushes.
Pushed ==
    \A n \in Loopers : \A p \in Honest(n) \ (Locked \cup Full) : \A b \in Bodies :
        b \in Whole(n) ~> b \in Held(p)
=============================================================================
