--------------------------- MODULE SyncLoopProofs ---------------------------
(***************************************************************************)
(* Proofs about SyncLoop: its type invariant, that it implements Gossip,   *)
(* and that a synced pair of holds has met in the union of the two.        *)
(***************************************************************************)
EXTENDS SyncLoop, VecProofs

-----------------------------------------------------------------------------
(* The lists of bodies. *)

\* A file written under a name that is new becomes the newest of the hold
\* (store_body, fs::write in sync_stream 800).
LEMMA AppendHeld ==
    ASSUME NEW s \in Seq(Bodies), IsInjective(s), NEW b \in Bodies, b \notin ToSet(s)
    PROVE  /\ Append(s, b) \in Seq(Bodies)
           /\ IsInjective(Append(s, b))
           /\ ToSet(Append(s, b)) = ToSet(s) \cup {b}
<1>1. Len(s) \in Nat /\ DOMAIN s = 1..Len(s)
  BY LenProperties
<1>2. /\ Append(s, b) \in Seq(Bodies)
      /\ DOMAIN Append(s, b) = 1..(Len(s) + 1)
      /\ \A i \in 1..Len(s) : Append(s, b)[i] = s[i]
      /\ Append(s, b)[Len(s) + 1] = b
  BY <1>1
<1> DEFINE t == Append(s, b)
<1> HIDE DEF t
<1>3. \A i \in DOMAIN t : i \in 1..Len(s) \/ i = Len(s) + 1
  BY <1>1, <1>2 DEF t
<1>4. IsInjective(t)
  <2>1. SUFFICES ASSUME NEW i \in DOMAIN t, NEW j \in DOMAIN t, t[i] = t[j]
                 PROVE  i = j
    BY DEF IsInjective
  <2>2. \A k \in 1..Len(s) : s[k] # b
    BY <1>1 DEF ToSet
  <2> QED BY <1>1, <1>2, <1>3, <2>1, <2>2 DEF IsInjective, t
<1>5. ToSet(t) = ToSet(s) \cup {b}
  <2>1. Len(s) + 1 \in DOMAIN t /\ \A i \in 1..Len(s) : i \in DOMAIN t
    BY <1>1, <1>2 DEF t
  <2> QED BY <1>1, <1>2, <1>3, <2>1 DEF ToSet, t
<1> QED BY <1>2, <1>4, <1>5 DEF t

\* A file written anew moves to the end of the hold (fs::write in sync_stream
\* 800).
LEMMA StoredHeld ==
    ASSUME NEW s \in Seq(Bodies), IsInjective(s), NEW b \in Bodies
    PROVE  /\ Stored(s, b) \in Seq(Bodies)
           /\ IsInjective(Stored(s, b))
           /\ ToSet(Stored(s, b)) = ToSet(s) \cup {b}
<1> DEFINE K == {j \in DOMAIN s : s[j] # b}
           k == Keep(s, K)
<1>1. /\ k \in Seq(Bodies)
      /\ \A j \in DOMAIN k : \E i \in K : k[j] = s[i]
      /\ \A i \in K : \E j \in DOMAIN k : k[j] = s[i]
  <2>1. K \subseteq DOMAIN s
    OBVIOUS
  <2> HIDE DEF K
  <2> QED BY <2>1, KeepKeeps
<1>2. IsInjective(k)
  BY KeepInjective
<1> HIDE DEF k
<1>3. ToSet(k) = ToSet(s) \ {b}
  <2>1. \A c \in ToSet(k) : c \in ToSet(s) \ {b}
    BY <1>1 DEF ToSet
  <2>2. ASSUME NEW c \in ToSet(s) \ {b} PROVE c \in ToSet(k)
    <3>1. PICK i \in DOMAIN s : s[i] = c
      BY DEF ToSet
    <3> QED BY <3>1, <1>1 DEF ToSet
  <2> QED BY <2>1, <2>2
<1>4. /\ Append(k, b) \in Seq(Bodies)
      /\ IsInjective(Append(k, b))
      /\ ToSet(Append(k, b)) = ToSet(k) \cup {b}
  BY <1>1, <1>2, <1>3, AppendHeld
<1>5. Stored(s, b) = Append(k, b)
  BY DEF Stored, k
<1> QED BY <1>3, <1>4, <1>5

\* The answer to Peer.Chain lists bodies of the hold (chain_view).
LEMMA ChainType ==
    ASSUME NEW s \in Seq(Bodies)
    PROVE  Chain(s) \in Seq(Bodies) /\ ToSet(Chain(s)) \subseteq ToSet(s)
<1> DEFINE n == IF Len(s) < ChainCap THEN Len(s) ELSE ChainCap
<1>1. n \in Nat /\ Len(s) \in Nat /\ n <= Len(s)
  BY LenProperties, SyncAssumption
<1>2. \A j \in 1..n : s[Len(s) + 1 - j] \in Bodies /\ s[Len(s) + 1 - j] \in ToSet(s)
  <2>1. TAKE j \in 1..n
  <2>2. Len(s) + 1 - j \in 1..Len(s)
    BY <1>1
  <2> QED BY <2>2, ElementOfSeq, LenProperties DEF ToSet
<1>3. [j \in 1..n |-> s[Len(s) + 1 - j]] \in Seq(Bodies)
  <2> HIDE DEF n
  <2> QED BY <1>1, <1>2, IsASeq
<1>4. Chain(s) = [j \in 1..n |-> s[Len(s) + 1 - j]]
  BY DEF Chain
<1> HIDE DEF n
<1> QED BY <1>2, <1>3, <1>4 DEF ToSet

\* Whatever a peer answers, a liar included, is a list of bodies once it is read.
LEMMA AnswersType ==
    ASSUME NEW n \in Loopers, hold[Peer(n)] \in Seq(Bodies), NEW list \in ChainAnswers(n)
    PROVE  list \in Seq(Bodies)
<1>1. CASE list = Chain(hold[Peer(n)])
  BY <1>1, ChainType
<1>2. CASE list \in Claims
  BY <1>2, SyncAssumption
<1> QED BY <1>1, <1>2 DEF ChainAnswers

\* A push offers PushCap bodies at most, all of the hold (push_stream 843-853).
LEMMA OfferedType ==
    ASSUME NEW n \in Nodes, NEW T, hold[n] \in Seq(Bodies)
    PROVE  /\ Offered(n, T) \in Seq(Bodies)
           /\ Len(Offered(n, T)) <= PushCap
           /\ ToSet(Offered(n, T)) \subseteq Held(n)
<1> DEFINE K == {j \in DOMAIN hold[n] : hold[n][j] \notin T}
           k == Keep(hold[n], K)
<1>1. /\ k \in Seq(Bodies)
      /\ \A j \in DOMAIN k : \E i \in K : k[j] = hold[n][i]
  <2>1. K \subseteq DOMAIN hold[n]
    OBVIOUS
  <2> HIDE DEF K
  <2> QED BY <2>1, KeepKeeps
<1>2. Offered(n, T) = FirstOf(k, PushCap)
  BY DEF Offered
<1>3. ToSet(k) \subseteq Held(n)
  BY <1>1 DEF ToSet, Held
<1> HIDE DEF k
<1>4. Len(k) \in Nat /\ PushCap \in Nat
  BY <1>1, LenProperties, SyncAssumption
<1>5. CASE Len(k) <= PushCap
  BY <1>1, <1>2, <1>3, <1>5 DEF FirstOf
<1>6. CASE ~ (Len(k) <= PushCap)
  <2> DEFINE t == SubSeq(k, 1, PushCap)
  <2>1. t \in Seq(Bodies) /\ Len(t) = PushCap /\ DOMAIN t = 1..PushCap
        /\ \A i \in 1..PushCap : t[i] = k[i]
    BY <1>1, <1>4, <1>6
  <2>2. \A i \in 1..PushCap : i \in DOMAIN k
    BY <1>1, <1>4, <1>6, LenProperties
  <2> HIDE DEF t
  <2>3. ToSet(t) \subseteq ToSet(k)
    BY <2>1, <2>2 DEF ToSet
  <2>4. FirstOf(k, PushCap) = t
    BY <1>6 DEF FirstOf, t
  <2> QED BY <1>2, <1>3, <1>4, <2>1, <2>3, <2>4
<1> QED BY <1>5, <1>6
\* A looper that is with a peer is with one of the nodes (sync_pass 1006-1010).
LEMMA PeerNode ==
    ASSUME LoopsOK, NEW n \in Loopers, turn[n] <= Len(Peers[n])
    PROVE  Peer(n) \in Nodes
<1>1. Peers[n] \in Seq(Nodes) /\ turn[n] \in Nat \ {0}
  BY SyncAssumption DEF LoopsOK
<1>2. turn[n] \in 1..Len(Peers[n])
  BY <1>1, LenProperties
<1> QED BY <1>1, <1>2, ElementOfSeq DEF Peer

\* The entry a looper is at is a body (sync_stream 772, push_stream 847).
LEMMA EntryBody ==
    ASSUME LoopsOK, NEW n \in Loopers, ~ AtEnd(n)
    PROVE  Entry(n) \in Bodies /\ Entry(n) \in ToSet(entries[n])
<1>1. entries[n] \in Seq(Bodies) /\ place[n] \in Nat \ {0}
  BY DEF LoopsOK
<1>2. place[n] \in DOMAIN entries[n] /\ place[n] \in 1..Len(entries[n])
  BY <1>1, LenProperties DEF AtEnd
<1> QED BY <1>1, <1>2, ElementOfSeq DEF Entry, ToSet

-----------------------------------------------------------------------------
(* The type invariant. *)

\* A looper that goes to the next peer keeps its place right (sync_pass
\* 1006-1042).
LEMMA NextPeerLoops ==
    ASSUME LoopsOK, NEW n \in Loopers, turn[n] <= Len(Peers[n]), NextPeer(n)
    PROVE  LoopsOK'
<1>1. Len(Peers[n]) \in Nat
  BY SyncAssumption, LenProperties
<1>2. <<>> \in Seq(Bodies) /\ Len(<<>>) = 0
  BY EmptySeq
<1>3. ASSUME NEW m \in Loopers PROVE PlaceOK(m)'
  <2>1. CASE m = n
    BY <2>1, <1>1, <1>2 DEF LoopsOK, PlaceOK, NextPeer, Goto, Begin, AtEnd
  <2>2. CASE m # n
    BY <2>2 DEF LoopsOK, PlaceOK, NextPeer, Goto, Begin, AtEnd
  <2> QED BY <2>1, <2>2
<1> QED BY <1>2, <1>3 DEF LoopsOK, NextPeer, Goto, Begin
\* The initial state has the right types (every hold is a directory, the loops
\* sleep).
LEMMA TypeInit == Init => TypeOK
<1> SUFFICES ASSUME Init PROVE TypeOK
  OBVIOUS
<1>1. HoldsOK
  BY SyncAssumption DEF Init, HoldsOK, Held
<1>2. LoopsOK
  <2>1. ASSUME NEW n \in Loopers PROVE PlaceOK(n)
    <3>1. Len(Peers[n]) \in Nat
      BY SyncAssumption, LenProperties
    <3> QED BY <3>1, EmptySeq DEF Init, PlaceOK
  <2> QED BY <2>1, EmptySeq DEF Init, LoopsOK
<1> QED BY <1>1, <1>2, SyncAssumption DEF Init, TypeOK

\* Every step keeps the types (sync_pass, sync_stream, push_stream).
LEMMA TypeStep ==
    ASSUME TypeOK, [Next]_vars
    PROVE  TypeOK'
<1>u. CASE UNCHANGED vars
  <2>1. LoopsOK'
    BY <1>u DEF TypeOK, LoopsOK, PlaceOK, AtEnd, vars, position
  <2> QED BY <1>u, <2>1 DEF TypeOK, HoldsOK, Held, vars, holds
<1> SUFFICES ASSUME NEW n \in Loopers, Step(n) \/ CallFails(n)
             PROVE  TypeOK'
  BY <1>u DEF Next
<1>n. n \in Nodes
  BY SyncAssumption
<1> USE DEF TypeOK
<1>l. Len(Peers[n]) \in Nat /\ FetchCap \in Nat /\ PushCap \in Nat
  BY SyncAssumption, LenProperties
<1>h. UNCHANGED holds => HoldsOK'
  BY DEF HoldsOK, Held, holds
<1>s. [start EXCEPT ![n] = {}] \in [Loopers -> SUBSET Bodies]
  OBVIOUS
<1>1. ASSUME PassStarts(n) PROVE TypeOK'
  <2>1. LoopsOK'
    <3>1. ASSUME NEW m \in Loopers PROVE PlaceOK(m)'
      BY <1>1, <1>l DEF PassStarts, LoopsOK, PlaceOK, AtEnd, Goto, position
    <3> QED BY <1>1, <3>1 DEF PassStarts, LoopsOK, Goto, position
  <2> QED BY <1>1, <2>1, <1>h DEF PassStarts
<1>2. ASSUME PassEnds(n) PROVE TypeOK'
  <2>1. LoopsOK'
    <3>1. ASSUME NEW m \in Loopers PROVE PlaceOK(m)'
      BY <1>2 DEF PassEnds, LoopsOK, PlaceOK, AtEnd, Entry, Goto, position
    <3> QED BY <1>2, <3>1 DEF PassEnds, LoopsOK, Goto, position
  <2> QED BY <1>2, <2>1, <1>h DEF PassEnds, holds
<1>3. ASSUME Connect(n) PROVE TypeOK'
  <2>1. LoopsOK'
    <3>1. ASSUME NEW m \in Loopers PROVE PlaceOK(m)'
      BY <1>3 DEF Connect, LoopsOK, PlaceOK, AtEnd, Goto, position
    <3> QED BY <1>3, <3>1 DEF Connect, LoopsOK, Goto, position
  <2>2. Whole(n) \cup Whole(Peer(n)) \subseteq Bodies
    <3>1. Peer(n) \in Nodes
      BY <1>3, PeerNode DEF Connect
    <3>2. \A m \in Nodes : Held(m) \subseteq Bodies
      BY LenProperties, ElementOfSeq DEF HoldsOK, Held, ToSet
    <3> QED BY <3>1, <3>2, <1>n DEF Whole
  <2>3. start' \in [Loopers -> SUBSET Bodies]
    BY <1>3, <2>2 DEF Connect
  <2> QED BY <1>3, <2>1, <2>3, <1>h DEF Connect
<1>4. ASSUME ConnectFails(n) PROVE TypeOK'
  <2>1. turn[n] <= Len(Peers[n]) /\ NextPeer(n) /\ UNCHANGED holds
    BY <1>4 DEF ConnectFails, LoopsOK, PlaceOK
  <2>2. LoopsOK'
    BY <2>1, NextPeerLoops
  <2> QED BY <1>4, <2>1, <2>2, <1>h, <1>s DEF ConnectFails, NextPeer
<1>5. ASSUME PullChain(n) PROVE TypeOK'
  <2>2. PICK list \in ChainAnswers(n) : Begin(n, list)
    BY <1>5 DEF PullChain
  <2>1. list \in Seq(Bodies)
    <3>1. Peer(n) \in Nodes
      BY <1>5, PeerNode DEF PullChain, LoopsOK, PlaceOK
    <3> QED BY <3>1, AnswersType DEF HoldsOK
  <2>3. LoopsOK'
    <3>1. ASSUME NEW m \in Loopers PROVE PlaceOK(m)'
      BY <1>5, <2>1, <2>2 DEF PullChain, LoopsOK, PlaceOK, AtEnd, Goto, Begin
    <3> QED BY <1>5, <2>1, <2>2, <3>1 DEF PullChain, LoopsOK, Goto, Begin
  <2> QED BY <1>5, <2>3, <1>h DEF PullChain
<1>6. ASSUME Skip(n) PROVE TypeOK'
  <2>1. LoopsOK'
    <3>1. ASSUME NEW m \in Loopers PROVE PlaceOK(m)'
      BY <1>6 DEF Skip, LoopsOK, PlaceOK, AtEnd, Entry, Goto, Advance
    <3> QED BY <1>6, <3>1 DEF Skip, LoopsOK, Goto, Advance
  <2> QED BY <1>6, <2>1, <1>h DEF Skip
<1>7. ASSUME Ask(n) PROVE TypeOK'
  <2>1. LoopsOK'
    <3>1. ASSUME NEW m \in Loopers PROVE PlaceOK(m)'
      BY <1>7 DEF Ask, LoopsOK, PlaceOK, AtEnd, Entry, Goto, position
    <3> QED BY <1>7, <3>1 DEF Ask, LoopsOK, Goto, position
  <2> QED BY <1>7, <2>1, <1>h DEF Ask, holds
<1>8. ASSUME PullEnds(n) PROVE TypeOK'
  <2>1. LoopsOK'
    <3>1. ASSUME NEW m \in Loopers PROVE PlaceOK(m)'
      BY <1>8 DEF PullEnds, LoopsOK, PlaceOK, AtEnd, Entry, Goto, position
    <3> QED BY <1>8, <3>1 DEF PullEnds, LoopsOK, Goto, position
  <2> QED BY <1>8, <2>1, <1>h DEF PullEnds, holds
<1>9. ASSUME Fetch(n) PROVE TypeOK'
  <2>1. LoopsOK'
    <3>1. ASSUME NEW m \in Loopers PROVE PlaceOK(m)'
      BY <1>9 DEF Fetch, LoopsOK, PlaceOK, AtEnd, Entry, Goto, Advance
    <3> QED BY <1>9, <3>1 DEF Fetch, LoopsOK, Goto, Advance
  <2>2. HoldsOK'
    <3>1. Entry(n) \in Bodies
      BY <1>9, EntryBody DEF Fetch, LoopsOK, PlaceOK
    <3>2. /\ Stored(hold[n], Entry(n)) \in Seq(Bodies)
          /\ IsInjective(Stored(hold[n], Entry(n)))
          /\ ToSet(Stored(hold[n], Entry(n))) = Held(n) \cup {Entry(n)}
      BY <3>1, <1>n, StoredHeld DEF HoldsOK, Held
    <3> QED BY <3>2, <1>9, <1>n DEF Fetch, HoldsOK, Held
  <2> QED BY <1>9, <2>1, <2>2 DEF Fetch
<1>10. ASSUME NotServed(n) PROVE TypeOK'
  <2>1. LoopsOK'
    <3>1. ASSUME NEW m \in Loopers PROVE PlaceOK(m)'
      BY <1>10 DEF NotServed, LoopsOK, PlaceOK, AtEnd, Entry, Goto, Advance
    <3> QED BY <1>10, <3>1 DEF NotServed, LoopsOK, Goto, Advance
  <2> QED BY <1>10, <2>1, <1>h DEF NotServed
<1>11. ASSUME Tampered(n) PROVE TypeOK'
  <2>1. turn[n] <= Len(Peers[n]) /\ NextPeer(n) /\ UNCHANGED holds
    BY <1>11 DEF Tampered, LoopsOK, PlaceOK
  <2>2. LoopsOK'
    BY <2>1, NextPeerLoops
  <2> QED BY <1>11, <2>1, <2>2, <1>h, <1>s DEF Tampered, NextPeer
<1>12. ASSUME PushChain(n) PROVE TypeOK'
  <2>2. PICK list \in ChainAnswers(n) : Begin(n, list)
    BY <1>12 DEF PushChain
  <2>1. list \in Seq(Bodies)
    <3>1. Peer(n) \in Nodes
      BY <1>12, PeerNode DEF PushChain, LoopsOK, PlaceOK
    <3> QED BY <3>1, AnswersType DEF HoldsOK
  <2>3. LoopsOK'
    <3>1. ASSUME NEW m \in Loopers PROVE PlaceOK(m)'
      BY <1>12, <2>1, <2>2 DEF PushChain, LoopsOK, PlaceOK, AtEnd, Goto, Begin
    <3> QED BY <1>12, <2>1, <2>2, <3>1 DEF PushChain, LoopsOK, Goto, Begin
  <2> QED BY <1>12, <2>3, <1>h DEF PushChain
<1>13. ASSUME NotPushed(n) PROVE TypeOK'
  <2>1. LoopsOK'
    <3>1. ASSUME NEW m \in Loopers PROVE PlaceOK(m)'
      BY <1>13 DEF NotPushed, LoopsOK, PlaceOK, AtEnd, Entry, Goto, Advance
    <3> QED BY <1>13, <3>1 DEF NotPushed, LoopsOK, Goto, Advance
  <2> QED BY <1>13, <2>1, <1>h DEF NotPushed
<1>14. ASSUME PushBody(n) PROVE TypeOK'
  <2>1. LoopsOK'
    <3>1. ASSUME NEW m \in Loopers PROVE PlaceOK(m)'
      BY <1>14 DEF PushBody, LoopsOK, PlaceOK, AtEnd, Entry, Goto, Advance
    <3> QED BY <1>14, <3>1 DEF PushBody, LoopsOK, Goto, Advance
  <2>2. HoldsOK'
    <3>1. CASE UNCHANGED hold
      BY <3>1, <1>14 DEF PushBody, HoldsOK, Held
    <3>2. CASE ~ UNCHANGED hold
      <4>1. Entry(n) \in Bodies /\ Peer(n) \in Nodes
        BY <1>14, EntryBody, PeerNode DEF PushBody, LoopsOK, PlaceOK
      <4>2. /\ Append(hold[Peer(n)], Entry(n)) \in Seq(Bodies)
            /\ IsInjective(Append(hold[Peer(n)], Entry(n)))
            /\ ToSet(Append(hold[Peer(n)], Entry(n))) = Held(Peer(n)) \cup {Entry(n)}
        BY <1>14, <3>2, <4>1, AppendHeld DEF PushBody, HoldsOK, Held
      <4>3. hold' = [hold EXCEPT ![Peer(n)] = Append(hold[Peer(n)], Entry(n))]
        BY <3>2, <1>14 DEF PushBody
      <4> HIDE DEF Held
      <4> QED BY <4>1, <4>2, <4>3, <1>14 DEF PushBody, HoldsOK, Held
    <3> QED BY <3>1, <3>2
  <2> QED BY <1>14, <2>1, <2>2 DEF PushBody
<1>15. ASSUME PushRejected(n) PROVE TypeOK'
  <2>1. turn[n] <= Len(Peers[n]) /\ NextPeer(n) /\ UNCHANGED holds
    BY <1>15 DEF PushRejected, LoopsOK, PlaceOK
  <2>2. LoopsOK'
    BY <2>1, NextPeerLoops
  <2> QED BY <1>15, <2>1, <2>2, <1>h, <1>s DEF PushRejected, NextPeer
<1>16. ASSUME PushEnds(n) PROVE TypeOK'
  <2>1. turn[n] <= Len(Peers[n]) /\ NextPeer(n) /\ UNCHANGED holds
    BY <1>16 DEF PushEnds, LoopsOK, PlaceOK
  <2>2. LoopsOK'
    BY <2>1, NextPeerLoops
  <2>3. Peer(n) \in Nodes
    BY <2>1, PeerNode
  <2>4. synced' \in [Loopers -> SUBSET Nodes]
    BY <1>16, <2>3 DEF PushEnds
  <2> QED BY <1>16, <2>1, <2>2, <2>4, <1>h, <1>s DEF PushEnds, NextPeer
<1>18. ASSUME Malformed(n) PROVE TypeOK'
  <2>1. turn[n] <= Len(Peers[n]) /\ NextPeer(n) /\ UNCHANGED holds
    BY <1>18 DEF Malformed, LoopsOK, PlaceOK
  <2>2. LoopsOK'
    BY <2>1, NextPeerLoops
  <2> QED BY <1>18, <2>1, <2>2, <1>h, <1>s DEF Malformed, NextPeer
<1>19. ASSUME Offer(n) PROVE TypeOK'
  <2> DEFINE list == Offered(n, ToSet(entries[n]))
  <2>1. list \in Seq(Bodies) /\ Len(list) <= PushCap
    BY <1>n, OfferedType DEF HoldsOK
  <2>2. Begin(n, list)
    BY <1>19 DEF Offer
  <2> HIDE DEF list
  <2>3. LoopsOK'
    <3>1. ASSUME NEW m \in Loopers PROVE PlaceOK(m)'
      BY <1>19, <2>1, <2>2 DEF Offer, LoopsOK, PlaceOK, AtEnd, Goto, Begin
    <3> QED BY <1>19, <2>1, <2>2, <3>1 DEF Offer, LoopsOK, Goto, Begin
  <2> QED BY <1>19, <2>3, <1>h DEF Offer
<1>17. ASSUME CallFails(n) PROVE TypeOK'
  <2>1. turn[n] <= Len(Peers[n]) /\ NextPeer(n) /\ UNCHANGED holds
    BY <1>17 DEF CallFails, LoopsOK, PlaceOK
  <2>2. LoopsOK'
    BY <2>1, NextPeerLoops
  <2>3. breaks' \in 0..MaxBreaks
    BY <1>17, SyncAssumption DEF CallFails
  <2> QED BY <1>17, <2>1, <2>2, <2>3, <1>h, <1>s DEF CallFails, NextPeer
<1> QED BY <1>1, <1>2, <1>3, <1>4, <1>5, <1>6, <1>7, <1>8, <1>9, <1>10,
          <1>11, <1>12, <1>13, <1>14, <1>15, <1>16, <1>17, <1>18, <1>19 DEF Step

\* TypeOK holds throughout (sync_loop).
THEOREM TypeCorrect == Spec => []TypeOK
<1> QED BY TypeInit, TypeStep, PTL DEF Spec
-----------------------------------------------------------------------------
(* What a step does to the holds. *)

\* Only the arrival of a body and a push that is taken write to a hold.
LEMMA WritersOfHolds ==
    ASSUME [Next]_vars, ~ UNCHANGED holds
    PROVE  \E n \in Loopers : Fetch(n) \/ PushBody(n)
BY DEF Next, Step, vars, holds, PassStarts, PassEnds, Connect, ConnectFails, CallFails,
       PullChain, Malformed, Skip, Ask, PullEnds, NotServed, Tampered, PushChain, Offer, NotPushed,
       PushRejected, PushEnds

\* A pulled body is added to the looper's hold (sync_stream 800).
LEMMA FetchAdds ==
    ASSUME TypeOK, NEW n \in Loopers, Fetch(n)
    PROVE  \A m \in Nodes : Held(m)' = IF m = n THEN Held(m) \cup {Entry(n)} ELSE Held(m)
<1>1. n \in Nodes /\ Entry(n) \in Bodies
  BY SyncAssumption, EntryBody DEF TypeOK, Fetch, LoopsOK, PlaceOK
<1>2. ToSet(Stored(hold[n], Entry(n))) = ToSet(hold[n]) \cup {Entry(n)}
  BY <1>1, StoredHeld DEF TypeOK, HoldsOK
<1>3. hold' = [hold EXCEPT ![n] = Stored(hold[n], Entry(n))]
  BY DEF Fetch
<1> QED BY <1>1, <1>2, <1>3 DEF TypeOK, HoldsOK, Held

\* A pushed body is added to the peer's hold (store_body 234-235), or a liar
\* changes nothing.
LEMMA PushAdds ==
    ASSUME TypeOK, NEW n \in Loopers, PushBody(n), ~ (UNCHANGED hold /\ Peer(n) \in Liars)
    PROVE  \A m \in Nodes : Held(m)' = IF m = Peer(n) THEN Held(m) \cup {Entry(n)} ELSE Held(m)
<1>1. Peer(n) \in Nodes /\ Entry(n) \in Bodies
  BY PeerNode, EntryBody DEF TypeOK, PushBody, LoopsOK, PlaceOK
<1>2. CASE Entry(n) \in Held(Peer(n)) /\ UNCHANGED hold
  BY <1>1, <1>2 DEF Held
<1>3. CASE ~ (Entry(n) \in Held(Peer(n)) /\ UNCHANGED hold)
  <2>1. Entry(n) \notin Held(Peer(n))
        /\ hold' = [hold EXCEPT ![Peer(n)] = Append(hold[Peer(n)], Entry(n))]
    BY <1>3 DEF PushBody
  <2>2. ToSet(Append(hold[Peer(n)], Entry(n))) = ToSet(hold[Peer(n)]) \cup {Entry(n)}
    BY <1>1, <2>1, AppendHeld DEF TypeOK, HoldsOK, Held
  <2> QED BY <1>1, <2>1, <2>2 DEF TypeOK, HoldsOK, Held
<1> QED BY <1>2, <1>3

\* No hold forgets a body and no file of a hold changes.
LEMMA HoldsGrow ==
    ASSUME TypeOK, [Next]_vars
    PROVE  /\ UNCHANGED corrupt
           /\ \A m \in Nodes : Held(m) \subseteq Held(m)' /\ Whole(m) \subseteq Whole(m)'
<1>1. CASE UNCHANGED holds
  BY <1>1 DEF holds, Held, Whole
<1>2. CASE ~ UNCHANGED holds
  <2>1. PICK n \in Loopers : Fetch(n) \/ PushBody(n)
    BY <1>2, WritersOfHolds
  <2>2. UNCHANGED corrupt
    BY <2>1 DEF Fetch, PushBody
  <2>3. \A m \in Nodes : Held(m) \subseteq Held(m)'
    BY <1>2, <2>1, <2>2, FetchAdds, PushAdds DEF holds
  <2> HIDE DEF Held
  <2> QED BY <2>2, <2>3 DEF Whole
<1> QED BY <1>1, <1>2

-----------------------------------------------------------------------------
(* SyncLoop implements Gossip. *)

\* What a push has still to offer is in the hold of the looper, so that what it
\* sends without finding it corrupt is intact.
OfferedHeld ==
    \A n \in Loopers : pc[n] = "push" => ToSet(entries[n]) \subseteq Held(n)

\* The list of a push is drawn from a hold that only grows (push_stream 843-853).
LEMMA OfferedHeldStep ==
    ASSUME TypeOK, OfferedHeld, [Next]_vars
    PROVE  OfferedHeld'
<1>0. \A m \in Loopers : Held(m) \subseteq Held(m)'
  BY HoldsGrow, SyncAssumption
<1> HIDE DEF Held
<1> SUFFICES ASSUME NEW m \in Loopers, pc'[m] = "push"
             PROVE  ToSet(entries'[m]) \subseteq Held(m)'
  BY DEF OfferedHeld
<1>1. CASE pc[m] = "push" /\ entries'[m] = entries[m]
  BY <1>0, <1>1 DEF OfferedHeld
<1>2. CASE Offer(m)
  <2>1. ToSet(Offered(m, ToSet(entries[m]))) \subseteq Held(m)
    BY OfferedType, SyncAssumption DEF TypeOK, HoldsOK
  <2>2. entries'[m] = Offered(m, ToSet(entries[m]))
    BY <1>2 DEF Offer, Begin, TypeOK, LoopsOK
  <2> QED BY <1>0, <2>1, <2>2
<1>3. (pc[m] = "push" /\ entries'[m] = entries[m]) \/ Offer(m)
  <2>1. CASE UNCHANGED vars
    BY <2>1 DEF vars, position
  <2>2. ASSUME NEW n \in Loopers, Step(n) \/ CallFails(n)
        PROVE  (pc[m] = "push" /\ entries'[m] = entries[m]) \/ Offer(m)
    <3>1. CASE n = m
      BY <2>2, <3>1 DEF TypeOK, LoopsOK, Step, position, Goto, Advance, NextPeer,
            PassStarts, PassEnds, Connect, ConnectFails, CallFails, PullChain, Malformed, Skip, Ask,
            PullEnds, Fetch, NotServed, Tampered, PushChain, Offer, NotPushed, PushBody,
            PushRejected, PushEnds
    <3>2. CASE n # m
      BY <2>2, <3>2 DEF TypeOK, LoopsOK, Step, position, Goto, Advance, NextPeer, Begin,
            PassStarts, PassEnds, Connect, ConnectFails, CallFails, PullChain, Malformed, Skip, Ask,
            PullEnds, Fetch, NotServed, Tampered, PushChain, Offer, NotPushed, PushBody,
            PushRejected, PushEnds
    <3> QED BY <3>1, <3>2
  <2> QED BY <2>1, <2>2 DEF Next
<1> QED BY <1>1, <1>2, <1>3

\* Every step of the loops is a step of Gossip or changes no hold.
LEMMA CarryStep ==
    ASSUME TypeOK, OfferedHeld, [Next]_vars
    PROVE  [Carrying!Next]_<<[n \in Nodes |-> Held(n)], [n \in Nodes |-> Whole(n)]>>
<1> DEFINE held == [n \in Nodes |-> Held(n)]
           whole == [n \in Nodes |-> Whole(n)]
\* A step that adds an intact body of m to the hold of p, that may have it.
<1>c. ASSUME NEW m \in Nodes, NEW p \in Nodes, NEW b \in Bodies,
             b \in Whole(m), UNCHANGED corrupt,
             \A n \in Nodes : Held(n)' = IF n = p THEN Held(n) \cup {b} ELSE Held(n)
      PROVE  [Carrying!Next]_<<held, whole>>
  <2>1. CASE b \in Held(p)
    <3>1. \A n \in Nodes : Held(n)' = Held(n) /\ Whole(n)' = Whole(n)
      BY <1>c, <2>1 DEF Whole
    <3> QED BY <3>1
  <2>2. CASE b \notin Held(p)
    <3>1. b \notin corrupt[p]
      BY <2>2 DEF TypeOK, HoldsOK
    <3>2. \A n \in Nodes : Whole(n)' = IF n = p THEN Whole(n) \cup {b} ELSE Whole(n)
      BY <1>c, <3>1 DEF Whole
    <3>3. held' = [held EXCEPT ![p] = @ \cup {b}] /\ whole' = [whole EXCEPT ![p] = @ \cup {b}]
      BY <1>c, <3>2
    <3>4. b \in whole[m] \ held[p]
      BY <1>c, <2>2
    <3>5. Carrying!Carry(m, p, b)
      BY <3>3, <3>4 DEF Carrying!Carry
    <3> QED BY <3>5 DEF Carrying!Next
  <2> QED BY <2>1, <2>2
<1>1. CASE UNCHANGED holds
  BY <1>1 DEF holds, Held, Whole
<1>2. ASSUME NEW n \in Loopers, Fetch(n) PROVE [Carrying!Next]_<<held, whole>>
  <2>1. n \in Nodes /\ Peer(n) \in Nodes /\ Entry(n) \in Bodies
    BY <1>2, SyncAssumption, PeerNode, EntryBody DEF TypeOK, Fetch, LoopsOK, PlaceOK
  <2>2. Entry(n) \in Whole(Peer(n)) /\ UNCHANGED corrupt
    BY <1>2 DEF Fetch
  <2> QED BY <2>1, <2>2, <1>2, FetchAdds, <1>c
<1>3. ASSUME NEW n \in Loopers, PushBody(n), ~ UNCHANGED holds
      PROVE  [Carrying!Next]_<<held, whole>>
  <2>1. n \in Nodes /\ Peer(n) \in Nodes /\ Entry(n) \in Bodies
    BY <1>3, SyncAssumption, PeerNode, EntryBody DEF TypeOK, PushBody, LoopsOK, PlaceOK
  <2>2. Entry(n) \in ToSet(entries[n])
    BY <1>3, EntryBody DEF TypeOK, PushBody
  <2>3. Entry(n) \in Whole(n) /\ UNCHANGED corrupt
    BY <1>3, <2>2 DEF PushBody, OfferedHeld, Whole
  <2>4. ~ UNCHANGED hold
    BY <1>3, <2>3 DEF holds
  <2> QED BY <2>1, <2>3, <2>4, <1>3, PushAdds, <1>c
<1> QED BY <1>1, <1>2, <1>3, WritersOfHolds

\* Nothing but intact bodies is carried, and only to holds without a file of
\* that name: SyncLoop implements Gossip (sync_stream 793-800, serve_body
\* 308-315, push_stream 856-863, store_body).
THEOREM LoopsOnlyCarry == Spec => OnlyCarries
<1>1. Init => Carrying!Init
  <2> SUFFICES ASSUME Init PROVE Carrying!Init
    OBVIOUS
  <2>1. \A n \in Nodes : Held(n) \subseteq Bodies /\ Whole(n) \subseteq Held(n)
    BY TypeInit, LenProperties, ElementOfSeq DEF TypeOK, HoldsOK, Held, Whole, ToSet
  <2> HIDE DEF Held, Whole
  <2> QED BY <2>1 DEF Carrying!Init
<1>2. Init => OfferedHeld
  BY DEF Init, OfferedHeld
<1> QED BY <1>1, <1>2, OfferedHeldStep, CarryStep, TypeCorrect, PTL
       DEF Spec, OnlyCarries, Carrying!Spec
-----------------------------------------------------------------------------
(* A synced peer has what the looper has, and the looper what it has. *)

\* No cap of the pull direction is below the number of bodies there are.
Uncapped ==
    /\ IsFiniteSet(Bodies)
    /\ Cardinality(Bodies) <= ChainCap /\ Cardinality(Bodies) <= FetchCap

\* A hold has one file of each name at most (chain_view).
LEMMA HoldFits ==
    ASSUME IsFiniteSet(Bodies), NEW s \in Seq(Bodies), IsInjective(s)
    PROVE  Len(s) <= Cardinality(Bodies)
<1>1. Len(s) \in Nat /\ s \in [1..Len(s) -> Bodies]
  BY LenProperties
<1>2. s \in Injection(1..Len(s), Bodies)
  BY <1>1 DEF Injection
<1>3. Cardinality(1..Len(s)) <= Cardinality(Bodies)
  BY <1>2, FS_Injection
<1>4. Cardinality(1..Len(s)) = Len(s)
  BY <1>1, FS_Interval
<1> QED BY <1>3, <1>4

\* An answer to Peer.Chain that no cap cuts lists the whole hold (chain_view).
LEMMA ChainLists ==
    ASSUME NEW s \in Seq(Bodies), Len(s) <= ChainCap
    PROVE  Len(Chain(s)) = Len(s) /\ ToSet(s) \subseteq ToSet(Chain(s))
<1>1. Len(s) \in Nat /\ DOMAIN s = 1..Len(s)
  BY LenProperties
<1>2. Chain(s) = [j \in 1..Len(s) |-> s[Len(s) + 1 - j]]
  BY <1>1, SyncAssumption DEF Chain
<1>3. Chain(s) \in Seq(Bodies) /\ DOMAIN Chain(s) = 1..Len(s)
  BY <1>2, ChainType
<1>4. Len(Chain(s)) = Len(s)
  BY <1>1, <1>3, LenProperties
<1>5. ASSUME NEW b \in ToSet(s) PROVE b \in ToSet(Chain(s))
  <2>1. PICK i \in 1..Len(s) : s[i] = b
    BY <1>1 DEF ToSet
  <2>2. Len(s) + 1 - i \in 1..Len(s) /\ Len(s) + 1 - (Len(s) + 1 - i) = i
    BY <1>1
  <2>3. Chain(s)[Len(s) + 1 - i] = b
    BY <1>2, <2>1, <2>2
  <2> QED BY <1>3, <2>2, <2>3 DEF ToSet
<1> QED BY <1>4, <1>5

\* A push that PushCap does not cut offers all the peer did not list
\* (push_stream 843-853).
LEMMA OfferedLists ==
    ASSUME NEW n \in Nodes, NEW T, hold[n] \in Seq(Bodies), Len(Offered(n, T)) < PushCap
    PROVE  Held(n) \ T \subseteq ToSet(Offered(n, T))
<1> DEFINE K == {j \in DOMAIN hold[n] : hold[n][j] \notin T}
           k == Keep(hold[n], K)
<1>1. k \in Seq(Bodies) /\ \A i \in K : \E j \in DOMAIN k : k[j] = hold[n][i]
  <2>1. K \subseteq DOMAIN hold[n]
    OBVIOUS
  <2> HIDE DEF K
  <2> QED BY <2>1, KeepKeeps
<1>2. Offered(n, T) = FirstOf(k, PushCap)
  BY DEF Offered
<1>3. Held(n) \ T \subseteq ToSet(k)
  BY <1>1 DEF ToSet, Held
<1> HIDE DEF k
<1>4. Len(k) \in Nat /\ PushCap \in Nat
  BY <1>1, LenProperties, SyncAssumption
<1>5. ASSUME ~ (Len(k) <= PushCap) PROVE Len(Offered(n, T)) = PushCap
  BY <1>1, <1>2, <1>4, <1>5 DEF FirstOf
<1>6. Offered(n, T) = k
  BY <1>2, <1>4, <1>5 DEF FirstOf
<1> QED BY <1>3, <1>6

\* The looper has not yet come to the body in its list.
Ahead(n, b) == \E j \in place[n]..Len(entries[n]) : entries[n][j] = b

\* What is intact at one of the two sides stays intact there.  If the peer does
\* not lie, what the looper lacks is ahead of it while it pulls; when it has
\* pulled it lacks nothing; what the peer lists it has; and while the looper
\* pushes, what the peer lacks is ahead of it.
UnionAt(n) ==
    /\ pc[n] \notin {"sleep", "connect"} => start[n] \subseteq Whole(n) \cup Whole(Peer(n))
    /\ pc[n] \in {"pull", "get"} /\ Peer(n) \notin Liars =>
          /\ Len(entries[n]) <= FetchCap
          /\ \A b \in start[n] \ Held(n) : Ahead(n, b)
    /\ pc[n] \in {"peerchain", "offer", "push"} /\ Peer(n) \notin Liars =>
          start[n] \subseteq Held(n)
    /\ pc[n] = "offer" /\ Peer(n) \notin Liars => ToSet(entries[n]) \subseteq Held(Peer(n))
    /\ pc[n] = "push" /\ Peer(n) \notin Full \cup Liars =>
          (Len(entries[n]) < PushCap =>
             \A b \in start[n] \ Held(Peer(n)) : Ahead(n, b))

\* Whatever others write to the holds, a looper's progress stays true
\* (interleaved store_body and sync_stream of other nodes).
LEMMA UnionOfOthers ==
    ASSUME TypeOK, [Next]_vars, NEW m \in Loopers, UnionAt(m),
           pc'[m] = pc[m], turn'[m] = turn[m], start'[m] = start[m],
           entries'[m] = entries[m], place'[m] = place[m]
    PROVE  UnionAt(m)'
<1>1. \A x \in Nodes : Held(x) \subseteq Held(x)' /\ Whole(x) \subseteq Whole(x)'
  BY HoldsGrow
<1>2. Peer(m)' = Peer(m)
  BY DEF Peer
<1>3. m \in Nodes /\ (pc[m] \notin {"sleep", "connect"} => Peer(m) \in Nodes)
  BY SyncAssumption, PeerNode DEF TypeOK, LoopsOK, PlaceOK
<1>4. \A b : Ahead(m, b) => Ahead(m, b)'
  BY DEF Ahead
<1>5. Held(m) \subseteq Held(m)' /\ Whole(m) \subseteq Whole(m)'
  BY <1>1, <1>3
<1>6. pc[m] \notin {"sleep", "connect"} =>
         Held(Peer(m)) \subseteq Held(Peer(m))' /\ Whole(Peer(m)) \subseteq Whole(Peer(m))'
  BY <1>1, <1>2, <1>3 DEF Held, Whole
<1> HIDE DEF Held, Whole, Peer
<1> QED BY <1>2, <1>4, <1>5, <1>6 DEF UnionAt

\* A looper that moves on in its list has the rest ahead.
LEMMA AheadNext ==
    ASSUME TypeOK, NEW n \in Loopers, ~ AtEnd(n), Advance(n), NEW b, Ahead(n, b), b # Entry(n)
    PROVE  Ahead(n, b)'
<1>1. PICK j \in place[n]..Len(entries[n]) : entries[n][j] = b
  BY DEF Ahead
<1>2. place[n] \in Nat /\ Len(entries[n]) \in Nat /\ j # place[n]
  BY <1>1, LenProperties DEF TypeOK, LoopsOK, Entry
<1>3. place'[n] = place[n] + 1 /\ entries' = entries
  BY DEF Advance, TypeOK, LoopsOK
<1>4. j \in place'[n]..Len(entries'[n])
  BY <1>1, <1>2, <1>3
<1> QED BY <1>1, <1>3, <1>4 DEF Ahead

\* Nothing is ahead at the end of the list.
LEMMA NoneAhead ==
    ASSUME TypeOK, NEW n \in Loopers, AtEnd(n), NEW b
    PROVE  ~ Ahead(n, b)
BY LenProperties DEF TypeOK, LoopsOK, AtEnd, Ahead

\* All of a new list is ahead.
LEMMA AllAhead ==
    ASSUME TypeOK, NEW n \in Loopers, NEW list \in Seq(Bodies), Begin(n, list),
           NEW b \in ToSet(list)
    PROVE  Ahead(n, b)'
<1>1. entries'[n] = list /\ place'[n] = 1
  BY DEF Begin, TypeOK, LoopsOK
<1>2. PICK j \in 1..Len(list) : list[j] = b
  BY LenProperties DEF ToSet
<1> QED BY <1>1, <1>2 DEF Ahead
\* A step of one looper leaves the others where they are (sync_loop runs in one
\* process per node).
LEMMA OthersStay ==
    ASSUME TypeOK, NEW n \in Loopers, Step(n) \/ CallFails(n), NEW m \in Loopers, m # n
    PROVE  /\ pc'[m] = pc[m] /\ turn'[m] = turn[m] /\ start'[m] = start[m]
           /\ entries'[m] = entries[m] /\ place'[m] = place[m]
BY DEF TypeOK, LoopsOK, Step, position, Goto, Advance, NextPeer, Begin,
       PassStarts, PassEnds, Connect, ConnectFails, CallFails, PullChain, Malformed, Skip, Ask,
       PullEnds, Fetch, NotServed, Tampered, PushChain, Offer, NotPushed, PushBody,
       PushRejected, PushEnds

\* A looper that is not with a peer has nothing to show.
LEMMA UnionAtRest ==
    ASSUME NEW n, pc'[n] \in {"sleep", "connect"}
    PROVE  UnionAt(n)'
BY DEF UnionAt

\* Pulling brings all that the peer had intact (sync_stream 743-802).
LEMMA UnionOfPull ==
    ASSUME TypeOK, Uncapped, NEW n \in Loopers, UnionAt(n), [Next]_vars,
           PullChain(n) \/ Skip(n) \/ Ask(n) \/ PullEnds(n) \/ Fetch(n) \/ NotServed(n)
    PROVE  UnionAt(n)'
<1>p. n \in Nodes /\ Peer(n) \in Nodes /\ UNCHANGED <<turn, start>> /\ Peer(n)' = Peer(n)
  BY SyncAssumption, PeerNode
     DEF TypeOK, LoopsOK, PlaceOK, PullChain, Malformed, Skip, Ask, PullEnds, Fetch, NotServed, Peer
<1>g. \A x \in Nodes : Held(x) \subseteq Held(x)' /\ Whole(x) \subseteq Whole(x)'
  BY HoldsGrow
<1>w. /\ start'[n] \subseteq Whole(n)' \cup Whole(Peer(n))'
      /\ \A b \in start[n] \ Held(n) : b \in Whole(Peer(n))
  <2>1. start[n] \subseteq Whole(n) \cup Whole(Peer(n))
    BY DEF UnionAt, PullChain, Malformed, Skip, Ask, PullEnds, Fetch, NotServed
  <2>2. Whole(n) \subseteq Held(n)
    BY DEF Whole
  <2>3. Whole(n) \subseteq Whole(n)' /\ Whole(Peer(n)) \subseteq Whole(Peer(n))'
    BY <1>p, <1>g DEF Whole, Held
  <2> QED BY <2>1, <2>2, <2>3, <1>p
<1>h. Held(n) \subseteq Held(n)'
  BY <1>p, <1>g
<1> HIDE DEF Held, Whole, Peer
<1>n. ASSUME Peer(n) \in Liars, pc'[n] \in {"pull", "get", "peerchain"} PROVE UnionAt(n)'
  BY <1>n, <1>p, <1>w DEF UnionAt
<1>m. pc'[n] \in {"pull", "get", "peerchain"}
  BY DEF PullChain, Skip, Ask, PullEnds, Fetch, NotServed, Goto, TypeOK, LoopsOK
<1> SUFFICES ASSUME Peer(n) \notin Liars PROVE UnionAt(n)'
  BY <1>n, <1>m
\* Going on past the entry n is at leaves what n lacks ahead.
<1>a. ASSUME ~ AtEnd(n), Advance(n), pc[n] \in {"pull", "get"}, pc'[n] = "pull",
             \A b \in start[n] \ Held(n)' : b # Entry(n)
      PROVE  UnionAt(n)'
  <2>1. \A b \in start[n] \ Held(n)' : Ahead(n, b)'
    BY <1>a, <1>h, AheadNext DEF UnionAt
  <2>2. Len(entries'[n]) <= FetchCap
    BY <1>a DEF UnionAt, Advance
  <2> QED BY <1>a, <1>p, <1>w, <2>1, <2>2 DEF UnionAt
<1>1. CASE PullChain(n)
  <2> DEFINE list == Chain(hold[Peer(n)])
  <2>1. hold[Peer(n)] \in Seq(Bodies) /\ IsInjective(hold[Peer(n)])
    BY <1>p DEF TypeOK, HoldsOK
  <2>2. Len(hold[Peer(n)]) <= ChainCap /\ Len(hold[Peer(n)]) <= FetchCap
    BY <2>1, HoldFits, SyncAssumption, LenProperties, FS_CardinalityType DEF Uncapped
  <2>3. list \in Seq(Bodies) /\ Len(list) <= FetchCap /\ Held(Peer(n)) \subseteq ToSet(list)
    BY <2>1, <2>2, ChainType, ChainLists DEF Held
  <2>4. Begin(n, list) /\ pc'[n] = "pull"
    BY <1>1 DEF PullChain, ChainAnswers, Goto, TypeOK, LoopsOK
  <2>5. entries'[n] = list
    BY <2>4 DEF Begin, TypeOK, LoopsOK
  <2> HIDE DEF list
  <2>6. ASSUME NEW b \in start[n] \ Held(n)' PROVE Ahead(n, b)'
    <3>1. b \in ToSet(list)
      BY <1>h, <1>w, <2>3 DEF Whole
    <3> QED BY <3>1, <2>3, <2>4, AllAhead
  <2> QED BY <2>3, <2>4, <2>5, <2>6, <1>p, <1>w DEF UnionAt
<1>2. CASE Skip(n)
  BY <1>2, <1>a, <1>h DEF Skip
<1>3. CASE Ask(n)
  <2>1. /\ pc[n] = "pull" /\ pc'[n] = "get"
        /\ entries'[n] = entries[n] /\ place'[n] = place[n] /\ UNCHANGED holds
    BY <1>3 DEF Ask, Goto, position, TypeOK, LoopsOK
  <2>2. \A b \in start[n] \ Held(n)' : Ahead(n, b)'
    BY <1>h, <2>1 DEF UnionAt, Ahead
  <2> QED BY <2>1, <2>2, <1>p, <1>w DEF UnionAt
<1>4. CASE PullEnds(n)
  <2>1. pc[n] = "pull" /\ pc'[n] = "peerchain"
    BY <1>4 DEF PullEnds, Goto, TypeOK, LoopsOK
  <2>2. AtEnd(n)
    BY <1>4, <2>1, LenProperties, SyncAssumption DEF PullEnds, AtEnd, UnionAt, TypeOK, LoopsOK
  <2>3. start[n] \subseteq Held(n)
    BY <2>1, <2>2, NoneAhead DEF UnionAt
  <2> QED BY <2>1, <2>3, <1>h, <1>p, <1>w DEF UnionAt
<1>5. CASE Fetch(n)
  <2>1. pc[n] = "get" /\ pc'[n] = "pull" /\ Advance(n) /\ ~ AtEnd(n)
    BY <1>5 DEF Fetch, Goto, TypeOK, LoopsOK, PlaceOK
  <2>2. Entry(n) \in Held(n)'
    BY <1>5, <1>p, FetchAdds
  <2> QED BY <2>1, <2>2, <1>a
<1>6. CASE NotServed(n)
  <2>1. pc[n] = "get" /\ pc'[n] = "pull" /\ Advance(n) /\ ~ AtEnd(n)
    BY <1>6 DEF NotServed, Goto, TypeOK, LoopsOK, PlaceOK
  <2>2. Entry(n) \notin Whole(Peer(n))
    BY <1>6 DEF NotServed
  <2> QED BY <2>1, <2>2, <1>a, <1>h, <1>w
<1> QED BY <1>1, <1>2, <1>3, <1>4, <1>5, <1>6

\* Pushing brings an honest peer all that was intact here (push_stream 843-896).
LEMMA UnionOfPush ==
    ASSUME TypeOK, NEW n \in Loopers, UnionAt(n), [Next]_vars,
           PushChain(n) \/ Offer(n) \/ NotPushed(n) \/ PushBody(n)
    PROVE  UnionAt(n)'
<1>p. n \in Nodes /\ Peer(n) \in Nodes /\ UNCHANGED <<turn, start>> /\ Peer(n)' = Peer(n)
  BY SyncAssumption, PeerNode
     DEF TypeOK, LoopsOK, PlaceOK, PushChain, Offer, NotPushed, PushBody, Peer
<1>g. \A x \in Nodes : Held(x) \subseteq Held(x)' /\ Whole(x) \subseteq Whole(x)'
  BY HoldsGrow
<1>q. /\ pc[n] \in {"peerchain", "offer", "push"} /\ pc'[n] \in {"offer", "push"}
      /\ pc'[n] = "offer" => PushChain(n)
  BY DEF PushChain, Offer, NotPushed, PushBody, Goto, TypeOK, LoopsOK
<1>h. Held(n) \subseteq Held(n)' /\ Held(Peer(n)) \subseteq Held(Peer(n))'
  BY <1>p, <1>g DEF Held
<1>w. start'[n] \subseteq Whole(n)' \cup Whole(Peer(n))'
  <2>1. start[n] \subseteq Whole(n) \cup Whole(Peer(n))
    BY <1>q DEF UnionAt
  <2>2. Whole(n) \subseteq Whole(n)' /\ Whole(Peer(n)) \subseteq Whole(Peer(n))'
    BY <1>p, <1>g DEF Whole, Held
  <2> QED BY <2>1, <2>2, <1>p
<1> SUFFICES ASSUME Peer(n) \notin Liars PROVE UnionAt(n)'
  <2> HIDE DEF Held, Whole, Peer
  <2> QED BY <1>p, <1>q, <1>w DEF UnionAt
<1>v. /\ start[n] \subseteq Held(n)
      /\ \A b \in start[n] \ Held(Peer(n)) : b \in Whole(n)
  <2>1. start[n] \subseteq Whole(n) \cup Whole(Peer(n)) /\ start[n] \subseteq Held(n)
    BY <1>q DEF UnionAt
  <2>2. Whole(Peer(n)) \subseteq Held(Peer(n))
    BY DEF Whole
  <2> QED BY <2>1, <2>2
<1> HIDE DEF Held, Whole, Peer
<1>1. CASE PushChain(n)
  <2> DEFINE list == Chain(hold[Peer(n)])
  <2>1. Begin(n, list) /\ pc'[n] = "offer"
    BY <1>1 DEF PushChain, ChainAnswers, Goto, TypeOK, LoopsOK
  <2>2. entries'[n] = list
    BY <2>1 DEF Begin, TypeOK, LoopsOK
  <2>3. ToSet(list) \subseteq Held(Peer(n))
    BY <1>p, ChainType DEF TypeOK, HoldsOK, Held
  <2> HIDE DEF list
  <2> QED BY <1>p, <1>h, <1>w, <1>v, <2>1, <2>2, <2>3 DEF UnionAt
<1> SUFFICES ASSUME ~ PushChain(n), Peer(n) \notin Full, Len(entries'[n]) < PushCap,
                    NEW b \in start[n] \ Held(Peer(n))'
             PROVE  Ahead(n, b)'
  BY <1>p, <1>q, <1>h, <1>w, <1>v, <1>1 DEF UnionAt
<1>b. b \in Held(n) /\ b \notin Held(Peer(n)) /\ b \notin corrupt[n]
  BY <1>h, <1>v DEF Whole
<1>a. ASSUME ~ AtEnd(n), Advance(n), pc[n] = "push", b # Entry(n)
      PROVE  Ahead(n, b)'
  <2>1. Ahead(n, b)
    BY <1>a, <1>b DEF UnionAt, Advance
  <2> QED BY <2>1, <1>a, AheadNext
<1>2. CASE Offer(n)
  <2> DEFINE there == ToSet(entries[n])
             list == Offered(n, there)
  <2>1. b \notin there
    BY <1>2, <1>b DEF Offer, UnionAt
  <2>2. Begin(n, list)
    BY <1>2 DEF Offer
  <2> HIDE DEF there
  <2>3. list \in Seq(Bodies)
    BY <1>p, OfferedType DEF TypeOK, HoldsOK
  <2>4. entries'[n] = list
    BY <2>2 DEF Begin, TypeOK, LoopsOK
  <2>5. Held(n) \ there \subseteq ToSet(list)
    BY <2>4, <1>p, OfferedLists DEF TypeOK, HoldsOK
  <2> HIDE DEF list
  <2> QED BY <1>b, <2>1, <2>2, <2>3, <2>5, AllAhead
<1>3. CASE NotPushed(n)
  BY <1>3, <1>a, <1>b DEF NotPushed
<1>4. CASE PushBody(n)
  <2>1. Entry(n) \in Held(Peer(n))'
    BY <1>4, <1>p, PushAdds DEF Held
  <2> QED BY <2>1, <1>4, <1>a, <1>p DEF PushBody
<1> QED BY <1>2, <1>3, <1>4

\* Every step keeps every looper's progress (sync_pass 1006-1042).
LEMMA UnionStep ==
    ASSUME TypeOK, Uncapped, \A n \in Loopers : UnionAt(n), [Next]_vars
    PROVE  \A n \in Loopers : UnionAt(n)'
<1> SUFFICES ASSUME NEW m \in Loopers PROVE UnionAt(m)'
  OBVIOUS
<1>1. CASE UNCHANGED vars
  BY <1>1, UnionOfOthers DEF vars, position
<1>2. ASSUME NEW n \in Loopers, Step(n) \/ CallFails(n), n # m PROVE UnionAt(m)'
  BY <1>2, OthersStay, UnionOfOthers
<1>3. CASE Step(m) \/ CallFails(m)
  <2>1. CASE PullChain(m) \/ Skip(m) \/ Ask(m) \/ PullEnds(m) \/ Fetch(m) \/ NotServed(m)
    BY <2>1, UnionOfPull
  <2>2. CASE PushChain(m) \/ Offer(m) \/ NotPushed(m) \/ PushBody(m)
    BY <2>2, UnionOfPush
  <2>3. CASE Connect(m)
    <3>1. /\ pc'[m] = "chain" /\ start'[m] = Whole(m) \cup Whole(Peer(m))
          /\ UNCHANGED <<holds, turn>>
      BY <2>3 DEF Connect, Goto, TypeOK, LoopsOK
    <3>2. Whole(m)' = Whole(m) /\ Whole(Peer(m))' = Whole(Peer(m))
      BY <3>1 DEF Whole, Held, Peer, holds
    <3> HIDE DEF Whole, Held
    <3> QED BY <3>1, <3>2 DEF UnionAt
  <2>4. CASE PassStarts(m) \/ PassEnds(m) \/ ConnectFails(m) \/ Malformed(m)
             \/ Tampered(m) \/ PushRejected(m) \/ PushEnds(m) \/ CallFails(m)
    <3>1. pc'[m] \in {"sleep", "connect"}
      BY <2>4 DEF PassStarts, PassEnds, ConnectFails, Malformed, Tampered, PushRejected, PushEnds,
            CallFails, NextPeer, Goto, TypeOK, LoopsOK
    <3> QED BY <3>1, UnionAtRest
  <2> QED BY <1>3, <2>1, <2>2, <2>3, <2>4 DEF Step
<1> QED BY <1>1, <1>2, <1>3 DEF Next

\* With caps that no hold reaches, a looper and a peer it counts as synced, that
\* runs this program and takes pushes, each have every body that the other had
\* intact when they connected; other peers of the list may lie in every answer
\* (sync_pass 1006-1042: the pull, then the push, over one connection).
THEOREM SyncedIsUnion ==
    ASSUME Uncapped
    PROVE  Spec => SyncedMeansUnion
<1>1. Init => \A n \in Loopers : UnionAt(n)
  BY DEF Init, UnionAt
<1>2. TypeOK /\ (\A n \in Loopers : UnionAt(n)) /\ [Next]_vars =>
         (\A n \in Loopers : UnionAt(n))'
  BY UnionStep
<1>3. ASSUME TypeOK, \A n \in Loopers : UnionAt(n), [Next]_vars
      PROVE  [\A n \in Loopers : \A p \in (synced'[n] \ synced[n]) \ (Full \cup Liars) :
                 Len(entries[n]) < PushCap => start[n] \subseteq Held(n)' \cap Held(p)']_vars
  <2> SUFFICES ASSUME NEW n \in Loopers, NEW p \in (synced'[n] \ synced[n]) \ (Full \cup Liars),
                      Len(entries[n]) < PushCap
               PROVE  start[n] \subseteq Held(n)' \cap Held(p)'
    OBVIOUS
  <2>1. PushEnds(n) /\ p = Peer(n)
    <3>1. PICK m \in Loopers : Step(m) \/ CallFails(m)
      BY <1>3 DEF Next, vars
    <3>2. PushEnds(m)
      <4>1. ASSUME UNCHANGED synced PROVE FALSE
        BY <4>1
      <4>2. ASSUME PassStarts(m) PROVE FALSE
        BY <1>3, <4>2 DEF PassStarts, TypeOK
      <4> QED BY <3>1, <4>1, <4>2 DEF Step, PassEnds, Connect, ConnectFails, CallFails,
            PullChain, Malformed, Skip, Ask, PullEnds, Fetch, NotServed, Tampered, PushChain, Offer,
            NotPushed, PushBody, PushRejected
    <3> QED BY <1>3, <3>2 DEF PushEnds, TypeOK
  <2>2. pc[n] = "push" /\ AtEnd(n) /\ UNCHANGED holds
    BY <2>1 DEF PushEnds
  <2>3. \A b \in start[n] : b \in Held(n) /\ b \in Held(Peer(n))
    BY <1>3, <2>1, <2>2, NoneAhead DEF UnionAt
  <2>4. Held(n)' = Held(n) /\ Held(p)' = Held(p)
    BY <2>2 DEF Held, holds
  <2> QED BY <2>1, <2>3, <2>4
<1> QED BY <1>1, <1>2, <1>3, TypeCorrect, PTL DEF Spec, SyncedMeansUnion
=============================================================================
