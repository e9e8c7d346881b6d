----------------------------- MODULE HostProofs -----------------------------
(***************************************************************************)
(* Proofs about Host: its type invariant, what the drain of a serve waits  *)
(* for, what the pidfile tells, what a fetch returns, that edits of        *)
(* peers.txt take effect, and what the exit code of a sync loop says of    *)
(* the list it read.                                                       *)
(***************************************************************************)
EXTENDS Host, VecProofs

-----------------------------------------------------------------------------
(* The type invariant. *)

PidTyped ==
    /\ {pidfile, tmp} \subseteq Id \cup {Nobody}
    /\ fd \in [Id -> Id \cup {Nobody}] /\ text \in [Id -> Id \cup {Nobody}]
    /\ crossed \subseteq Id
Looping == {"poll", "accept", "drain"}

\* The initial states are typed.
LEMMA TypeInit == Init => TypeOK
<1> SUFFICES ASSUME Init PROVE TypeOK
  OBVIOUS
<1>1. \A p \in Id : pc[p] = "start" /\ taken[p] = {}
  BY DEF Init
<1>2. \A a \in Valid : port[a] = Nobody
  BY DEF Init
<1>3. /\ pc \in [Id -> Labels] /\ code \in [Id -> 0..255] /\ shutdown \in [Id -> BOOLEAN]
      /\ {pidfile, tmp} \subseteq Id \cup {Nobody}
      /\ fd \in [Id -> Id \cup {Nobody}] /\ text \in [Id -> Id \cup {Nobody}]
      /\ port \in [Valid -> Id \cup {Nobody}]
      /\ cut \subseteq Id /\ crossed \subseteq Id
  BY DEF Init, Labels, Ended
<1>4. backlog \in [Id -> Seq(Id)] /\ taken \in [Id -> SUBSET Id]
  BY DEF Init
<1>5. inflight \in [Id -> Nat] /\ left \in [Id -> 0..DrainSlices]
  BY HostAssumption DEF Init
<1> QED BY <1>1, <1>2, <1>3, <1>4, <1>5 DEF TypeOK

\* A step of p that opens no listener and starts no handler keeps the type
\* invariant, unless it takes a serve out of its main loop.
LEMMA TypeKept ==
    ASSUME TypeOK, NEW p \in Id, NEW l \in Labels,
           pc' = [pc EXCEPT ![p] = l], pc[p] \in Looping \cup {"leave"} => l \in Looping /\ pc[p] # "leave",
           code' \in [Id -> 0..255], shutdown' \in [Id -> BOOLEAN], PidTyped',
           backlog' \in [Id -> Seq(Id)], taken' \in [Id -> SUBSET Id],
           \A q \in Id : taken'[q] \subseteq taken[q],
           cut' \subseteq Id, left' \in [Id -> 0..DrainSlices], UNCHANGED <<port, inflight>>
    PROVE  TypeOK'
<1>1. pc' \in [Id -> Labels] /\ \A q \in Id : pc'[q] = IF q = p THEN l ELSE pc[q]
  BY DEF TypeOK
<1>2. ASSUME NEW a \in Valid, port'[a] # Nobody
      PROVE  pc'[port'[a]] \in Looping
  <2>1. port[a] \in Id /\ pc[port[a]] \in Looping
    BY <1>2 DEF TypeOK, Looping
  <2> QED BY <1>1, <2>1 DEF Looping
<1>3. ASSUME NEW q \in Id, taken'[q] # {}
      PROVE  Serving(q)' /\ inflight'[q] > 0
  <2>1. Serving(q) /\ inflight[q] > 0
    BY <1>3 DEF TypeOK
  <2> QED BY <1>1, <2>1 DEF Serving, Looping
<1> QED BY <1>1, <1>2, <1>3 DEF TypeOK, PidTyped, Looping

\* The pidfile's part of the type invariant, where no step touches it.
LEMMA PidKept == ASSUME TypeOK, UNCHANGED pidVars PROVE PidTyped'
  BY DEF TypeOK, PidTyped, pidVars

\* Exit codes stay in their range.
LEMMA CodeKept ==
    ASSUME TypeOK, NEW p \in Id, NEW status \in 0..255, code' = [code EXCEPT ![p] = status]
    PROVE  code' \in [Id -> 0..255]
  BY DEF TypeOK

\* A process that ends lets go of its listener and of its connections.
LEMMA TypeReleased ==
    ASSUME TypeOK, NEW p \in Id, NEW l \in Ended, pc' = [pc EXCEPT ![p] = l], Released(p),
           UNCHANGED shutdown, code' \in [Id -> 0..255], PidTyped'
    PROVE  TypeOK'
<1>1. pc' \in [Id -> Labels] /\ \A q \in Id : pc'[q] = IF q = p THEN l ELSE pc[q]
  BY DEF TypeOK, Labels
<1>2. port' \in [Valid -> Id \cup {Nobody}]
  BY DEF TypeOK, Released
<1>3. ASSUME NEW a \in Valid, port'[a] # Nobody
      PROVE  pc'[port'[a]] \in {"poll", "accept", "drain"}
  <2>1. port[a] # p /\ port'[a] = port[a] /\ port[a] \in Id /\ pc[port[a]] \in {"poll", "accept", "drain"}
    BY <1>3 DEF TypeOK, Released
  <2> QED BY <1>1, <2>1
<1>4. taken' \in [Id -> SUBSET Id] /\ backlog' \in [Id -> Seq(Id)]
  BY DEF TypeOK, Released
<1>5. ASSUME NEW q \in Id, taken'[q] # {}
      PROVE  Serving(q)' /\ inflight'[q] > 0
  <2>1. q # p /\ taken[q] # {} /\ inflight' = inflight
    BY <1>5 DEF TypeOK, Released
  <2> QED BY <1>1, <2>1 DEF TypeOK, Serving
<1>6. cut' \subseteq Id
  <2>1. backlog[p] \in Seq(Id) /\ taken[p] \subseteq Id
    BY DEF TypeOK
  <2>2. ToSet(backlog[p]) \subseteq Id
    BY <2>1 DEF ToSet
  <2> QED BY <2>1, <2>2 DEF TypeOK, Released
<1> QED BY <1>1, <1>2, <1>3, <1>4, <1>5, <1>6 DEF TypeOK, PidTyped, Released

\* What the main thread of a serve does.
LEMMA TypeServe == ASSUME TypeOK, NEW p \in Id, ServeStep(p) PROVE TypeOK'
<1> USE HostAssumption
<1>1. CASE StartServe(p)
  BY <1>1, TypeKept, PidKept DEF StartServe, Goto, TypeOK, Labels, Looping, netVars
<1>2. CASE PidOpen(p)
  <2>1. PidTyped'
    BY <1>2 DEF PidOpen, TypeOK, PidTyped
  <2> QED BY <1>2, <2>1, TypeKept DEF PidOpen, Goto, TypeOK, Labels, Looping, netVars
<1>3. CASE PidWrite(p)
  <2>1. PidTyped'
    BY <1>3 DEF PidWrite, TypeOK, PidTyped
  <2> QED BY <1>3, <2>1, TypeKept DEF PidWrite, Goto, TypeOK, Labels, Looping, netVars
<1>4. CASE PidRename(p)
  <2>1. PidTyped'
    BY <1>4 DEF PidRename, TypeOK, PidTyped
  <2>2. code' \in [Id -> 0..255]
    <3>1. CASE tmp = Nobody
      <4>1. code' = [code EXCEPT ![p] = 1] /\ 1 \in 0..255
        BY <1>4, <3>1 DEF PidRename, Exit
      <4> QED BY <4>1, CodeKept
    <3>2. CASE tmp # Nobody
      BY <1>4, <3>2 DEF PidRename, TypeOK
    <3> QED BY <3>1, <3>2
  <2>3. PICK l \in {"exited", "install"} : pc' = [pc EXCEPT ![p] = l]
    BY <1>4 DEF PidRename, Exit, Goto
  <2> QED BY <1>4, <2>1, <2>2, <2>3, TypeKept DEF PidRename, TypeOK, Labels, Ended, Looping, netVars
<1>5. CASE PidFails(p)
  <2>1. code' \in [Id -> 0..255]
    <3>1. code' = [code EXCEPT ![p] = 1] /\ 1 \in 0..255
      BY <1>5 DEF PidFails, Exit
    <3> QED BY <3>1, CodeKept
  <2>2. /\ pc' = [pc EXCEPT ![p] = "exited"] /\ pc[p] \in {"pidopen", "pidwrite"}
        /\ UNCHANGED <<shutdown, pidVars, netVars>>
    BY <1>5 DEF PidFails, Exit, Goto
  <2>3. pc[p] \notin Looping \cup {"leave"}
    BY <2>2 DEF Looping
  <2> QED BY <2>1, <2>2, <2>3, TypeKept, PidKept DEF TypeOK, Labels, Ended, netVars
<1>6. CASE Install(p)
  BY <1>6, TypeKept, PidKept DEF Install, Goto, TypeOK, Labels, Looping, netVars
<1>7. CASE Bind(p)
  <2>1. code' \in [Id -> 0..255] /\ PidTyped'
    <3>1. CASE port[Opt(p, "--listen")] = Nobody
      BY <1>7, <3>1, PidKept DEF Bind, TypeOK
    <3>2. CASE port[Opt(p, "--listen")] # Nobody
      <4>1. code' = [code EXCEPT ![p] = 1] /\ 1 \in 0..255 /\ UNCHANGED pidVars
        BY <1>7, <3>2 DEF Bind
      <4> QED BY <4>1, CodeKept, PidKept
    <3> QED BY <3>1, <3>2
  <2>2. CASE port[Opt(p, "--listen")] # Nobody
    BY <1>7, <2>1, <2>2, TypeKept DEF Bind, Goto, TypeOK, Labels, Looping
  <2>3. CASE port[Opt(p, "--listen")] = Nobody
    <3> DEFINE a == Opt(p, "--listen")
    <3>1. /\ port' = [port EXCEPT ![a] = p] /\ pc' = [pc EXCEPT ![p] = "poll"]
          /\ UNCHANGED <<shutdown, backlog, taken, inflight, left, cut>>
      BY <1>7, <2>3 DEF Bind, Goto
    <3> HIDE DEF a
    <3>2. pc' \in [Id -> Labels] /\ \A q \in Id : pc'[q] = IF q = p THEN "poll" ELSE pc[q]
      BY <3>1 DEF TypeOK, Labels
    <3>3. port' \in [Valid -> Id \cup {Nobody}]
          /\ \A b \in Valid : port'[b] = p \/ port'[b] = port[b]
      BY <3>1 DEF TypeOK
    <3>4. \A b \in Valid : port'[b] # Nobody => pc'[port'[b]] \in {"poll", "accept", "drain"}
      BY <3>2, <3>3 DEF TypeOK
    <3>5. \A q \in Id : taken'[q] # {} => Serving(q)' /\ inflight'[q] > 0
      BY <3>1, <3>2 DEF TypeOK, Serving
    <3> QED BY <2>1, <3>1, <3>2, <3>3, <3>4, <3>5 DEF TypeOK, PidTyped
  <2> QED BY <2>2, <2>3
<1>8. CASE Poll(p)
  <2>1. PICK l \in Looping : pc' = [pc EXCEPT ![p] = l]
    BY <1>8 DEF Poll, Goto, Looping
  <2>2. left' \in [Id -> 0..DrainSlices]
    <3>1. left \in [Id -> 0..DrainSlices] /\ DrainSlices \in 0..DrainSlices
      BY DEF TypeOK
    <3>2. CASE shutdown[p]
      BY <1>8, <3>1, <3>2 DEF Poll
    <3>3. CASE ~shutdown[p]
      BY <1>8, <3>1, <3>3 DEF Poll
    <3> QED BY <3>2, <3>3
  <2> QED BY <1>8, <2>1, <2>2, TypeKept, PidKept DEF Poll, TypeOK, Labels, Looping
<1>9. CASE Accept(p)
  <2>1. pc' = [pc EXCEPT ![p] = "poll"] /\ pc[p] = "accept"
    BY <1>9 DEF Accept, Goto
  <2>2. CASE backlog[p] = <<>>
    <3>1. UNCHANGED <<code, shutdown, pidVars, port, backlog, taken, inflight, left, cut>>
      BY <1>9, <2>2 DEF Accept
    <3>2. /\ code' \in [Id -> 0..255] /\ shutdown' \in [Id -> BOOLEAN] /\ backlog' \in [Id -> Seq(Id)]
          /\ taken' \in [Id -> SUBSET Id] /\ \A q \in Id : taken'[q] \subseteq taken[q]
          /\ left' \in [Id -> 0..DrainSlices] /\ cut' \subseteq Id
      BY <3>1 DEF TypeOK
    <3>3. PidTyped'
      BY <3>1, PidKept
    <3>4. "poll" \in Labels /\ "poll" \in Looping /\ pc[p] # "leave"
      BY <2>1 DEF Labels, Looping
    <3> QED BY <2>1, <3>1, <3>2, <3>3, <3>4, TypeKept
  <2>3. CASE backlog[p] # <<>>
    <3>1. backlog[p] \in Seq(Id) /\ Head(backlog[p]) \in Id /\ Tail(backlog[p]) \in Seq(Id)
      BY <2>3, HeadTailProperties DEF TypeOK
    <3> DEFINE new == {c \in {Head(backlog[p])} : pc[c] \notin Ended}
    <3>2. /\ new \subseteq Id
          /\ backlog' = [backlog EXCEPT ![p] = Tail(@)] /\ taken' = [taken EXCEPT ![p] = @ \cup new]
          /\ inflight' = [inflight EXCEPT ![p] = @ + 1]
          /\ UNCHANGED <<code, shutdown, pidVars, port, left, cut>>
      BY <1>9, <2>3, <3>1 DEF Accept
    <3> HIDE DEF new
    <3>3. pc' \in [Id -> Labels] /\ \A q \in Id : pc'[q] = IF q = p THEN "poll" ELSE pc[q]
      BY <2>1 DEF TypeOK, Labels
    <3>4. backlog' \in [Id -> Seq(Id)] /\ taken' \in [Id -> SUBSET Id] /\ inflight' \in [Id -> Nat]
      <4>1. backlog \in [Id -> Seq(Id)] /\ taken \in [Id -> SUBSET Id] /\ inflight \in [Id -> Nat]
        BY DEF TypeOK
      <4>2. backlog' \in [Id -> Seq(Id)]
        BY <3>1, <3>2, <4>1
      <4>3. taken' \in [Id -> SUBSET Id]
        BY <3>2, <4>1
      <4>4. inflight' \in [Id -> Nat]
        BY <3>2, <4>1
      <4> QED BY <4>2, <4>3, <4>4
    <3>5. \A q \in Id : taken'[q] # {} => Serving(q)' /\ inflight'[q] > 0
      <4> SUFFICES ASSUME NEW q \in Id, taken'[q] # {} PROVE Serving(q)' /\ inflight'[q] > 0
        OBVIOUS
      <4>1. CASE q = p
        BY <3>2, <3>3, <4>1 DEF TypeOK, Serving
      <4>2. CASE q # p
        BY <3>2, <3>3, <4>2 DEF TypeOK, Serving
      <4> QED BY <4>1, <4>2
    <3>6. \A a \in Valid : port'[a] # Nobody => pc'[port'[a]] \in {"poll", "accept", "drain"}
      BY <3>2, <3>3 DEF TypeOK
    <3> QED BY <3>2, <3>3, <3>4, <3>5, <3>6, PidKept DEF TypeOK, PidTyped
  <2> QED BY <2>2, <2>3
<1>10. CASE Drain(p)
  <2>1. CASE ~DrainOver(p)
    <3>1. left' \in [Id -> 0..DrainSlices]
      <4>1. left' = [left EXCEPT ![p] = @ - 1] /\ left[p] # 0
        BY <1>10, <2>1 DEF Drain, DrainOver
      <4>2. left \in [Id -> 0..DrainSlices]
        BY DEF TypeOK
      <4>3. left[p] - 1 \in 0..DrainSlices
        BY <4>1, <4>2
      <4> QED BY <4>1, <4>2, <4>3
    <3> QED BY <1>10, <2>1, <3>1, PidKept DEF Drain, TypeOK, PidTyped, Serving
  <2>2. CASE DrainOver(p)
    <3>1. /\ pc' = [pc EXCEPT ![p] = "leave"] /\ pc[p] = "drain"
          /\ port' = [a \in Valid |-> IF port[a] = p THEN Nobody ELSE port[a]]
          /\ cut' = cut \cup ToSet(backlog[p]) /\ backlog' = [backlog EXCEPT ![p] = <<>>]
          /\ UNCHANGED <<left, code, shutdown, pidVars, taken, inflight>>
      BY <1>10, <2>2 DEF Drain, Goto
    <3>2. pc' \in [Id -> Labels] /\ \A q \in Id : pc'[q] = IF q = p THEN "leave" ELSE pc[q]
      BY <3>1 DEF TypeOK, Labels
    <3>3. port' \in [Valid -> Id \cup {Nobody}] /\ backlog' \in [Id -> Seq(Id)]
      BY <3>1 DEF TypeOK
    <3>4. cut' \subseteq Id
      <4>1. backlog[p] \in Seq(Id)
        BY DEF TypeOK
      <4> QED BY <3>1, <4>1 DEF TypeOK, ToSet
    <3>5. \A a \in Valid : port'[a] # Nobody => pc'[port'[a]] \in {"poll", "accept", "drain"}
      BY <3>1, <3>2 DEF TypeOK
    <3>6. \A q \in Id : taken'[q] # {} => Serving(q)' /\ inflight'[q] > 0
      BY <3>1, <3>2 DEF TypeOK, Serving
    <3> QED BY <3>1, <3>2, <3>3, <3>4, <3>5, <3>6, PidKept DEF TypeOK, PidTyped
  <2> QED BY <2>1, <2>2
<1>11. CASE Leave(p)
  <2>1. PidTyped'
    BY <1>11 DEF Leave, TypeOK, PidTyped
  <2>2. code' \in [Id -> 0..255]
    BY <1>11 DEF Leave, TypeOK
  <2> QED BY <1>11, <2>1, <2>2, TypeReleased DEF Leave, Goto, Ended
<1> QED BY <1>1, <1>2, <1>3, <1>4, <1>5, <1>6, <1>7, <1>8, <1>9, <1>10, <1>11 DEF ServeStep

\* A client that hangs up.
LEMMA TypeHangup ==
    ASSUME TypeOK, NEW p \in Id, Hangup(p), pc[p] \in {"call", "wait"}
    PROVE  TypeOK'
<1>1. /\ taken' = [q \in Id |-> taken[q] \ {p}] /\ cut' = cut \ {p}
      /\ pc' = [pc EXCEPT ![p] = "connect"]
      /\ UNCHANGED <<code, shutdown, pidVars, port, backlog, inflight, left>>
  BY DEF Hangup, Goto
<1>2. pc[p] \notin Looping \cup {"leave"} /\ "connect" \in Labels
  BY DEF Looping, Labels
<1>3. /\ taken' \in [Id -> SUBSET Id] /\ \A q \in Id : taken'[q] \subseteq taken[q]
      /\ code' \in [Id -> 0..255] /\ shutdown' \in [Id -> BOOLEAN] /\ backlog' \in [Id -> Seq(Id)]
      /\ left' \in [Id -> 0..DrainSlices] /\ cut' \subseteq Id
  BY <1>1 DEF TypeOK
<1> QED BY <1>1, <1>2, <1>3, TypeKept, PidKept

\* A step of p that does nothing but move it outside of serve.
LEMMA TypeMoves ==
    ASSUME TypeOK, NEW p \in Id, NEW l \in Labels, pc' = [pc EXCEPT ![p] = l],
           pc[p] \notin Looping \cup {"leave"}, code' \in [Id -> 0..255],
           UNCHANGED <<shutdown, pidVars, port, backlog, taken, inflight, left, cut>>
    PROVE  TypeOK'
<1>1. /\ shutdown' \in [Id -> BOOLEAN] /\ backlog' \in [Id -> Seq(Id)]
      /\ taken' \in [Id -> SUBSET Id] /\ \A q \in Id : taken'[q] \subseteq taken[q]
      /\ left' \in [Id -> 0..DrainSlices] /\ cut' \subseteq Id
  BY DEF TypeOK
<1> QED BY <1>1, TypeKept, PidKept

\* Steps after which everything of the type invariant is what it was.
LEMMA TypeStays ==
    ASSUME TypeOK, UNCHANGED <<pc, code, shutdown, pidVars, port, backlog, taken, inflight, left, cut>>
    PROVE  TypeOK'
  BY DEF TypeOK, pidVars, Serving

\* What a client does.
LEMMA TypeClient == ASSUME TypeOK, NEW p \in Id, ClientStep(p) PROVE TypeOK'
<1> DEFINE Rest == <<shutdown, pidVars, port, backlog, taken, inflight, left, cut>>
           Outside == {"start", "connect", "call", "wait", "peersopen", "peerswrite"}
<1>a. ASSUME NEW l \in Labels, Goto(p, l), UNCHANGED code, UNCHANGED Rest, pc[p] \in Outside
      PROVE  TypeOK'
  <2>1. pc[p] \notin Looping \cup {"leave"} /\ code' \in [Id -> 0..255]
    BY <1>a DEF Looping, TypeOK
  <2> QED BY <1>a, <2>1, TypeMoves DEF Goto
<1>b. ASSUME NEW status \in 0..255, Exit(p, status), UNCHANGED Rest, pc[p] \in Outside
      PROVE  TypeOK'
  <2>1. pc[p] \notin Looping \cup {"leave"} /\ code' \in [Id -> 0..255]
    BY <1>b, CodeKept DEF Looping, Exit
  <2> QED BY <1>b, <2>1, TypeMoves DEF Exit, Goto, Labels, Ended
<1>c. /\ {"connect", "call", "wait", "start", "peersopen", "peerswrite"} \subseteq Labels
      /\ {0, 1, 2} \subseteq 0..255
  BY DEF Labels
<1>1. CASE Usage(p)
  BY <1>1, <1>b, <1>c DEF Usage, netVars
<1>2. CASE StartClient(p)
  <2>1. UNCHANGED Rest /\ pc[p] = "start"
    BY <1>2 DEF StartClient, netVars
  <2>2. CASE Is(p, "fabric") /\ ~FabricMakes(p)
    BY <1>2, <2>1, <2>2, <1>b, <1>c DEF StartClient
  <2>3. CASE ~(Is(p, "fabric") /\ ~FabricMakes(p))
    BY <1>2, <2>1, <2>3, <1>a, <1>c DEF StartClient
  <2> QED BY <2>2, <2>3
<1>3. CASE Connect(p)
  <2> DEFINE a == Head(targets[p])
             q == IF a \in Valid THEN port[a] ELSE Nobody
             met == q # Nobody \/ a \in OldServers
  <2>1. CASE ~met
    <3>1. UNCHANGED <<pc, backlog>>
      BY <1>3, <2>1 DEF Connect
    <3>2. UNCHANGED <<code, shutdown, pidVars, port, taken, inflight, left, cut>>
      BY <1>3 DEF Connect
    <3> QED BY <3>1, <3>2, TypeStays
  <2>2. CASE met
    <3>1. /\ backlog' = (IF q = Nobody THEN backlog ELSE [backlog EXCEPT ![q] = Append(@, p)])
          /\ Goto(p, "call") /\ pc[p] = "connect"
          /\ UNCHANGED <<code, shutdown, pidVars, port, taken, inflight, left, cut>>
      BY <1>3, <2>2 DEF Connect
    <3>a. q \in Id \cup {Nobody}
      BY DEF TypeOK
    <3> HIDE DEF q
    <3>2. backlog' \in [Id -> Seq(Id)]
      <4>1. CASE q = Nobody
        BY <3>1, <4>1 DEF TypeOK
      <4>2. CASE q # Nobody
        <5>1. q \in Id /\ backlog \in [Id -> Seq(Id)]
          BY <3>a, <4>2 DEF TypeOK
        <5>2. Append(backlog[q], p) \in Seq(Id)
          BY <5>1
        <5> QED BY <3>1, <4>2, <5>1, <5>2
      <4> QED BY <4>1, <4>2
    <3>3. /\ shutdown' \in [Id -> BOOLEAN] /\ code' \in [Id -> 0..255]
          /\ taken' \in [Id -> SUBSET Id] /\ \A c \in Id : taken'[c] \subseteq taken[c]
          /\ left' \in [Id -> 0..DrainSlices] /\ cut' \subseteq Id
      BY <3>1 DEF TypeOK
    <3>4. pc[p] \notin Looping \cup {"leave"} /\ "call" \in Labels
      BY <3>1, <1>c DEF Looping
    <3> QED BY <3>1, <3>2, <3>3, <3>4, TypeKept, PidKept DEF Goto
  <2> QED BY <2>1, <2>2
<1>4. CASE Call(p)
  <2>1. UNCHANGED <<code, Rest>> /\ pc[p] = "call"
    BY <1>4 DEF Call
  <2>2. CASE UNCHANGED pc
    BY <2>1, <2>2, TypeStays
  <2>3. CASE Goto(p, "wait")
    BY <2>1, <2>3, <1>a, <1>c
  <2> QED BY <1>4, <2>2, <2>3 DEF Call
<1>5. CASE Receive(p)
  <2>1. CASE Hangup(p)
    BY <1>5, <2>1, TypeHangup DEF Receive
  <2>2. CASE Goto(p, "call") /\ UNCHANGED <<code, Rest>>
    BY <1>5, <2>2, <1>a, <1>c DEF Receive
  <2> QED BY <1>5, <2>1, <2>2 DEF Receive
<1>6. CASE Lost(p)
  BY <1>6, TypeHangup DEF Lost
<1>7. CASE CallsMade(p)
  <2>1. CASE Hangup(p)
    BY <1>7, <2>1, TypeHangup DEF CallsMade
  <2>2. CASE UNCHANGED <<pc, code, shutdown, pidVars, netVars>>
    BY <2>2, TypeStays DEF netVars
  <2> QED BY <1>7, <2>1, <2>2 DEF CallsMade
<1>8. CASE ClientEnds(p)
  <2>1. UNCHANGED Rest /\ pc[p] = "connect"
    BY <1>8 DEF ClientEnds, netVars
  <2>2. CASE Goto(p, "start") /\ UNCHANGED code
    BY <2>1, <2>2, <1>a, <1>c
  <2>3. CASE Exit(p, 0) \/ Exit(p, 1)
    BY <2>1, <2>3, <1>b, <1>c
  <2> QED BY <1>8, <2>2, <2>3 DEF ClientEnds
<1>9. CASE PeersRead(p)
  <2>1. UNCHANGED Rest /\ pc[p] = "start"
    BY <1>9 DEF PeersRead, netVars
  <2>2. CASE Goto(p, "peersopen") /\ UNCHANGED code
    BY <2>1, <2>2, <1>a, <1>c
  <2>3. CASE Exit(p, 0) \/ Exit(p, 1)
    BY <2>1, <2>3, <1>b, <1>c
  <2> QED BY <1>9, <2>2, <2>3 DEF PeersRead
<1>10. CASE PeersOpen(p)
  BY <1>10, <1>a, <1>c DEF PeersOpen, netVars
<1>11. CASE PeersWrite(p)
  BY <1>11, <1>b, <1>c DEF PeersWrite, netVars
<1>12. CASE PassStarts(p)
  BY <1>12, <1>a, <1>c DEF PassStarts, netVars
<1> QED BY <1>1, <1>2, <1>3, <1>4, <1>5, <1>6, <1>7, <1>8, <1>9, <1>10, <1>11, <1>12 DEF ClientStep

\* What a handler does, and a server of the legacy protocol.
LEMMA TypeHandle == ASSUME TypeOK, NEW p \in Id, NEW c \in Id, Handle(p, c) PROVE TypeOK'
<1>1. UNCHANGED <<pc, code, shutdown, pidVars, port, backlog, inflight, left>>
  BY DEF Handle
<1>2. /\ taken' \in [Id -> SUBSET Id] /\ \A q \in Id : taken'[q] \subseteq taken[q]
      /\ cut' \subseteq Id
  <2>1. CASE LegalFrame(line[c].ask)
    BY <2>1 DEF Handle, TypeOK
  <2>2. CASE ~LegalFrame(line[c].ask)
    <3>1. taken' = [taken EXCEPT ![p] = @ \ {c}] /\ cut' = cut \cup {c}
      BY <2>2 DEF Handle
    <3>2. taken \in [Id -> SUBSET Id] /\ cut \subseteq Id
      BY DEF TypeOK
    <3> QED BY <3>1, <3>2
  <2> QED BY <2>1, <2>2
<1> QED BY <1>1, <1>2 DEF TypeOK, pidVars, Serving

LEMMA TypeOldServer == ASSUME TypeOK, NEW p \in Id, OldServer(p) PROVE TypeOK'
<1>1. UNCHANGED <<pc, code, shutdown, pidVars, port, backlog, taken, inflight, left>>
  BY DEF OldServer
<1>2. cut' \subseteq Id
  BY DEF OldServer, TypeOK
<1> QED BY <1>1, <1>2 DEF TypeOK, pidVars, Serving

\* What signals do.
LEMMA TypeSignal == ASSUME TypeOK, NEW p \in Id, Terminate(p) \/ Kill(p) PROVE TypeOK'
<1>1. ASSUME NEW signal \in {SIGTERM, SIGKILL}, Dies(p, signal) PROVE TypeOK'
  <2>1. 128 + signal \in 0..255
    BY DEF SIGTERM, SIGKILL
  <2>2. code' \in [Id -> 0..255]
    BY <1>1, <2>1, CodeKept DEF Dies
  <2> QED BY <1>1, <2>2, TypeReleased, PidKept DEF Dies, Goto, Ended
<1>2. CASE Terminate(p) /\ Handles(p)
  <2>1. /\ UNCHANGED <<pc, code, pidVars, netVars>> /\ shutdown' \in [Id -> BOOLEAN]
    BY <1>2 DEF Terminate, TypeOK
  <2> QED BY <2>1 DEF TypeOK, pidVars, netVars, Serving
<1> QED BY <1>1, <1>2 DEF Terminate, Kill

\* Every step keeps the type invariant.
LEMMA TypeStep == TypeOK /\ [Next]_vars => TypeOK'
<1> SUFFICES ASSUME TypeOK, [Next]_vars PROVE TypeOK'
  OBVIOUS
<1>1. CASE UNCHANGED vars
  BY <1>1, TypeStays DEF vars, netVars
<1>2. CASE Next
  <2>1. ASSUME NEW p \in Id, ServeStep(p) \/ ClientStep(p) \/ OldServer(p) \/ Terminate(p) \/ Kill(p)
        PROVE  TypeOK'
    BY <2>1, TypeServe, TypeClient, TypeOldServer, TypeSignal
  <2>2. ASSUME NEW p \in Id, NEW c \in Id, Handle(p, c) PROVE TypeOK'
    BY <2>2, TypeHandle
  <2> QED BY <1>1, <1>2, <2>1, <2>2 DEF Next, Over
<1> QED BY <1>1, <1>2

\* Only the main loop of a serve listens and has handler threads, each of which
\* it has counted, for every set of processes and command lines.
THEOREM TypeCorrect == Spec => []TypeOK
<1> QED BY TypeInit, TypeStep, PTL DEF Spec

-----------------------------------------------------------------------------
(* The drain. *)

\* Who leaves the drain leaves it by Drain.
LEMMA OnlyDrainLeaves ==
    ASSUME TypeOK, NEW p \in Id, pc[p] = "drain", pc'[p] = "leave", [Next]_vars
    PROVE  Drain(p)
<1>1. ASSUME NEW q \in Id, NEW l, l # "leave", pc' = [pc EXCEPT ![q] = l]
      PROVE  FALSE
  BY <1>1 DEF TypeOK
<1>2. pc' # pc
  OBVIOUS
<1>3. Next
  BY <1>2 DEF vars
<1>4. ASSUME NEW q \in Id, ServeStep(q) PROVE Drain(p)
  <2>1. CASE Leave(q)
    BY <1>1, <2>1 DEF Leave, Goto
  <2>2. CASE Bind(q)
    <3>1. pc[q] = "bind" /\ (Goto(q, "poll") \/ Goto(q, "leave"))
      BY <2>2 DEF Bind
    <3> QED BY <3>1 DEF Goto, TypeOK
  <2>3. CASE Drain(q)
    <3>1. pc[q] = "drain" /\ (pc' = pc \/ Goto(q, "leave"))
      BY <2>3 DEF Drain
    <3> QED BY <1>2, <2>3, <3>1 DEF Goto, TypeOK
  <2>4. CASE Poll(q)
    <3>1. Goto(q, "drain") \/ Goto(q, "accept")
      BY <2>4 DEF Poll
    <3> QED BY <1>1, <3>1 DEF Goto
  <2>5. CASE StartServe(q) \/ PidOpen(q) \/ PidWrite(q) \/ Install(q) \/ Accept(q)
    <3>1. \/ Goto(q, "install") \/ Goto(q, "pidopen") \/ Goto(q, "pidwrite")
          \/ Goto(q, "pidrename") \/ Goto(q, "bind") \/ Goto(q, "poll")
      BY <2>5 DEF StartServe, PidOpen, PidWrite, Install, Accept
    <3> QED BY <1>1, <3>1 DEF Goto
  <2>6. CASE PidRename(q) \/ PidFails(q)
    <3>1. Goto(q, "exited") \/ Goto(q, "install")
      BY <2>6 DEF PidRename, PidFails, Exit
    <3> QED BY <1>1, <3>1 DEF Goto
  <2> QED BY <1>4, <2>1, <2>2, <2>3, <2>4, <2>5, <2>6 DEF ServeStep
<1>5. ASSUME NEW q \in Id, ClientStep(q) PROVE FALSE
  <2>1. \/ pc' = pc \/ Goto(q, "exited") \/ Goto(q, "connect") \/ Goto(q, "call") \/ Goto(q, "wait")
        \/ Goto(q, "start") \/ Goto(q, "peersopen") \/ Goto(q, "peerswrite")
    BY <1>5 DEF ClientStep, Usage, StartClient, Connect, Call, Receive, Lost, CallsMade, ClientEnds,
                PeersRead, PeersOpen, PeersWrite, PassStarts, Hangup, Exit
  <2> QED BY <1>1, <1>2, <2>1 DEF Goto
<1>6. ASSUME NEW q \in Id, Terminate(q) \/ Kill(q) PROVE FALSE
  <2>1. pc' = pc \/ Goto(q, "killed")
    BY <1>6 DEF Terminate, Kill, Dies
  <2> QED BY <1>1, <1>2, <2>1 DEF Goto
<1>7. ASSUME NEW q \in Id, OldServer(q) \/ \E c \in Id : Handle(q, c) PROVE FALSE
  BY <1>2, <1>7 DEF OldServer, Handle
<1>8. ~Over
  BY <1>2 DEF Over, vars
<1> QED BY <1>3, <1>4, <1>5, <1>6, <1>7, <1>8 DEF Next

\* The drain waits out its window unless no request is being handled, for
\* every number of clients and of slices (1658-1663).
THEOREM DrainCorrect == Spec => DrainHonoured
<1>1. ASSUME TypeOK, [Next]_vars
      PROVE  [\A p \in Id : pc[p] = "drain" /\ pc'[p] = "leave" =>
                left[p] = 0 \/ \A c \in taken[p] : line[c].ask = <<>>]_vars
  <2> SUFFICES ASSUME NEW p \in Id, pc[p] = "drain", pc'[p] = "leave", left[p] # 0
               PROVE  taken[p] = {}
    OBVIOUS
  <2>1. DrainOver(p)
    <3>1. Drain(p)
      BY <1>1, OnlyDrainLeaves
    <3> QED BY <3>1 DEF Drain
  <2>2. inflight[p] = 0
    BY <2>1 DEF DrainOver
  <2>3. inflight[p] \in Nat /\ (taken[p] # {} => inflight[p] > 0)
    BY <1>1 DEF TypeOK
  <2> QED BY <2>2, <2>3
<1> QED BY <1>1, TypeCorrect, PTL DEF Spec, DrainHonoured

-----------------------------------------------------------------------------
(* The pidfile.  What each label of a serve says about the two names and   *)
(* the inodes behind them.                                                 *)

Uses(p) == Is(p, "serve") /\ Opt(p, "--pidfile") # Absent
PidSteps == {"pidopen", "pidwrite", "pidrename"}
Late == {"install", "bind", "poll", "accept", "drain", "leave"}
HeldAt == {"pidwrite", "pidrename"} \cup Late

\* A process that has not touched the temporary file.
Unborn(p) == ~Uses(p) \/ pc[p] \in {"start", "pidopen"}

OnlyUsers ==
    \A p \in Id :
        /\ pc[p] \in PidSteps => Uses(p)
        /\ pc[p] \in Late => Is(p, "serve")
\* Two serves that have the file at the same time are crossed, both.
Alone == \A p, q \in Id : p # q /\ HasPidfile(p) /\ HasPidfile(q) => p \in crossed
\* The inode a process will make, and its pid, are nowhere yet.
FreshInode == \A p \in Id : Unborn(p) => p # pidfile /\ p # tmp
Unwritten == \A p, i \in Id : Unborn(p) \/ pc[p] = "pidwrite" => text[i] # p
TwoNames == tmp # Nobody => tmp # pidfile
Mine(p) ==
    /\ pc[p] = "pidwrite" => tmp # Nobody /\ fd[p] = tmp
    /\ pc[p] = "pidrename" => tmp # Nobody /\ text[tmp] = p
    /\ pc[p] \in Late => tmp = Nobody /\ pidfile # Nobody /\ text[pidfile] = p
AllMine == \A p \in Id \ crossed : HasPidfile(p) => Mine(p)
\* The process named in an inode has the file, was killed, or was crossed.
Owned(i) == text[i] \in crossed \/ HasPidfile(text[i]) \/ pc[text[i]] = "killed"
TmpOwned == tmp # Nobody => text[tmp] = Nobody \/ Owned(tmp)
PidOwned == pidfile # Nobody => IF text[pidfile] = Nobody THEN crossed # {} ELSE Owned(pidfile)

PidInv ==
    /\ OnlyUsers /\ Alone /\ FreshInode /\ Unwritten /\ TwoNames
    /\ AllMine /\ TmpOwned /\ PidOwned

LEMMA HeldLabels == \A p : HasPidfile(p) <=> Uses(p) /\ pc[p] \in HeldAt
  BY DEF HasPidfile, Uses, HeldAt, Late

\* Initially no process has touched the file.
LEMMA PidInit == Init => PidInv
<1> SUFFICES ASSUME Init PROVE PidInv
  OBVIOUS
<1>1. /\ \A p \in Id : pc[p] = "start" /\ ~HasPidfile(p)
      /\ pidfile = Nobody /\ tmp = Nobody /\ \A i \in Id : text[i] = Nobody
  BY DEF Init, HasPidfile
<1> QED BY <1>1, HostAssumption
        DEF PidInv, OnlyUsers, Alone, FreshInode, Unwritten, TwoNames, AllMine, TmpOwned, PidOwned,
            PidSteps, Late

\* A process whose step the invariant does not see: it stays, is killed, goes
\* on within serve, comes to the pidfile or has no part in it, or gives up
\* while no inode names it or crossed.
Quiet(q) ==
    \/ pc'[q] = pc[q]
    \/ pc'[q] = "killed"
    \/ pc[q] \in Late /\ pc'[q] \in Late
    \/ pc[q] = "start" /\ pc'[q] = "pidopen" /\ Uses(q)
    \/ ~Uses(q) /\ pc[q] # "killed" /\ pc'[q] \notin PidSteps /\ (pc'[q] \in Late => Is(q, "serve"))
    \/ pc[q] \notin HeldAt \cup {"killed"} /\ pc'[q] \notin HeldAt \cup {"start", "pidopen"}
    \/ pc[q] = "pidwrite" /\ pc'[q] = "exited"
    \/ pc[q] \in HeldAt /\ q \in crossed /\ pc'[q] = "exited"

\* Steps that leave the files alone and are quiet keep the invariant.
LEMMA PidCalm ==
    ASSUME TypeOK, PidInv, UNCHANGED <<cmd, pidVars>>, \A q \in Id : Quiet(q)
    PROVE  PidInv'
<1>0. \A q : (Uses(q)' <=> Uses(q)) /\ (Is(q, "serve")' <=> Is(q, "serve"))
  BY DEF Uses, Is, Opt
<1>1. \A q \in Id : HasPidfile(q)' =>
          HasPidfile(q) /\ (pc'[q] = pc[q] \/ (pc[q] \in Late /\ pc'[q] \in Late))
  BY <1>0, HeldLabels DEF Quiet, HeldAt, Late, PidSteps, HasPidfile, Uses, Is, Opt
<1>2. \A q \in Id : HasPidfile(q) =>
          HasPidfile(q)' \/ pc'[q] = "killed" \/ q \in crossed \/ \A i \in Id : text[i] # q
  BY <1>0, HeldLabels
     DEF Quiet, HeldAt, Late, PidSteps, HasPidfile, Uses, Is, Opt, PidInv, Unwritten
<1>3. \A q \in Id : Unborn(q)' => Unborn(q)
  BY <1>0 DEF Quiet, Unborn, HeldAt, Late, PidSteps
<1>4. \A q \in Id : pc'[q] = "pidwrite" => pc[q] = "pidwrite"
  BY <1>0 DEF Quiet, HeldAt, Late, PidSteps
<1>5. \A q \in Id : pc[q] = "killed" => pc'[q] = "killed"
  BY DEF Quiet, Late, HeldAt
<1>6. OnlyUsers'
  BY <1>0 DEF Quiet, PidInv, OnlyUsers, HeldAt, Late, PidSteps
<1>7. UNCHANGED <<pidfile, tmp, fd, text, crossed>>
  BY DEF pidVars
<1>8. Alone' /\ FreshInode' /\ Unwritten' /\ TwoNames'
  BY <1>1, <1>3, <1>4, <1>7 DEF PidInv, Alone, FreshInode, Unwritten, TwoNames
<1>9. AllMine'
  <2> SUFFICES ASSUME NEW q \in Id \ crossed, HasPidfile(q)' PROVE Mine(q)'
    BY <1>7 DEF AllMine
  <2>1. Mine(q)
    BY <1>1 DEF PidInv, AllMine
  <2> QED BY <1>1, <1>7, <2>1 DEF Mine, Late
<1>10. ASSUME NEW i \in Id, text[i] # Nobody, Owned(i) PROVE Owned(i)'
  <2>1. text[i] \in Id
    BY <1>10 DEF TypeOK
  <2> QED BY <1>2, <1>5, <1>7, <1>10, <2>1 DEF Owned
<1>11. pidfile \in Id \cup {Nobody} /\ tmp \in Id \cup {Nobody}
  BY DEF TypeOK
<1>12. TmpOwned' /\ PidOwned'
  BY <1>7, <1>10, <1>11 DEF PidInv, TmpOwned, PidOwned
<1> QED BY <1>6, <1>8, <1>9, <1>12 DEF PidInv

\* What a process was told to do does not change.
LEMMA UsesSame == ASSUME UNCHANGED cmd PROVE \A q : Uses(q)' <=> Uses(q)
  BY DEF Uses, Is, Opt

\* Who is at the file's labels uses it.
LEMMA UserThere ==
    ASSUME PidInv, NEW p \in Id, pc[p] \in PidSteps
    PROVE  /\ Uses(p)
           /\ pc[p] \in {"pidwrite", "pidrename"} => HasPidfile(p)
<1>1. Uses(p)
  BY DEF PidInv, OnlyUsers
<1> QED BY <1>1 DEF HasPidfile, Uses

\* Where a serve with a pidfile goes on.
LEMMA UsersStay ==
    ASSUME TypeOK, OnlyUsers, UNCHANGED cmd, NEW p \in Id, Uses(p), NEW l, pc' = [pc EXCEPT ![p] = l]
    PROVE  OnlyUsers'
<1>1. \A q \in Id : pc'[q] = IF q = p THEN l ELSE pc[q]
  BY DEF TypeOK
<1>2. \A q \in Id : (Uses(q)' <=> Uses(q)) /\ (Is(q, "serve")' <=> Is(q, "serve"))
  BY DEF Uses, Is, Opt
<1>3. Is(p, "serve")
  BY DEF Uses
<1> QED BY <1>1, <1>2, <1>3 DEF OnlyUsers

\* fs::write opens the temporary file: its inode is new or the one of a serve
\* that is crossed from now on.
LEMMA PidOpenStep == ASSUME TypeOK, PidInv, NEW p \in Id, PidOpen(p) PROVE PidInv'
<1> DEFINE inode == IF tmp = Nobody THEN p ELSE tmp
           others == {q \in Id \ {p} : HasPidfile(q)}
<1>1. /\ pc[p] = "pidopen" /\ pc' = [pc EXCEPT ![p] = "pidwrite"] /\ UNCHANGED <<cmd, pidfile>>
      /\ tmp' = inode /\ fd' = [fd EXCEPT ![p] = inode] /\ text' = [text EXCEPT ![inode] = Nobody]
      /\ crossed' = crossed \cup others \cup (IF others = {} THEN {} ELSE {p})
  BY DEF PidOpen, Goto
<1>2. Uses(p) /\ Unborn(p) /\ \A q : Uses(q)' <=> Uses(q)
  BY <1>1, UserThere, UsesSame DEF PidSteps, Unborn
<1>3. \A q \in Id : pc'[q] = IF q = p THEN "pidwrite" ELSE pc[q]
  BY <1>1 DEF TypeOK
<1>4. inode \in Id /\ inode # Nobody
  BY HostAssumption DEF TypeOK
<1>5. \A i \in Id : text'[i] = IF i = inode THEN Nobody ELSE text[i]
  BY <1>1 DEF TypeOK
<1>6. \A q \in Id : HasPidfile(q)' <=> q = p \/ HasPidfile(q)
  BY <1>2, <1>3 DEF HasPidfile, Uses, Is, Opt
<1>7. others \subseteq crossed' /\ crossed \subseteq crossed' /\ (others # {} => p \in crossed')
  BY <1>1
<1>8. \A q \in others : q \in Id /\ q # p /\ HasPidfile(q)
  OBVIOUS
<1>9. \A q \in Id : q # p /\ HasPidfile(q) => q \in others
  OBVIOUS
<1>10. pidfile # inode
  BY <1>2 DEF PidInv, FreshInode, TwoNames
<1> HIDE DEF others
<1>11. OnlyUsers'
  BY <1>1, <1>2, UsersStay DEF PidInv
<1>12. Alone'
  BY <1>6, <1>7, <1>9 DEF Alone
<1>13. FreshInode'
  BY <1>1, <1>2, <1>3 DEF PidInv, FreshInode, Unborn
<1>14. Unwritten'
  BY <1>2, <1>3, <1>5, HostAssumption DEF PidInv, Unwritten, Unborn
<1>15. TwoNames'
  BY <1>1, <1>10 DEF TwoNames
<1> HIDE DEF inode
<1>16. AllMine'
  <2> SUFFICES ASSUME NEW q \in Id \ crossed', HasPidfile(q)' PROVE Mine(q)'
    BY DEF AllMine
  <2>1. q = p
    BY <1>6, <1>7, <1>9
  <2>2. fd'[p] = inode
    BY <1>1 DEF TypeOK
  <2> QED BY <1>1, <1>3, <1>4, <2>1, <2>2 DEF Mine, Late
<1>17. TmpOwned'
  BY <1>1, <1>4, <1>5 DEF TmpOwned
<1>18. PidOwned'
  <2> SUFFICES ASSUME pidfile # Nobody
               PROVE  IF text'[pidfile] = Nobody THEN crossed' # {} ELSE Owned(pidfile)'
    BY <1>1 DEF PidOwned
  <2>1. pidfile \in Id /\ text'[pidfile] = text[pidfile] /\ pidfile' = pidfile
    BY <1>1, <1>5, <1>10 DEF TypeOK
  <2>2. CASE text[pidfile] = Nobody
    BY <1>7, <2>1, <2>2 DEF PidInv, PidOwned
  <2>3. CASE text[pidfile] # Nobody
    <3>1. Owned(pidfile) /\ text[pidfile] \in Id /\ text[pidfile] # p
      BY <1>2, <2>1, <2>3 DEF PidInv, PidOwned, Unwritten, TypeOK
    <3> QED BY <1>3, <1>6, <1>7, <2>1, <2>3, <3>1 DEF Owned
  <2> QED BY <2>2, <2>3
<1> QED BY <1>11, <1>12, <1>13, <1>14, <1>15, <1>16, <1>17, <1>18 DEF PidInv

\* The pid is written into the inode that was opened, whatever it is called.
LEMMA PidWriteStep == ASSUME TypeOK, PidInv, NEW p \in Id, PidWrite(p) PROVE PidInv'
<1>1. /\ pc[p] = "pidwrite" /\ pc' = [pc EXCEPT ![p] = "pidrename"]
      /\ text' = [text EXCEPT ![fd[p]] = p] /\ UNCHANGED <<cmd, pidfile, tmp, fd, crossed>>
  BY DEF PidWrite, Goto
<1>2. Uses(p) /\ HasPidfile(p) /\ \A q : Uses(q)' <=> Uses(q)
  BY <1>1, UserThere, UsesSame DEF PidSteps
<1>3. \A q \in Id : pc'[q] = IF q = p THEN "pidrename" ELSE pc[q]
  BY <1>1 DEF TypeOK
<1>4. \A q \in Id : HasPidfile(q)' <=> HasPidfile(q)
  BY <1>1, <1>2, <1>3 DEF HasPidfile, Uses, Is, Opt
<1>5. \A i \in Id : text'[i] = IF i = fd[p] THEN p ELSE text[i]
  BY <1>1 DEF TypeOK
<1>6. OnlyUsers' /\ Alone' /\ TwoNames'
  BY <1>1, <1>2, <1>3, <1>4, UsersStay DEF PidInv, Alone, TwoNames
<1>7. FreshInode' /\ Unwritten'
  BY <1>1, <1>2, <1>3, <1>5 DEF PidInv, FreshInode, Unwritten, Unborn
<1>8. AllMine'
  <2> SUFFICES ASSUME NEW q \in Id \ crossed, HasPidfile(q) PROVE Mine(q)'
    BY <1>1, <1>4 DEF AllMine
  <2>1. q = p /\ Mine(p)
    BY <1>2 DEF PidInv, Alone, AllMine
  <2>2. tmp \in Id /\ fd[p] = tmp
    BY <1>1, <2>1 DEF Mine, TypeOK
  <2> QED BY <1>1, <1>3, <1>5, <2>1, <2>2, HostAssumption DEF Mine, Late
<1>9. ASSUME NEW i \in Id, text[i] \in Id, Owned(i) \/ i = fd[p] PROVE Owned(i)'
  BY <1>1, <1>2, <1>3, <1>4, <1>5, <1>9 DEF Owned
<1>10. TmpOwned'
  BY <1>1, <1>2, <1>4, <1>5, <1>9 DEF PidInv, TmpOwned, TypeOK, Owned
<1>11. PidOwned'
  BY <1>1, <1>2, <1>4, <1>5, <1>9, HostAssumption DEF PidInv, PidOwned, TypeOK, Owned
<1> QED BY <1>6, <1>7, <1>8, <1>10, <1>11 DEF PidInv

\* The rename publishes the inode that a lone serve has just written.
LEMMA PidRenameStep ==
    ASSUME TypeOK, PidInv, NEW p \in Id, PidRename(p), tmp # Nobody
    PROVE  PidInv'
<1>1. /\ pc[p] = "pidrename" /\ pc' = [pc EXCEPT ![p] = "install"]
      /\ pidfile' = tmp /\ tmp' = Nobody /\ UNCHANGED <<cmd, fd, text, crossed>>
  BY DEF PidRename, Goto
<1>2. Uses(p) /\ HasPidfile(p) /\ \A q : Uses(q)' <=> Uses(q)
  BY <1>1, UserThere, UsesSame DEF PidSteps
<1>3. \A q \in Id : pc'[q] = IF q = p THEN "install" ELSE pc[q]
  BY <1>1 DEF TypeOK
<1>4. \A q \in Id : HasPidfile(q)' <=> HasPidfile(q)
  BY <1>1, <1>2, <1>3 DEF HasPidfile, Uses, Is, Opt
<1>5. tmp \in Id /\ text[tmp] \in Id \cup {Nobody}
  BY DEF TypeOK
<1>6. OnlyUsers' /\ Alone' /\ TwoNames' /\ TmpOwned'
  BY <1>1, <1>2, <1>3, <1>4, UsersStay DEF PidInv, Alone, TwoNames, TmpOwned
<1>7. FreshInode' /\ Unwritten'
  BY <1>1, <1>2, <1>3, <1>5, HostAssumption DEF PidInv, FreshInode, Unwritten, Unborn
<1>8. AllMine'
  <2> SUFFICES ASSUME NEW q \in Id \ crossed, HasPidfile(q) PROVE Mine(q)'
    BY <1>1, <1>4 DEF AllMine
  <2>1. q = p /\ text[tmp] = p
    BY <1>1, <1>2 DEF PidInv, Alone, AllMine, Mine
  <2> QED BY <1>1, <1>3, <2>1 DEF Mine, Late
<1>9. PidOwned'
  <2>1. CASE text[tmp] = Nobody
    <3>1. p \in crossed
      BY <1>1, <1>2, <2>1, HostAssumption DEF PidInv, AllMine, Mine
    <3> QED BY <1>1, <2>1, <3>1 DEF PidOwned
  <2>2. CASE text[tmp] # Nobody
    <3>1. Owned(tmp) /\ text[tmp] \in Id
      BY <1>5, <2>2 DEF PidInv, TmpOwned
    <3> QED BY <1>1, <1>3, <1>4, <2>2, <3>1 DEF PidOwned, Owned
  <2> QED BY <2>1, <2>2
<1> QED BY <1>6, <1>7, <1>8, <1>9 DEF PidInv

\* The removal leaves neither name behind, unless serves crossed.
LEMMA LeaveStep == ASSUME TypeOK, PidInv, NEW p \in Id, Leave(p), Uses(p) PROVE PidInv'
<1>1. /\ pc[p] = "leave" /\ pc' = [pc EXCEPT ![p] = "exited"]
      /\ pidfile' = Nobody /\ UNCHANGED <<cmd, tmp, fd, text, crossed>>
  BY DEF Leave, Goto, Uses
<1>2. HasPidfile(p) /\ \A q : Uses(q)' <=> Uses(q)
  BY <1>1 DEF HasPidfile, Uses, Is, Opt
<1>3. \A q \in Id : pc'[q] = IF q = p THEN "exited" ELSE pc[q]
  BY <1>1 DEF TypeOK
<1>4. \A q \in Id : HasPidfile(q)' <=> HasPidfile(q) /\ q # p
  BY <1>1, <1>2, <1>3 DEF HasPidfile, Uses, Is, Opt
<1>5. OnlyUsers' /\ Alone' /\ TwoNames' /\ PidOwned'
  BY <1>1, <1>2, <1>3, <1>4, UsersStay DEF PidInv, Alone, TwoNames, PidOwned
<1>6. FreshInode' /\ Unwritten'
  BY <1>1, <1>2, <1>3, HostAssumption DEF PidInv, FreshInode, Unwritten, Unborn
<1>7. AllMine'
  BY <1>1, <1>2, <1>4 DEF PidInv, AllMine, Alone
<1>8. TmpOwned'
  <2> SUFFICES ASSUME tmp # Nobody, text[tmp] # Nobody PROVE Owned(tmp)'
    BY <1>1 DEF TmpOwned
  <2>1. Owned(tmp) /\ text[tmp] \in Id
    BY DEF PidInv, TmpOwned, TypeOK
  <2>2. p \in crossed
    BY <1>1, <1>2 DEF PidInv, AllMine, Mine, Late
  <2> QED BY <1>1, <1>3, <1>4, <2>1, <2>2 DEF Owned
<1> QED BY <1>5, <1>6, <1>7, <1>8 DEF PidInv

\* A quiet step of one process.
LEMMA PidCalmStep ==
    ASSUME TypeOK, PidInv, UNCHANGED <<cmd, pidVars>>, NEW p \in Id,
           NEW l, pc' = [pc EXCEPT ![p] = l], pc'[p] = l => Quiet(p)
    PROVE  PidInv'
<1>1. \A q \in Id : pc'[q] = IF q = p THEN l ELSE pc[q]
  BY DEF TypeOK
<1>2. \A q \in Id : Quiet(q)
  BY <1>1 DEF Quiet
<1> QED BY <1>2, PidCalm

\* What the main thread of a serve does.
LEMMA PidServe == ASSUME TypeOK, PidInv, NEW p \in Id, ServeStep(p) PROVE PidInv'
<1>1. CASE StartServe(p)
  <2>1. PICK l \in {"install", "pidopen"} :
            pc' = [pc EXCEPT ![p] = l] /\ (l = "pidopen" <=> Opt(p, "--pidfile") # Absent)
    BY <1>1 DEF StartServe, Goto
  <2> QED BY <1>1, <2>1, PidCalmStep DEF StartServe, Quiet, Uses, PidSteps, Late
<1>2. CASE PidOpen(p)
  BY <1>2, PidOpenStep
<1>3. CASE PidWrite(p)
  BY <1>3, PidWriteStep
<1>4. CASE PidRename(p) /\ tmp # Nobody
  BY <1>4, PidRenameStep
<1>5. CASE PidRename(p) /\ tmp = Nobody
  <2>1. pc[p] = "pidrename" /\ pc' = [pc EXCEPT ![p] = "exited"] /\ UNCHANGED <<cmd, pidVars>>
    BY <1>5 DEF PidRename, Exit, Goto, pidVars
  <2>2. p \in crossed
    BY <1>5, <2>1, UserThere DEF PidInv, AllMine, Mine, PidSteps
  <2> QED BY <2>1, <2>2, PidCalmStep DEF Quiet, HeldAt
<1>6. CASE PidFails(p)
  <2>1. /\ pc[p] \in {"pidopen", "pidwrite"} /\ pc' = [pc EXCEPT ![p] = "exited"]
        /\ UNCHANGED <<cmd, pidVars>>
    BY <1>6 DEF PidFails, Exit, Goto
  <2> QED BY <2>1, PidCalmStep DEF Quiet, HeldAt, Late
<1>7. CASE Leave(p) /\ Uses(p)
  BY <1>7, LeaveStep
<1>8. CASE Leave(p) /\ ~Uses(p)
  <2>1. pc[p] = "leave" /\ pc' = [pc EXCEPT ![p] = "exited"] /\ UNCHANGED <<cmd, tmp, fd, text, crossed>>
    BY <1>8 DEF Leave, Goto
  <2>2. CASE Opt(p, "--pidfile") = Absent
    <3>1. UNCHANGED pidVars
      BY <1>8, <2>1, <2>2 DEF Leave, pidVars
    <3>2. Quiet(p) \/ pc'[p] # "exited"
      BY <1>8, <2>1 DEF Quiet, PidSteps, Late
    <3> QED BY <2>1, <3>1, <3>2, PidCalmStep
  <2>3. Is(p, "serve")
    BY <2>1 DEF PidInv, OnlyUsers, Late
  <2> QED BY <1>8, <2>2, <2>3 DEF Uses
<1>9. CASE Drain(p)
  <2>1. pc[p] = "drain" /\ UNCHANGED <<cmd, pidVars>>
    BY <1>9 DEF Drain
  <2>2. CASE UNCHANGED pc
    BY <2>1, <2>2, PidCalm DEF Quiet
  <2>3. CASE Goto(p, "leave")
    BY <2>1, <2>3, PidCalmStep DEF Goto, Quiet, Late
  <2> QED BY <1>9, <2>2, <2>3 DEF Drain
<1>10. CASE Install(p) \/ Bind(p) \/ Poll(p) \/ Accept(p)
  <2>1. PICK l \in Late : pc' = [pc EXCEPT ![p] = l]
    BY <1>10 DEF Install, Bind, Poll, Accept, Goto, Late
  <2>2. pc[p] \in Late /\ UNCHANGED <<cmd, pidVars>>
    BY <1>10 DEF Install, Bind, Poll, Accept, Late
  <2> QED BY <2>1, <2>2, PidCalmStep DEF Quiet
<1> QED BY <1>1, <1>2, <1>3, <1>4, <1>5, <1>6, <1>7, <1>8, <1>9, <1>10 DEF ServeStep

\* What a client does: it has no part in the pidfile.
LEMMA PidClient == ASSUME TypeOK, PidInv, NEW p \in Id, ClientStep(p) PROVE PidInv'
<1> DEFINE Outside == {"start", "connect", "call", "wait", "peersopen", "peerswrite"}
           Moves == \E l \in {"exited", "connect", "call", "wait", "peersopen", "peerswrite"} : Goto(p, l)
<1>1. UNCHANGED <<cmd, pidVars>> /\ pc[p] \in Outside
  <2>1. CASE Usage(p) \/ StartClient(p) \/ PeersRead(p) \/ PassStarts(p)
    BY <2>1 DEF Usage, StartClient, PeersRead, PassStarts
  <2>2. CASE Connect(p) \/ Call(p) \/ ClientEnds(p) \/ PeersOpen(p) \/ PeersWrite(p)
    BY <2>2 DEF Connect, Call, ClientEnds, PeersOpen, PeersWrite
  <2>3. CASE Receive(p)
    BY <2>3 DEF Receive, Hangup
  <2>4. CASE Lost(p) \/ CallsMade(p)
    BY <2>4 DEF Lost, CallsMade, Hangup
  <2> QED BY <2>1, <2>2, <2>3, <2>4 DEF ClientStep
<1>2. pc' = pc \/ Moves \/ (Goto(p, "start") /\ Is(p, "sync-loop"))
  <2>1. CASE Usage(p) \/ StartClient(p) \/ PeersRead(p) \/ PassStarts(p)
    BY <2>1 DEF Usage, StartClient, PeersRead, PassStarts, Exit
  <2>2. CASE Connect(p) \/ Call(p) \/ PeersOpen(p) \/ PeersWrite(p)
    BY <2>2 DEF Connect, Call, PeersOpen, PeersWrite, Exit
  <2>3. CASE ClientEnds(p)
    BY <2>3 DEF ClientEnds, Exit
  <2>4. CASE Receive(p)
    BY <2>4 DEF Receive, Hangup
  <2>5. CASE Lost(p) \/ CallsMade(p)
    BY <2>5 DEF Lost, CallsMade, Hangup
  <2> QED BY <2>1, <2>2, <2>3, <2>4, <2>5 DEF ClientStep
<1>3. CASE pc' = pc
  BY <1>1, <1>3, PidCalm DEF Quiet
<1>4. ASSUME NEW l \in {"exited", "connect", "call", "wait", "peersopen", "peerswrite"}, Goto(p, l)
      PROVE  PidInv'
  BY <1>1, <1>4, PidCalmStep DEF Goto, Quiet, HeldAt, Late
<1>5. CASE Goto(p, "start") /\ Is(p, "sync-loop")
  BY <1>1, <1>5, PidCalmStep DEF Goto, Quiet, Uses, Is, PidSteps, Late
<1> QED BY <1>2, <1>3, <1>4, <1>5

\* Every step keeps the invariant.
LEMMA PidStep == TypeOK /\ PidInv /\ [Next]_vars => PidInv'
<1> SUFFICES ASSUME TypeOK, PidInv, [Next]_vars PROVE PidInv'
  OBVIOUS
<1>1. CASE UNCHANGED <<cmd, pidVars, pc>>
  BY <1>1, PidCalm DEF Quiet
<1>2. ASSUME NEW p \in Id, Terminate(p) \/ Kill(p) PROVE PidInv'
  <2>1. UNCHANGED <<cmd, pidVars>> /\ (UNCHANGED pc \/ Goto(p, "killed"))
    BY <1>2 DEF Terminate, Kill, Dies
  <2> QED BY <1>1, <2>1, PidCalmStep DEF Goto, Quiet
<1>3. ASSUME NEW p \in Id, OldServer(p) \/ \E c \in Id : Handle(p, c) PROVE PidInv'
  BY <1>1, <1>3 DEF OldServer, Handle
<1>4. CASE UNCHANGED vars
  BY <1>1, <1>4 DEF vars
<1> QED BY <1>2, <1>3, <1>4, PidServe, PidClient DEF Next, Over

\* The pidfile names the serve that runs and is never seen empty, for every
\* number of serves and other processes, among those that did not use the
\* file at the same time as another (1475-1479, 1155-1171).
THEOREM PidfileCorrect == Spec => []PidfileTells
<1>1. TypeOK /\ PidInv => PidfileTells
  <2> SUFFICES ASSUME TypeOK, PidInv PROVE PidfileTells
    OBVIOUS
  <2>1. ASSUME NEW p \in Id \ crossed, HasPidfile(p), pc[p] \notin {"pidwrite", "pidrename"}
        PROVE  pidfile # Nobody /\ text[pidfile] = p
    <3>1. Mine(p) /\ pc[p] \in Late
      BY <2>1, HeldLabels DEF PidInv, AllMine, HeldAt
    <3> QED BY <3>1 DEF Mine
  <2>2. PidOwned
    BY DEF PidInv
  <2> QED BY <2>1, <2>2 DEF PidfileTells, PidOwned, Owned
<1> QED BY <1>1, PidInit, PidStep, TypeCorrect, PTL DEF Spec
-----------------------------------------------------------------------------
(* A fetch.  All it ever asks is for the cid of its command line.          *)

Wanted(p) == FetchCall(BytesOf(Opt(p, "--cid")))
FetchSound(p) ==
    /\ todo[p] \in {<<>>, <<Wanted(p)>>}
    /\ pc[p] = "wait" => todo[p] # <<>>
FetchInv == DOMAIN todo = Id /\ \A p \in Id : Is(p, "fetch") => FetchSound(p)

\* What the parser of the answer sees of that call.
LEMMA FetchResult ==
    ASSUME NEW name, NEW reply
    PROVE  /\ MethodOf(FetchCall(name)) # Method.Chain
           /\ Result(FetchCall(name), reply) =
                IF LegalFrame(reply) THEN ParseFetchResponse(reply, name) ELSE Broken
<1> DEFINE request == [type |-> "object", fields |-> [k \in {CidKey} |-> String(name)]]
<1>1. FetchCall(name).for = [family |-> "cid", method |-> <<>>, request |-> request]
  BY DEF FetchCall, JsonCall, To, Object
<1>2. Field(request, CidKey).chars = name
  BY DEF Field, IsObject, String
<1>3. <<>> # Method.Chain
  BY DEF Method
<1> QED BY <1>1, <1>2, <1>3 DEF Result, MethodOf

LEMMA TailOfOne ==
    ASSUME NEW x
    PROVE  Head(<<x>>) = x /\ Tail(<<x>>) = <<>> /\ <<>> \o <<>> = <<>> /\ <<x>> # <<>>
  OBVIOUS

\* A step of one process with its own calls.
LEMMA FetchMoves ==
    ASSUME FetchInv, NEW p \in Id, UNCHANGED cmd, DOMAIN todo' = Id,
           \A q \in Id \ {p} : todo'[q] = todo[q] /\ (pc'[q] = "wait" => pc[q] = "wait"),
           Is(p, "fetch") => todo'[p] \in {<<>>, <<Wanted(p)>>} /\ (pc'[p] = "wait" => todo'[p] # <<>>)
    PROVE  FetchInv'
<1>1. \A q : (Is(q, "fetch")' <=> Is(q, "fetch")) /\ Wanted(q)' = Wanted(q)
  BY DEF Is, Wanted, Opt
<1> QED BY <1>1 DEF FetchInv, FetchSound

\* A step that leaves all calls as they are and makes none.
LEMMA FetchCalm ==
    ASSUME FetchInv, TypeOK, NEW p \in Id, UNCHANGED <<cmd, todo>>,
           UNCHANGED pc \/ \E l \in Labels \ {"wait"} : Goto(p, l)
    PROVE  FetchInv'
<1>1. pc \in [Id -> Labels]
  BY DEF TypeOK
<1>2. \A q \in Id : pc'[q] = "wait" => pc[q] = "wait"
  BY <1>1 DEF Goto
<1> QED BY <1>2, FetchMoves DEF FetchInv, FetchSound

LEMMA FetchHangup ==
    ASSUME FetchInv, TypeOK, NEW p \in Id, Hangup(p)
    PROVE  FetchInv'
<1>1. pc \in [Id -> Labels] /\ UNCHANGED cmd /\ DOMAIN todo = Id
  BY DEF TypeOK, Hangup, FetchInv
<1>2. todo' = [todo EXCEPT ![p] = <<>>] /\ Goto(p, "connect")
  BY DEF Hangup
<1>3. DOMAIN todo' = Id /\ todo'[p] = <<>> /\ pc'[p] = "connect"
      /\ \A q \in Id \ {p} : todo'[q] = todo[q] /\ pc'[q] = pc[q]
  BY <1>1, <1>2 DEF Goto
<1> QED BY <1>1, <1>3, FetchMoves

\* A step of a client; those that begin and end it make no call.
LEMMA FetchClient == ASSUME FetchInv, TypeOK, NEW p \in Id, ClientStep(p) PROVE FetchInv'
<1>1. pc \in [Id -> Labels] /\ DOMAIN todo = Id
  BY DEF TypeOK, FetchInv
<1>2. Is(p, "fetch") => FirstCalls(p) = <<Wanted(p)>>
  BY DEF FirstCalls, Wanted, Is
<1>3. CASE Usage(p) \/ StartClient(p) \/ PeersRead(p) \/ PassStarts(p) \/ ClientEnds(p) \/ PeersOpen(p) \/ PeersWrite(p)
  <2>1. UNCHANGED <<cmd, todo>>
    BY <1>3 DEF Usage, StartClient, PeersRead, PassStarts, ClientEnds, PeersOpen, PeersWrite, callVars
  <2>2. UNCHANGED pc \/ \E l \in {"exited", "connect", "start", "peersopen", "peerswrite"} : Goto(p, l)
    BY <1>3 DEF Usage, StartClient, PeersRead, PassStarts, ClientEnds, PeersOpen, PeersWrite, Exit
  <2> QED BY <2>1, <2>2, FetchCalm DEF Labels, Ended
<1>4. CASE Connect(p)
  <2>1. UNCHANGED cmd
    BY <1>4 DEF Connect
  <2>2. \/ UNCHANGED <<todo, pc>>
        \/ todo' = [todo EXCEPT ![p] = FirstCalls(p)] /\ Goto(p, "call")
    BY <1>4 DEF Connect
  <2>3. CASE UNCHANGED <<todo, pc>>
    BY <2>1, <2>3, FetchCalm
  <2>4. CASE todo' = [todo EXCEPT ![p] = FirstCalls(p)] /\ Goto(p, "call")
    <3>1. DOMAIN todo' = Id /\ todo'[p] = FirstCalls(p) /\ pc'[p] = "call"
          /\ \A q \in Id \ {p} : todo'[q] = todo[q] /\ pc'[q] = pc[q]
      BY <1>1, <2>4 DEF Goto
    <3> QED BY <1>2, <2>1, <3>1, FetchMoves
  <2> QED BY <2>2, <2>3, <2>4
<1>5. CASE Call(p)
  <2>1. UNCHANGED cmd /\ todo[p] # <<>> /\ pc[p] = "call"
    BY <1>5 DEF Call
  <2>2. \/ todo' = [todo EXCEPT ![p] = Tail(todo[p])] /\ UNCHANGED pc
        \/ Goto(p, "wait") /\ UNCHANGED todo
    BY <1>5 DEF Call
  <2>3. Is(p, "fetch") => todo[p] = <<Wanted(p)>> /\ Tail(todo[p]) = <<>>
    BY <2>1, TailOfOne DEF FetchInv, FetchSound
  <2>4. /\ DOMAIN todo' = Id /\ todo'[p] \in {todo[p], Tail(todo[p])}
        /\ pc'[p] = "wait" => todo'[p] = todo[p]
        /\ \A q \in Id \ {p} : todo'[q] = todo[q] /\ pc'[q] = pc[q]
    BY <1>1, <2>1, <2>2 DEF Goto
  <2> QED BY <2>1, <2>3, <2>4, FetchMoves
<1>6. CASE Receive(p)
  <2>1. CASE Hangup(p)
    BY <2>1, FetchHangup
  <2>2. CASE ~ Hangup(p)
    <3>1. UNCHANGED cmd /\ Goto(p, "call") /\ pc[p] = "wait"
      BY <1>6, <2>2 DEF Receive
    <3> DEFINE more == IF MethodOf(Asked(p)) # Method.Chain \/ Result(Asked(p), line[p].reply).status # "ok"
                       THEN <<>>
                       ELSE IF Pushes(p) THEN PutCalls(p, Result(Asked(p), line[p].reply).data)
                            ELSE GetCalls(Result(Asked(p), line[p].reply).data)
    <3>2. todo' = [todo EXCEPT ![p] = Tail(todo[p]) \o more]
      BY <1>6, <2>2 DEF Receive
    <3>3. ASSUME Is(p, "fetch") PROVE Tail(todo[p]) \o more = <<>>
      <4>1. todo[p] = <<Wanted(p)>>
        BY <3>1, <3>3 DEF FetchInv, FetchSound
      <4>2. Asked(p) = Wanted(p) /\ Tail(todo[p]) = <<>>
        BY <4>1, TailOfOne DEF Asked
      <4>3. more = <<>>
        BY <4>2, FetchResult DEF Wanted
      <4> QED BY <4>2, <4>3, TailOfOne
    <3>4. DOMAIN todo' = Id /\ todo'[p] = Tail(todo[p]) \o more /\ pc'[p] = "call"
          /\ \A q \in Id \ {p} : todo'[q] = todo[q] /\ pc'[q] = pc[q]
      <4> HIDE DEF more
      <4> QED BY <1>1, <3>1, <3>2 DEF Goto
    <3> HIDE DEF more
    <3> QED BY <3>1, <3>3, <3>4, FetchMoves
  <2> QED BY <2>1, <2>2
<1>7. CASE Lost(p)
  BY <1>7, FetchHangup DEF Lost
<1>8. CASE CallsMade(p)
  <2>1. CASE Hangup(p)
    BY <2>1, FetchHangup
  <2>2. CASE ~ Hangup(p)
    <3>1. UNCHANGED <<cmd, pc>> /\ ~ Is(p, "fetch") /\ todo' = [todo EXCEPT ![p] = FirstCalls(p)]
      BY <1>8, <2>2 DEF CallsMade, Is
    <3>2. DOMAIN todo' = Id /\ \A q \in Id \ {p} : todo'[q] = todo[q] /\ pc'[q] = pc[q]
      BY <1>1, <3>1
    <3> QED BY <3>1, <3>2, FetchMoves
  <2> QED BY <2>1, <2>2
<1> QED BY <1>3, <1>4, <1>5, <1>6, <1>7, <1>8 DEF ClientStep

LEMMA FetchStep == TypeOK /\ FetchInv /\ [Next]_vars => FetchInv'
<1> SUFFICES ASSUME TypeOK, FetchInv, [Next]_vars PROVE FetchInv'
  OBVIOUS
<1>1. ASSUME UNCHANGED <<cmd, todo, pc>> PROVE FetchInv'
  BY <1>1 DEF FetchInv, FetchSound, Wanted, Is, Opt
<1>2. ASSUME NEW p \in Id, ServeStep(p) PROVE FetchInv'
  <2>1. UNCHANGED <<cmd, todo>>
    BY <1>2 DEF ServeStep, StartServe, PidOpen, PidWrite, PidRename, PidFails, Install, Bind, Poll,
                Accept, Drain, Leave, callVars
  <2>2. UNCHANGED pc \/ \E l \in Labels \ {"wait"} : Goto(p, l)
    BY <1>2 DEF ServeStep, StartServe, PidOpen, PidWrite, PidRename, PidFails, Install, Bind, Poll,
                Accept, Drain, Leave, Exit, Labels, Ended
  <2> QED BY <2>1, <2>2, FetchCalm
<1>3. ASSUME NEW p \in Id, Terminate(p) \/ Kill(p) PROVE FetchInv'
  <2>1. UNCHANGED <<cmd, todo>> /\ (UNCHANGED pc \/ Goto(p, "killed"))
    BY <1>3 DEF Terminate, Kill, Dies, callVars
  <2> QED BY <2>1, FetchCalm DEF Labels, Ended
<1>4. ASSUME NEW p \in Id, OldServer(p) \/ \E c \in Id : Handle(p, c) PROVE FetchInv'
  BY <1>1, <1>4 DEF OldServer, Handle, callVars
<1>5. CASE UNCHANGED vars
  BY <1>1, <1>5 DEF vars, callVars
<1> QED BY <1>2, <1>3, <1>4, <1>5, FetchClient DEF Next, Over

\* A fetch takes a frame that hashes to the cid of its command line as the
\* body, whole, whatever byte it begins with, and returns nothing else than
\* bytes that hash to it, whoever answers (parse_fetch_response 563-600).
THEOREM FetchCorrect == Spec => []LegacyAgrees
<1>1. Init => FetchInv
  BY DEF Init, FetchInv, FetchSound
<1>2. FetchInv => LegacyAgrees
  <2> SUFFICES ASSUME FetchInv, NEW c \in Id, pc[c] = "wait", Is(c, "fetch")
               PROVE  LET name == BytesOf(Opt(c, "--cid"))
                          reply == line[c].reply
                          result == Result(Asked(c), reply)
                          Hashes(bytes) == /\ HexDecodes(name) /\ Len(name) = 2 * AddressLen
                                           /\ Address(bytes) = HexDecode(name)
                      IN /\ LegalFrame(reply) /\ Hashes(reply) => result = Ok(reply)
                         /\ result.status = "ok" => Hashes(result.data)
    BY DEF LegacyAgrees
  <2> DEFINE name == BytesOf(Opt(c, "--cid"))
             reply == line[c].reply
  <2>1. todo[c] = <<Wanted(c)>>
    BY DEF FetchInv, FetchSound
  <2>2. Asked(c) = FetchCall(name)
    BY <2>1 DEF Asked, Wanted
  <2>3. Result(Asked(c), reply) = IF LegalFrame(reply) THEN ParseFetchResponse(reply, name) ELSE Broken
    BY <2>2, FetchResult
  <2> QED BY <2>3 DEF ParseFetchResponse, Ok, Error, Broken
<1> QED BY <1>1, <1>2, FetchStep, TypeCorrect, PTL DEF Spec

-----------------------------------------------------------------------------
(* Lists. *)

\* Adding what a list lacks.
LEMMA Added ==
    ASSUME NEW S, NEW s \in Seq(S), IsInjective(s), NEW a \in S, a \notin ToSet(s)
    PROVE  /\ Append(s, a) \in Seq(S) /\ IsInjective(Append(s, a))
           /\ ToSet(Append(s, a)) = ToSet(s) \cup {a}
<1> DEFINE t == Append(s, a)
<1>1. /\ t \in Seq(S) /\ Len(t) = Len(s) + 1 /\ Len(s) \in Nat
      /\ DOMAIN s = 1..Len(s) /\ DOMAIN t = 1..Len(t)
      /\ \A i \in 1..Len(s) : t[i] = s[i]
      /\ t[Len(s) + 1] = a
  BY AppendProperties, LenProperties
<1> HIDE DEF t
<1>2. \A i \in DOMAIN t : (i \in DOMAIN s /\ t[i] = s[i]) \/ (i = Len(s) + 1 /\ t[i] = a)
  BY <1>1
<1>3. \A i \in DOMAIN s : s[i] # a
  BY DEF ToSet
<1>4. IsInjective(t)
  <2>1. ASSUME NEW i \in DOMAIN t, NEW j \in DOMAIN t, t[i] = t[j] PROVE i = j
    <3>1. CASE i \in DOMAIN s /\ j \in DOMAIN s
      BY <1>1, <2>1, <3>1 DEF IsInjective
    <3>2. CASE i \notin DOMAIN s \/ j \notin DOMAIN s
      BY <1>2, <1>3, <2>1, <3>2
    <3> QED BY <3>1, <3>2
  <2> QED BY <2>1 DEF IsInjective
<1>5. ToSet(t) = ToSet(s) \cup {a}
  <2>1. ToSet(t) \subseteq ToSet(s) \cup {a}
    BY <1>2 DEF ToSet
  <2>2. a \in ToSet(t)
    <3>1. Len(s) + 1 \in DOMAIN t
      BY <1>1
    <3> QED BY <1>1, <3>1 DEF ToSet
  <2>3. ToSet(s) \subseteq ToSet(t)
    <3>1. \A i \in DOMAIN s : i \in DOMAIN t /\ t[i] = s[i]
      BY <1>1
    <3> QED BY <3>1 DEF ToSet
  <2> QED BY <2>1, <2>2, <2>3
<1> QED BY <1>1, <1>4, <1>5 DEF t

\* peers_remove drops an address, wherever it is, and nothing else.
LEMMA Removed ==
    ASSUME NEW S, NEW s \in Seq(S), IsInjective(s), NEW a
    PROVE  /\ Without(s, a) \in Seq(S) /\ IsInjective(Without(s, a))
           /\ ToSet(Without(s, a)) = ToSet(s) \ {a}
<1> DEFINE K == {i \in DOMAIN s : s[i] # a}
<1>0. K \subseteq DOMAIN s
  OBVIOUS
<1>4. {s[i] : i \in K} = ToSet(s) \ {a}
  BY DEF ToSet
<1>5. Without(s, a) = Keep(s, K)
  BY DEF Without
<1> HIDE DEF K
<1>1. /\ Keep(s, K) \in Seq(S)
      /\ \A j \in DOMAIN Keep(s, K) : \E i \in K : Keep(s, K)[j] = s[i]
      /\ \A i \in K : \E j \in DOMAIN Keep(s, K) : Keep(s, K)[j] = s[i]
  BY <1>0, KeepKeeps
<1>2. IsInjective(Keep(s, K))
  BY <1>0, KeepInjective
<1>3. ToSet(Keep(s, K)) = {s[i] : i \in K}
  BY <1>1 DEF ToSet
<1> QED BY <1>1, <1>2, <1>3, <1>4, <1>5

\* peers_list reads every address of the file, once.
LEMMA DistinctReads ==
    ASSUME NEW S, NEW s \in Seq(S)
    PROVE  /\ Distinct(s) \in Seq(S) /\ IsInjective(Distinct(s))
           /\ ToSet(Distinct(s)) = ToSet(s)
<1> DEFINE K == {i \in DOMAIN s : \A j \in 1..(i - 1) : s[j] # s[i]}
<1>1. Len(s) \in Nat /\ DOMAIN s = 1..Len(s)
  BY LenProperties
<1>0. K \subseteq DOMAIN s
  OBVIOUS
<1>2. /\ Keep(s, K) \in Seq(S)
      /\ \A j \in DOMAIN Keep(s, K) : \E i \in K : Keep(s, K)[j] = s[i]
      /\ \A i \in K : \E j \in DOMAIN Keep(s, K) : Keep(s, K)[j] = s[i]
  <2> HIDE DEF K
  <2> QED BY <1>0, KeepKeeps
<1>3. IsInjective(Keep(s, K))
  <2>1. ASSUME NEW i \in K, NEW k \in K, s[i] = s[k] PROVE i = k
    <3>1. i \in Nat /\ k \in Nat /\ i >= 1 /\ k >= 1
      BY <1>1
    <3>2. ~ i \in 1..(k - 1) /\ ~ k \in 1..(i - 1)
      BY <2>1
    <3> QED BY <3>1, <3>2
  <2> HIDE DEF K
  <2> QED BY <1>0, <2>1, KeepDistinct
<1>4. ToSet(Keep(s, K)) \subseteq ToSet(s)
  BY <1>2 DEF ToSet
<1>5. ASSUME NEW i \in DOMAIN s PROVE s[i] \in ToSet(Keep(s, K))
  <2> DEFINE Same == {k \in DOMAIN s : s[k] = s[i]}
  <2>1. Same \subseteq 1..Len(s) /\ Same # {}
    BY <1>1
  <2>2. PICK m \in Same : \A k \in Same : m <= k
    <3> HIDE DEF Same
    <3> QED BY <1>1, <2>1, FirstIsFirst
  <2>3. m \in K
    <3>1. m \in DOMAIN s /\ s[m] = s[i] /\ m \in Nat
      BY <1>1, <2>2
    <3>2. ASSUME NEW j \in 1..(m - 1) PROVE s[j] # s[m]
      <4>1. j \in DOMAIN s /\ j < m /\ j \in Nat
        BY <1>1, <3>1
      <4>2. j \notin Same
        BY <2>2, <3>1, <4>1
      <4> QED BY <3>1, <4>1, <4>2
    <3> QED BY <3>1, <3>2
  <2> QED BY <1>2, <2>2, <2>3 DEF ToSet
<1>6. ToSet(s) \subseteq ToSet(Keep(s, K))
  BY <1>5 DEF ToSet
<1> QED BY <1>2, <1>3, <1>4, <1>6 DEF Distinct

\* A file that was truncated holds what is written to it; a longer one keeps
\* lines of its own, and its type.
LEMMA OverwrittenIs ==
    ASSUME NEW S, NEW old \in Seq(S), NEW new \in Seq(S)
    PROVE  /\ Overwritten(old, new) \in Seq(S)
           /\ old = <<>> => Overwritten(old, new) = new
<1>1. Len(old) \in Nat /\ Len(new) \in Nat /\ DOMAIN old = 1..Len(old)
  BY LenProperties
<1>2. SubSeq(old, Len(new) + 1, Len(old)) \in Seq(S)
  <2>1. \A i \in (Len(new) + 1)..Len(old) : old[i] \in S
    BY <1>1, ElementOfSeq
  <2> QED BY <1>1, <2>1, SubSeqProperties
<1>3. old = <<>> => SubSeq(old, Len(new) + 1, Len(old)) = <<>>
  <2>1. old = <<>> => Len(old) = 0
    BY EmptySeq
  <2> QED BY <1>1, <2>1, SubSeqEmpty
<1> QED BY <1>2, <1>3, ConcatProperties, ConcatEmptySeq DEF Overwritten

\* A list without repetitions is as long as it has addresses.
LEMMA LengthIs ==
    ASSUME NEW S, NEW s \in Seq(S), IsInjective(s)
    PROVE  Len(s) = Cardinality(ToSet(s))
<1>1. Len(s) \in Nat /\ DOMAIN s = 1..Len(s) /\ s = [i \in 1..Len(s) |-> s[i]]
  BY LenProperties
<1>2. s \in [1..Len(s) -> ToSet(s)]
  BY <1>1 DEF ToSet
<1>3. s \in Bijection(1..Len(s), ToSet(s))
  BY <1>1, <1>2 DEF Bijection, Injection, Surjection, ToSet, IsInjective
<1> QED BY <1>1, <1>3, FS_CountingElements DEF ExistsBijection

\* What is left after the first address, and that address.
LEMMA TailLeaves ==
    ASSUME NEW S, NEW s \in Seq(S), s # <<>>
    PROVE  Tail(s) \in Seq(S) /\ ToSet(s) \subseteq {Head(s)} \cup ToSet(Tail(s))
<1>1. /\ Tail(s) \in Seq(S) /\ Len(Tail(s)) = Len(s) - 1
      /\ \A i \in 1..Len(Tail(s)) : Tail(s)[i] = s[i + 1]
  BY HeadTailProperties
<1>2. Len(s) \in Nat /\ DOMAIN s = 1..Len(s) /\ DOMAIN Tail(s) = 1..Len(Tail(s)) /\ Head(s) = s[1]
  BY <1>1, LenProperties
<1>3. ASSUME NEW i \in DOMAIN s, i # 1 PROVE s[i] \in ToSet(Tail(s))
  <2>1. i - 1 \in DOMAIN Tail(s) /\ Tail(s)[i - 1] = s[i]
    BY <1>1, <1>2, <1>3
  <2> QED BY <2>1 DEF ToSet
<1> QED BY <1>1, <1>2, <1>3 DEF ToSet
-----------------------------------------------------------------------------
(* peers.txt and the edits.  In a directory where no edits overlapped and  *)
(* none broke off, at most one is under way, the list it will write is     *)
(* what the edits asked for, and so is the file unless it was truncated.   *)

EditLabels == {"peersopen", "peerswrite"}
Truncated(d) == \E p \in EditedBy(d) : pc[p] = "peerswrite"
Lone(d) == \A p, q \in EditedBy(d) : p = q
FileKept(d) ==
    IF Truncated(d) THEN peers[d] = <<>>
    ELSE IsInjective(peers[d]) /\ ToSet(peers[d]) = ledger[d]
ListSound(d, p) == IsInjective(list[p]) /\ ToSet(list[p]) = Asks(d, p)
Sound(d) == Lone(d) /\ FileKept(d) /\ \A p \in EditedBy(d) : ListSound(d, p)

ListsTyped ==
    /\ peers \in [Dirs -> Seq(STRING)] /\ DOMAIN ledger = Dirs /\ DOMAIN list = Id
    /\ \A p \in Id : Edits(p) /\ Dir(p) \in Dirs => list[p] \in Seq(STRING)
OnlyEditors == \A p \in Id : pc[p] \in EditLabels => Is(p, "peers")

PeersInv == ListsTyped /\ OnlyEditors /\ \A d \in Dirs \ torn : Sound(d)

\* What a process was told to do does not change.
LEMMA EditorsAfter ==
    ASSUME UNCHANGED cmd
    PROVE  /\ \A p : (Is(p, "peers")' <=> Is(p, "peers")) /\ Dir(p)' = Dir(p)
           /\ \A p : Edits(p)' <=> Is(p, "peers") /\ pc'[p] \in EditLabels
           /\ \A d, p : p \in EditedBy(d)' <=> p \in Id /\ Edits(p)' /\ Dir(p) = d
           /\ \A d, p : ledger'[d] = ledger[d] => Asks(d, p)' = Asks(d, p)
<1>1. \A p : (Is(p, "peers")' <=> Is(p, "peers")) /\ Dir(p)' = Dir(p)
  BY DEF Is, Dir, Opt
<1>2. \A d, p : ledger'[d] = ledger[d] => Asks(d, p)' = Asks(d, p)
  BY DEF Asks, Opt
<1> QED BY <1>1, <1>2 DEF Edits, EditedBy, EditLabels

\* At first the file is what it is to be.
LEMMA PeersInit == Init => PeersInv
<1> SUFFICES ASSUME Init PROVE PeersInv
  OBVIOUS
<1>1. /\ \A p \in Id : pc[p] = "start"
      /\ DOMAIN list = Id /\ peers = StartPeers /\ ledger = [d \in Dirs |-> ToSet(StartPeers[d])]
  BY DEF Init
<1>2. \A p \in Id : ~Edits(p)
  BY <1>1 DEF Edits
<1>3. ListsTyped /\ OnlyEditors
  BY <1>1, <1>2, PeersAssumption DEF ListsTyped, OnlyEditors, EditLabels
<1>4. ASSUME NEW d \in Dirs PROVE Sound(d)
  <2>1. EditedBy(d) = {}
    BY <1>2 DEF EditedBy
  <2>2. IsInjective(peers[d]) /\ ToSet(peers[d]) = ledger[d]
    BY <1>1, PeersAssumption
  <2> QED BY <2>1, <2>2 DEF Sound, Lone, FileKept, Truncated
<1> QED BY <1>3, <1>4 DEF PeersInv

\* A directory in which nothing happens but that an edit ends before its
\* truncation stays sound.
LEMMA SoundKept ==
    ASSUME NEW d \in Dirs, Sound(d), UNCHANGED cmd,
           peers'[d] = peers[d], ledger'[d] = ledger[d],
           \A q \in Id : Dir(q) = d /\ Is(q, "peers") =>
               \/ pc'[q] = pc[q] /\ list'[q] = list[q]
               \/ pc[q] # "peerswrite" /\ pc'[q] \notin EditLabels
    PROVE  Sound(d)'
<1>1. \A q \in EditedBy(d)' : q \in EditedBy(d) /\ pc'[q] = pc[q] /\ list'[q] = list[q]
  BY EditorsAfter DEF EditedBy, Edits, EditLabels
<1>2. Lone(d)'
  BY <1>1 DEF Sound, Lone
<1>3. Truncated(d)' <=> Truncated(d)
  <2>1. \A q \in EditedBy(d) : pc[q] = "peerswrite" => q \in EditedBy(d)' /\ pc'[q] = "peerswrite"
    BY EditorsAfter DEF EditedBy, Edits, EditLabels
  <2> QED BY <1>1, <2>1 DEF Truncated
<1>4. FileKept(d)'
  BY <1>3 DEF Sound, FileKept
<1>5. \A q \in EditedBy(d)' : ListSound(d, q)'
  BY <1>1, EditorsAfter DEF Sound, ListSound
<1> QED BY <1>2, <1>4, <1>5 DEF Sound

\* Steps that leave the lists alone, and in which no process begins an edit or
\* leaves one between its truncation and its write, keep the invariant.
Calm(q) == pc'[q] = pc[q] \/ (pc[q] # "peerswrite" /\ pc'[q] \notin EditLabels)
LEMMA PeersCalm ==
    ASSUME PeersInv, UNCHANGED <<cmd, peers, list, ledger, torn>>, \A q \in Id : Calm(q)
    PROVE  PeersInv'
<1>1. \A d \in Dirs \ torn' : Sound(d)'
  BY SoundKept DEF PeersInv, Calm
<1>2. \A q \in Id : Edits(q)' => Edits(q)
  BY EditorsAfter DEF Calm, Edits, EditLabels
<1>3. ListsTyped' /\ OnlyEditors'
  BY <1>2, EditorsAfter DEF PeersInv, ListsTyped, OnlyEditors, Calm
<1> QED BY <1>1, <1>3 DEF PeersInv

LEMMA PeersCalmStep ==
    ASSUME TypeOK, PeersInv, UNCHANGED <<cmd, peers, list, ledger, torn>>, NEW p \in Id,
           NEW l, pc' = [pc EXCEPT ![p] = l], pc[p] # "peerswrite", l \notin EditLabels
    PROVE  PeersInv'
<1>1. \A q \in Id : pc'[q] = IF q = p THEN l ELSE pc[q]
  BY DEF TypeOK
<1> QED BY <1>1, PeersCalm DEF Calm

\* peers_add and peers_remove, up to the decision to write.
LEMMA PeersReadStep == ASSUME TypeOK, PeersInv, NEW p \in Id, PeersRead(p) PROVE PeersInv'
<1> DEFINE d == Dir(p)
           a == Opt(p, "peer")
           op == Opt(p, "op")
           now == Distinct(peers[d])
           changes == (op = "add") # (a \in ToSet(now))
           new == IF op = "add" THEN Append(now, a) ELSE Without(now, a)
<1>1. pc[p] = "start" /\ Is(p, "peers") /\ UNCHANGED <<cmd, peers>>
  BY DEF PeersRead
<1>2. CASE op = "list" \/ (op = "add" /\ a \notin Valid)
  <2>1. pc' = [pc EXCEPT ![p] = "exited"] /\ UNCHANGED <<list, ledger, torn>>
    BY <1>2 DEF PeersRead, Exit, Goto
  <2>2. \A q \in Id : Calm(q)
    BY <1>1, <2>1 DEF TypeOK, Calm, EditLabels
  <2> QED BY <1>1, <2>1, <2>2, PeersCalm
<1>3. CASE ~(op = "list" \/ (op = "add" /\ a \notin Valid))
  <2>1. /\ torn' = torn \cup (IF EditedBy(d) = {} THEN {} ELSE {d})
        /\ \/ /\ changes /\ list' = [list EXCEPT ![p] = new]
              /\ pc' = [pc EXCEPT ![p] = "peersopen"] /\ UNCHANGED ledger
           \/ /\ ~changes /\ pc' = [pc EXCEPT ![p] = "exited"]
              /\ ledger' = [ledger EXCEPT ![d] = Asks(d, p)] /\ UNCHANGED list
    BY <1>3 DEF PeersRead, Exit, Goto
  <2>2. \A q \in Id \ {p} : pc'[q] = pc[q] /\ list'[q] = list[q]
    BY <2>1 DEF TypeOK, PeersInv, ListsTyped
  <2>3. pc'[p] = IF changes THEN "peersopen" ELSE "exited"
    BY <2>1 DEF TypeOK
  <2>4. ASSUME d \in Dirs
        PROVE  /\ now \in Seq(STRING) /\ IsInjective(now) /\ ToSet(now) = ToSet(peers[d])
               /\ changes => /\ new \in Seq(STRING) /\ IsInjective(new)
                             /\ ToSet(new) = IF op = "add" THEN ToSet(now) \cup {a} ELSE ToSet(now) \ {a}
    <3>1. now \in Seq(STRING) /\ IsInjective(now) /\ ToSet(now) = ToSet(peers[d])
      BY <2>4, DistinctReads DEF PeersInv, ListsTyped
    <3> HIDE DEF now
    <3>2. CASE op = "add"
      <4>1. a \in STRING /\ (changes => a \notin ToSet(now)) /\ new = Append(now, a)
        BY <1>3, <3>2, PeersAssumption
      <4> HIDE DEF a, new
      <4> QED BY <3>1, <3>2, <4>1, Added
    <3>3. CASE op # "add"
      <4>1. new = Without(now, a)
        BY <3>3
      <4> HIDE DEF new
      <4> QED BY <3>1, <3>3, <4>1, Removed
    <3> QED BY <3>1, <3>2, <3>3
  <2> HIDE DEF now, new
  <2>5. ASSUME NEW e \in Dirs \ torn' PROVE Sound(e)'
    <3>1. Sound(e)
      BY <2>1, <2>5 DEF PeersInv
    <3>2. CASE e # d
      <4>1. ledger'[e] = ledger[e]
        BY <2>1, <3>2 DEF PeersInv, ListsTyped
      <4> QED BY <1>1, <2>2, <3>1, <3>2, <4>1, SoundKept
    <3>3. CASE e = d
      <4>1. EditedBy(e) = {}
        BY <2>1, <2>5, <3>3
      <4>2. IsInjective(peers[e]) /\ ToSet(peers[e]) = ledger[e] /\ ToSet(now) = ledger[e]
        BY <2>4, <3>1, <3>3, <4>1 DEF Sound, FileKept, Truncated
      <4>3. Asks(e, p) = IF op = "add" THEN ToSet(now) \cup {a} ELSE ToSet(now) \ {a}
        BY <4>2 DEF Asks
      <4>4. ~changes => Asks(e, p) = ledger[e]
        BY <4>2, <4>3
      <4>5. ledger'[e] = ledger[e]
        BY <2>1, <3>3, <4>4 DEF PeersInv, ListsTyped
      <4>6. \A q \in EditedBy(e)' : q = p /\ changes
        BY <1>1, <2>2, <2>3, <4>1, EditorsAfter DEF EditedBy, Edits, EditLabels
      <4>7. ~Truncated(e)'
        BY <2>3, <4>6 DEF Truncated
      <4>8. Lone(e)' /\ FileKept(e)'
        BY <1>1, <4>2, <4>5, <4>6, <4>7 DEF Lone, FileKept
      <4>9. ASSUME changes PROVE ListSound(e, p)'
        <5>1. list'[p] = new
          BY <2>1, <4>9 DEF PeersInv, ListsTyped
        <5>2. Asks(e, p)' = Asks(e, p)
          BY <1>1, <4>5, EditorsAfter
        <5> QED BY <2>4, <3>3, <4>3, <4>9, <5>1, <5>2 DEF ListSound
      <4> HIDE DEF changes
      <4> QED BY <4>6, <4>8, <4>9 DEF Sound
    <3> QED BY <3>2, <3>3
  <2>6. OnlyEditors'
    BY <1>1, <2>2, EditorsAfter DEF PeersInv, OnlyEditors
  <2>7. ListsTyped'
    <3>1. DOMAIN ledger' = Dirs /\ DOMAIN list' = Id /\ peers' \in [Dirs -> Seq(STRING)]
      BY <1>1, <2>1 DEF PeersInv, ListsTyped
    <3>2. ASSUME NEW q \in Id, Edits(q)', Dir(q) \in Dirs PROVE list'[q] \in Seq(STRING)
      <4>1. CASE q # p
        BY <1>1, <2>2, <3>2, <4>1, EditorsAfter DEF PeersInv, ListsTyped, Edits, EditLabels
      <4>2. CASE q = p
        <5>1. changes /\ list'[p] = new
          BY <1>1, <2>1, <2>3, <3>2, <4>2, EditorsAfter DEF PeersInv, ListsTyped, EditLabels
        <5> QED BY <2>4, <3>2, <4>2, <5>1
      <4> QED BY <4>1, <4>2
    <3> QED BY <1>1, <3>1, <3>2, EditorsAfter DEF ListsTyped
  <2> QED BY <2>5, <2>6, <2>7 DEF PeersInv
<1> QED BY <1>2, <1>3
\* Where an edit is, the others of a sound directory are not.
LEMMA EditorAlone ==
    ASSUME PeersInv, NEW p \in Id, pc[p] \in EditLabels
    PROVE  /\ Is(p, "peers") /\ p \in EditedBy(Dir(p))
           /\ \A e \in Dirs \ torn : Dir(p) = e =>
                 ListSound(e, p) /\ \A q \in EditedBy(e) : q = p
<1>1. Is(p, "peers") /\ p \in EditedBy(Dir(p))
  BY DEF PeersInv, OnlyEditors, EditedBy, Edits, EditLabels
<1> QED BY <1>1 DEF PeersInv, Sound, Lone

\* The truncation of the file.
LEMMA PeersOpenStep == ASSUME TypeOK, PeersInv, NEW p \in Id, PeersOpen(p) PROVE PeersInv'
<1>1. /\ pc[p] = "peersopen" /\ UNCHANGED <<cmd, list, ledger, torn>>
      /\ pc' = [pc EXCEPT ![p] = "peerswrite"] /\ peers' = [peers EXCEPT ![Dir(p)] = <<>>]
  BY DEF PeersOpen, Goto
<1>2. \A q \in Id : pc'[q] = IF q = p THEN "peerswrite" ELSE pc[q]
  BY <1>1 DEF TypeOK
<1>3. Is(p, "peers") /\ pc[p] \in EditLabels
  BY <1>1, EditorAlone DEF EditLabels
<1>4. ASSUME NEW e \in Dirs \ torn PROVE Sound(e)'
  <2>1. Sound(e)
    BY DEF PeersInv
  <2>2. CASE e # Dir(p)
    <3>1. peers'[e] = peers[e]
      BY <1>1, <2>2 DEF PeersInv, ListsTyped
    <3> QED BY <1>1, <1>2, <2>1, <2>2, <3>1, SoundKept
  <2>3. CASE e = Dir(p)
    <3>1. ListSound(e, p) /\ \A q \in EditedBy(e) : q = p
      BY <1>3, <2>3, EditorAlone
    <3>2. \A q : q \in EditedBy(e)' <=> q = p
      BY <1>1, <1>2, <1>3, <2>3, <3>1, EditorsAfter DEF EditedBy, Edits, EditLabels
    <3>3. peers'[e] = <<>>
      BY <1>1, <2>3 DEF PeersInv, ListsTyped
    <3>4. Lone(e)' /\ FileKept(e)'
      BY <1>2, <3>2, <3>3 DEF Lone, FileKept, Truncated
    <3>5. ListSound(e, p)'
      BY <1>1, <3>1, EditorsAfter DEF ListSound
    <3> QED BY <3>2, <3>4, <3>5 DEF Sound
  <2> QED BY <2>2, <2>3
<1>5. OnlyEditors'
  BY <1>1, <1>2, <1>3, EditorsAfter DEF PeersInv, OnlyEditors
<1>6. ListsTyped'
  <2>1. \A q \in Id : Edits(q)' => Edits(q)
    BY <1>1, <1>2, <1>3, EditorsAfter DEF Edits, EditLabels
  <2>2. <<>> \in Seq(STRING)
    BY EmptySeq
  <2>3. peers' \in [Dirs -> Seq(STRING)]
    BY <1>1, <2>2 DEF PeersInv, ListsTyped
  <2> QED BY <1>1, <2>1, <2>3, EditorsAfter DEF PeersInv, ListsTyped
<1> QED BY <1>1, <1>4, <1>5, <1>6 DEF PeersInv

\* The write of the list, with which the edit is through.
LEMMA PeersWriteStep == ASSUME TypeOK, PeersInv, NEW p \in Id, PeersWrite(p) PROVE PeersInv'
<1>1. /\ pc[p] = "peerswrite" /\ UNCHANGED <<cmd, list, torn>>
      /\ pc' = [pc EXCEPT ![p] = "exited"]
      /\ peers' = [peers EXCEPT ![Dir(p)] = Overwritten(@, list[p])]
      /\ ledger' = [ledger EXCEPT ![Dir(p)] = Asks(Dir(p), p)]
  BY DEF PeersWrite, Goto, Exit
<1>2. \A q \in Id : pc'[q] = IF q = p THEN "exited" ELSE pc[q]
  BY <1>1 DEF TypeOK
<1>3. Is(p, "peers") /\ pc[p] \in EditLabels /\ Edits(p)
  BY <1>1, EditorAlone DEF EditLabels, Edits
<1>4. Dir(p) \in Dirs => /\ peers[Dir(p)] \in Seq(STRING) /\ list[p] \in Seq(STRING)
                         /\ peers'[Dir(p)] = Overwritten(peers[Dir(p)], list[p])
  BY <1>1, <1>3 DEF PeersInv, ListsTyped
<1>5. ASSUME NEW e \in Dirs \ torn PROVE Sound(e)'
  <2>1. Sound(e)
    BY DEF PeersInv
  <2>2. CASE e # Dir(p)
    <3>1. peers'[e] = peers[e] /\ ledger'[e] = ledger[e]
      BY <1>1, <2>2 DEF PeersInv, ListsTyped
    <3> QED BY <1>1, <1>2, <2>1, <2>2, <3>1, SoundKept
  <2>3. CASE e = Dir(p)
    <3>1. ListSound(e, p) /\ p \in EditedBy(e) /\ \A q \in EditedBy(e) : q = p
      BY <1>3, <2>3, EditorAlone
    <3>2. EditedBy(e)' = {}
      BY <1>1, <1>2, <3>1, EditorsAfter DEF EditedBy, Edits, EditLabels
    <3>3. peers[e] = <<>>
      BY <1>1, <2>1, <3>1 DEF Sound, FileKept, Truncated
    <3>4. peers'[e] = list[p]
      BY <1>4, <2>3, <3>3, OverwrittenIs
    <3>5. ledger'[e] = Asks(e, p)
      BY <1>1, <2>3 DEF PeersInv, ListsTyped
    <3>6. Lone(e)' /\ FileKept(e)'
      BY <3>1, <3>2, <3>4, <3>5 DEF Lone, FileKept, Truncated, ListSound
    <3> QED BY <3>2, <3>6 DEF Sound
  <2> QED BY <2>2, <2>3
<1>6. OnlyEditors'
  BY <1>1, <1>2, EditorsAfter DEF PeersInv, OnlyEditors, EditLabels
<1>7. ListsTyped'
  <2>1. \A q \in Id : Edits(q)' => Edits(q)
    BY <1>1, <1>2, EditorsAfter DEF Edits, EditLabels
  <2>2. Dir(p) \in Dirs => Overwritten(peers[Dir(p)], list[p]) \in Seq(STRING)
    BY <1>4, OverwrittenIs
  <2>3. peers' \in [Dirs -> Seq(STRING)]
    BY <1>1, <2>2 DEF PeersInv, ListsTyped
  <2>4. DOMAIN ledger' = Dirs
    BY <1>1 DEF PeersInv, ListsTyped
  <2> QED BY <1>1, <2>1, <2>3, <2>4, EditorsAfter DEF PeersInv, ListsTyped
<1> QED BY <1>1, <1>5, <1>6, <1>7 DEF PeersInv

\* An edit that dies between the truncation and the write is broken off; any
\* other process that dies leaves the list as it is.
LEMMA PeersDiesStep == ASSUME TypeOK, PeersInv, NEW p \in Id, NEW signal, Dies(p, signal) PROVE PeersInv'
<1>1. pc' = [pc EXCEPT ![p] = "killed"] /\ UNCHANGED <<cmd, peers, list, ledger>>
  BY DEF Dies, Goto
<1>2. \A q \in Id : pc'[q] = IF q = p THEN "killed" ELSE pc[q]
  BY <1>1 DEF TypeOK
<1>3. CASE pc[p] # "peerswrite"
  <2>1. UNCHANGED torn
    BY <1>3 DEF Dies
  <2>2. \A q \in Id : Calm(q)
    BY <1>2, <1>3 DEF Calm, EditLabels
  <2> QED BY <1>1, <2>1, <2>2, PeersCalm
<1>4. CASE pc[p] = "peerswrite"
  <2>1. Is(p, "peers") /\ torn' = torn \cup {Dir(p)}
    BY <1>4, EditorAlone DEF Dies, EditLabels
  <2>2. \A e \in Dirs \ torn' : Sound(e)'
    BY <1>1, <1>2, <2>1, SoundKept DEF PeersInv
  <2>3. OnlyEditors'
    BY <1>1, <1>2, EditorsAfter DEF PeersInv, OnlyEditors, EditLabels
  <2>4. \A q \in Id : Edits(q)' => Edits(q)
    BY <1>1, <1>2, EditorsAfter DEF Edits, EditLabels
  <2>5. ListsTyped'
    BY <1>1, <2>4, EditorsAfter DEF PeersInv, ListsTyped
  <2> QED BY <2>2, <2>3, <2>5 DEF PeersInv
<1> QED BY <1>3, <1>4

\* Every step keeps the invariant.
LEMMA PeersStep == TypeOK /\ PeersInv /\ [Next]_vars => PeersInv'
<1> SUFFICES ASSUME TypeOK, PeersInv, [Next]_vars PROVE PeersInv'
  OBVIOUS
<1>1. CASE UNCHANGED <<cmd, pc, peers, list, ledger, torn>>
  BY <1>1, PeersCalm DEF Calm
<1>2. ASSUME NEW p \in Id, Terminate(p) \/ Kill(p) PROVE PeersInv'
  <2>1. (\E signal : Dies(p, signal)) \/ UNCHANGED <<cmd, pc, peers, list, ledger, torn>>
    BY <1>2 DEF Terminate, Kill, fileVars
  <2> QED BY <1>1, <2>1, PeersDiesStep
<1>3. ASSUME NEW p \in Id, OldServer(p) \/ \E c \in Id : Handle(p, c) PROVE PeersInv'
  BY <1>1, <1>3 DEF OldServer, Handle, fileVars
<1>4. CASE UNCHANGED vars
  BY <1>1, <1>4 DEF vars, fileVars
<1>5. ASSUME NEW p \in Id, UNCHANGED <<cmd, peers, list, ledger, torn>>, pc[p] # "peerswrite",
             NEW l \in Labels \ EditLabels, UNCHANGED pc \/ Goto(p, l)
      PROVE  PeersInv'
  BY <1>1, <1>5, PeersCalmStep DEF Goto
<1>6. ASSUME NEW p \in Id, ServeStep(p) PROVE PeersInv'
  <2>1. UNCHANGED <<cmd, peers, list, ledger, torn>> /\ pc[p] # "peerswrite"
    <3>1. CASE StartServe(p) \/ PidOpen(p) \/ PidWrite(p) \/ PidRename(p) \/ PidFails(p)
      BY <3>1 DEF StartServe, PidOpen, PidWrite, PidRename, PidFails, fileVars
    <3>2. CASE Install(p) \/ Bind(p) \/ Poll(p) \/ Accept(p) \/ Drain(p) \/ Leave(p)
      BY <3>2 DEF Install, Bind, Poll, Accept, Drain, Leave, fileVars
    <3> QED BY <1>6, <3>1, <3>2 DEF ServeStep
  <2>2. \E l \in Labels \ EditLabels : UNCHANGED pc \/ Goto(p, l)
    <3>1. CASE StartServe(p) \/ PidOpen(p) \/ PidWrite(p) \/ PidRename(p) \/ PidFails(p)
      BY <3>1 DEF StartServe, PidOpen, PidWrite, PidRename, PidFails, Exit, Labels, Ended, EditLabels
    <3>2. CASE Install(p) \/ Bind(p) \/ Poll(p) \/ Accept(p) \/ Drain(p) \/ Leave(p)
      BY <3>2 DEF Install, Bind, Poll, Accept, Drain, Leave, Labels, Ended, EditLabels
    <3> QED BY <1>6, <3>1, <3>2 DEF ServeStep
  <2> QED BY <1>5, <2>1, <2>2
<1>7. ASSUME NEW p \in Id, ClientStep(p) PROVE PeersInv'
  <2>1. CASE Usage(p) \/ StartClient(p) \/ PassStarts(p) \/ Connect(p) \/ Call(p) \/ ClientEnds(p)
    <3>1. UNCHANGED <<cmd, peers, list, ledger, torn>> /\ pc[p] # "peerswrite"
      BY <2>1 DEF Usage, StartClient, PassStarts, Connect, Call, ClientEnds, fileVars
    <3>2. \E l \in Labels \ EditLabels : UNCHANGED pc \/ Goto(p, l)
      BY <2>1 DEF Usage, StartClient, PassStarts, Connect, Call, ClientEnds, Exit, Labels, Ended, EditLabels
    <3> QED BY <1>5, <3>1, <3>2
  <2>2. CASE Receive(p) \/ Lost(p) \/ CallsMade(p)
    <3>1. UNCHANGED <<cmd, peers, list, ledger, torn>> /\ pc[p] # "peerswrite"
      <4>1. CASE Receive(p)
        BY <4>1 DEF Receive, Hangup
      <4>2. CASE Lost(p) \/ CallsMade(p)
        BY <4>2 DEF Lost, CallsMade, Hangup, fileVars
      <4> QED BY <2>2, <4>1, <4>2
    <3>2. \E l \in Labels \ EditLabels : UNCHANGED pc \/ Goto(p, l)
      <4>1. CASE Receive(p)
        BY <4>1 DEF Receive, Hangup, Labels, EditLabels
      <4>2. CASE Lost(p) \/ CallsMade(p)
        BY <4>2 DEF Lost, CallsMade, Hangup, Labels, EditLabels
      <4> QED BY <2>2, <4>1, <4>2
    <3> QED BY <1>5, <3>1, <3>2
  <2>3. CASE PeersRead(p) \/ PeersOpen(p) \/ PeersWrite(p)
    BY <2>3, PeersReadStep, PeersOpenStep, PeersWriteStep
  <2> QED BY <1>7, <2>1, <2>2, <2>3 DEF ClientStep
<1> QED BY <1>2, <1>3, <1>4, <1>6, <1>7 DEF Next, Over

\* Edits of peers.txt take effect, whatever their number, order and addresses:
\* where none overlapped another and none broke off after its truncation, the
\* file lists what the edits asked for, each address once (919-999).
THEOREM EditsCorrect == Spec => []EditsStick
<1>1. PeersInv => EditsStick
  <2> SUFFICES ASSUME PeersInv, NEW d \in Dirs \ torn, \A p \in EditedBy(d) : pc[p] # "peerswrite"
               PROVE  ToSet(peers[d]) = ledger[d] /\ Len(peers[d]) = Cardinality(ledger[d])
    BY DEF EditsStick
  <2>1. IsInjective(peers[d]) /\ ToSet(peers[d]) = ledger[d] /\ peers[d] \in Seq(STRING)
    BY DEF PeersInv, ListsTyped, Sound, FileKept, Truncated
  <2> QED BY <2>1, LengthIs
<1> QED BY <1>1, PeersInit, PeersStep, TypeCorrect, PTL DEF Spec
-----------------------------------------------------------------------------
(* The passes of a sync loop.  While no address of its list has failed, an *)
(* address it should do is done or still before it.                        *)

PassLabels == {"connect", "call", "wait"}
Reached(p) == want[p] \subseteq synced[p] \cup ToSet(targets[p])
PassSound(p) ==
    /\ pc[p] \in PassLabels \cup Ended \cup {"start"}
    /\ targets[p] \in Seq(STRING)
    /\ pc[p] \in {"call", "wait"} => targets[p] # <<>>
    /\ pc[p] \in PassLabels /\ ~failed[p] => Reached(p)
    /\ pc[p] = "exited" /\ code[p] = 0 => want[p] \subseteq synced[p]
PassTyped == DOMAIN targets = Id /\ DOMAIN failed = Id /\ DOMAIN want = Id /\ DOMAIN synced = Id
PassInv ==
    /\ PassTyped
    /\ \A p \in Id : Is(p, "sync-loop") => Dir(p) \in Dirs /\ PassSound(p)

LEMMA PassInit == Init => PassInv
<1> SUFFICES ASSUME Init PROVE PassInv
  OBVIOUS
<1>1. PICK argv \in CommandLines : cmd = [p \in Id |-> Command(argv[p])]
  BY DEF Init
<1>2. PassTyped /\ \A p \in Id : pc[p] = "start" /\ targets[p] = <<>>
  BY DEF Init, PassTyped
<1>3. <<>> \in Seq(STRING)
  BY EmptySeq
<1>4. ASSUME NEW p \in Id, Is(p, "sync-loop") PROVE Dir(p) \in Dirs
  BY <1>1, <1>4, LinesAssumption DEF Is, Dir, Opt
<1> QED BY <1>2, <1>3, <1>4 DEF PassInv, PassSound, PassLabels, Ended

\* What the invariant sees of a process, and that a step leaves it alone.
PassSame(q) ==
    /\ pc'[q] = pc[q] /\ code'[q] = code[q]
    /\ targets'[q] = targets[q] /\ failed'[q] = failed[q]
    /\ want'[q] = want[q] /\ synced'[q] = synced[q]

\* A step of p is judged by what it does to p.
LEMMA PassOwn ==
    ASSUME PassInv, NEW p \in Id, UNCHANGED cmd, PassTyped', \A q \in Id \ {p} : PassSame(q),
           Is(p, "sync-loop") => PassSound(p)'
    PROVE  PassInv'
<1>1. \A q : (Is(q, "sync-loop")' <=> Is(q, "sync-loop")) /\ Dir(q)' = Dir(q)
  BY DEF Is, Dir, Opt
<1>2. ASSUME NEW q \in Id \ {p}, PassSound(q) PROVE PassSound(q)'
  BY <1>2 DEF PassSame, PassSound, Reached
<1> QED BY <1>1, <1>2 DEF PassInv

\* So is a step that touches p's place and exit code only, and one that
\* touches its four variables.
LEMMA PassPlaced ==
    ASSUME TypeOK, PassInv, NEW p \in Id, UNCHANGED <<cmd, targets, failed, want, synced>>,
           UNCHANGED pc \/ (\E l : Goto(p, l)), UNCHANGED code \/ (\E s : code' = [code EXCEPT ![p] = s]),
           Is(p, "sync-loop") => PassSound(p)'
    PROVE  PassInv'
<1>1. \A q \in Id \ {p} : pc'[q] = pc[q] /\ code'[q] = code[q]
  BY DEF TypeOK, Goto
<1>2. PassTyped' /\ \A q \in Id \ {p} : PassSame(q)
  BY <1>1 DEF PassInv, PassTyped, PassSame
<1> QED BY <1>2, PassOwn

\* A sync loop is nothing else.
LEMMA LoopOnly ==
    ASSUME PassInv, NEW p \in Id, Is(p, "sync-loop")
    PROVE  /\ ~Is(p, "serve") /\ ~Is(p, "usage") /\ ~Is(p, "peers")
           /\ cmd[p].do \notin {"fetch", "fabric", "sync", "push", "foreign"}
           /\ Dir(p) \in Dirs /\ PassSound(p)
<1>1. cmd[p].do = "sync-loop"
  BY DEF Is
<1> QED BY <1>1 DEF Is, PassInv

\* A step that a sync loop never takes.
LEMMA PassForeign ==
    ASSUME TypeOK, PassInv, NEW p \in Id, UNCHANGED <<cmd, failed, want, synced>>,
           UNCHANGED pc \/ (\E l : Goto(p, l)), UNCHANGED code \/ (\E s : code' = [code EXCEPT ![p] = s]),
           UNCHANGED targets \/ (\E t : targets' = [targets EXCEPT ![p] = t]), ~Is(p, "sync-loop")
    PROVE  PassInv'
<1>1. \A q \in Id \ {p} : pc'[q] = pc[q] /\ code'[q] = code[q]
  BY DEF TypeOK, Goto
<1>2. PassTyped' /\ \A q \in Id \ {p} : targets'[q] = targets[q]
  BY DEF PassInv, PassTyped
<1>3. \A q \in Id \ {p} : PassSame(q)
  BY <1>1, <1>2 DEF PassSame
<1> QED BY <1>2, <1>3, PassOwn

\* The list is read: what should be done is in it.
LEMMA PassStartsStep ==
    ASSUME TypeOK, PeersInv, PassInv, NEW p \in Id, PassStarts(p)
    PROVE  PassInv'
<1> DEFINE d == Dir(p)
           w == IF d \in torn \/ EditedBy(d) # {} THEN {} ELSE ledger[d]
<1>1. /\ Is(p, "sync-loop") /\ UNCHANGED <<cmd, code>> /\ pc' = [pc EXCEPT ![p] = "connect"]
      /\ targets' = [targets EXCEPT ![p] = Distinct(peers[d])]
      /\ want' = [want EXCEPT ![p] = w] /\ synced' = [synced EXCEPT ![p] = {}]
      /\ failed' = [failed EXCEPT ![p] = FALSE]
  BY DEF PassStarts, Goto
<1>2. d \in Dirs
  BY <1>1, LoopOnly
<1>3. Distinct(peers[d]) \in Seq(STRING) /\ ToSet(Distinct(peers[d])) = ToSet(peers[d])
  BY <1>2, DistinctReads DEF PeersInv, ListsTyped
<1>4. w \subseteq ToSet(peers[d])
  BY <1>2 DEF PeersInv, Sound, FileKept, Truncated
<1> HIDE DEF w, d
<1>5. PassTyped'
  BY <1>1 DEF PassInv, PassTyped
<1>6. \A q \in Id \ {p} : PassSame(q)
  BY <1>1 DEF PassInv, PassTyped, PassSame, TypeOK
<1>7. /\ pc'[p] = "connect" /\ targets'[p] = Distinct(peers[d]) /\ want'[p] = w
  BY <1>1 DEF PassInv, PassTyped, TypeOK
<1>8. PassSound(p)'
  BY <1>3, <1>4, <1>7 DEF PassSound, Reached, PassLabels
<1> QED BY <1>1, <1>5, <1>6, <1>8, PassOwn

\* An address that does not answer has failed.
LEMMA PassConnect == ASSUME TypeOK, PassInv, NEW p \in Id, Connect(p) PROVE PassInv'
<1>1. pc[p] = "connect" /\ targets[p] # <<>> /\ UNCHANGED <<cmd, code, want, synced>>
  BY DEF Connect
<1>2. CASE UNCHANGED <<targets, failed>> /\ Goto(p, "call")
  <2>1. pc'[p] = "call"
    BY <1>2 DEF Goto, TypeOK
  <2>2. Is(p, "sync-loop") => PassSound(p)'
    BY <1>1, <1>2, <2>1, LoopOnly DEF PassSound, Reached, PassLabels
  <2> QED BY <1>1, <1>2, <2>2, PassPlaced
<1>3. CASE /\ targets' = [targets EXCEPT ![p] = Tail(@)] /\ failed' = [failed EXCEPT ![p] = TRUE]
           /\ UNCHANGED pc
  <2>1. /\ PassTyped' /\ \A q \in Id \ {p} : PassSame(q)
        /\ targets'[p] = Tail(targets[p]) /\ failed'[p]
    BY <1>1, <1>3 DEF PassInv, PassTyped, PassSame
  <2>2. Is(p, "sync-loop") => PassSound(p)'
    BY <1>1, <1>3, <2>1, LoopOnly, TailLeaves DEF PassSound, PassLabels
  <2> QED BY <1>1, <2>1, <2>2, PassOwn
<1> QED BY <1>2, <1>3 DEF Connect
\* Where a call is lost or refused, the address has failed.
LEMMA PassFails ==
    ASSUME TypeOK, PassInv, NEW p \in Id, pc[p] \in {"call", "wait"}, Hangup(p),
           failed' = [failed EXCEPT ![p] = TRUE], UNCHANGED synced
    PROVE  PassInv'
<1>1. /\ pc' = [pc EXCEPT ![p] = "connect"] /\ targets' = [targets EXCEPT ![p] = Tail(@)]
      /\ UNCHANGED <<cmd, code, want>>
  BY DEF Hangup, Goto
<1>2. /\ PassTyped' /\ \A q \in Id \ {p} : PassSame(q)
      /\ targets'[p] = Tail(targets[p]) /\ failed'[p] /\ pc'[p] = "connect"
  BY <1>1 DEF PassInv, PassTyped, PassSame, TypeOK
<1>3. Is(p, "sync-loop") => PassSound(p)'
  BY <1>1, <1>2, LoopOnly, TailLeaves DEF PassSound, PassLabels
<1> QED BY <1>1, <1>2, <1>3, PassOwn

\* An answer with which the calls go on, or none of the kind.
LEMMA PassReceive == ASSUME TypeOK, PassInv, NEW p \in Id, Receive(p) PROVE PassInv'
<1>1. pc[p] = "wait" /\ UNCHANGED synced
  BY DEF Receive
<1>2. CASE Goto(p, "call") /\ UNCHANGED <<cmd, code, targets, failed, want>>
  <2>1. pc'[p] = "call"
    BY <1>2 DEF Goto, TypeOK
  <2>2. Is(p, "sync-loop") => PassSound(p)'
    BY <1>1, <1>2, <2>1, LoopOnly DEF PassSound, Reached, PassLabels
  <2> QED BY <1>1, <1>2, <2>2, PassPlaced
<1>3. CASE failed' = [failed EXCEPT ![p] = TRUE] /\ Hangup(p)
  BY <1>1, <1>3, PassFails
<1> QED BY <1>2, <1>3 DEF Receive

\* A body that is here needs no call, another one is asked for.
LEMMA PassCall == ASSUME TypeOK, PassInv, NEW p \in Id, Call(p) PROVE PassInv'
<1>1. pc[p] = "call" /\ UNCHANGED <<cmd, code, targets, failed, want, synced>>
  BY DEF Call
<1>2. UNCHANGED pc \/ Goto(p, "wait")
  BY DEF Call
<1>3. pc'[p] \in {"call", "wait"}
  BY <1>1, <1>2 DEF Goto, TypeOK
<1>4. Is(p, "sync-loop") => PassSound(p)'
  BY <1>1, <1>3, LoopOnly DEF PassSound, Reached, PassLabels
<1> QED BY <1>1, <1>2, <1>4, PassPlaced

\* All calls to an address were made: a pull is followed by the push, with
\* which the address is done.
LEMMA PassCallsMade == ASSUME TypeOK, PassInv, NEW p \in Id, CallsMade(p) PROVE PassInv'
<1>1. pc[p] = "call" /\ UNCHANGED failed
  BY DEF CallsMade
<1>2. CASE UNCHANGED <<cmd, pc, code, targets, want, synced>>
  <2>1. Is(p, "sync-loop") => PassSound(p)'
    BY <1>1, <1>2, LoopOnly DEF PassSound, Reached, PassLabels
  <2> QED BY <1>1, <1>2, <2>1, PassPlaced
<1>3. CASE synced' = [synced EXCEPT ![p] = @ \cup {Head(targets[p])}] /\ Hangup(p)
  <2>1. /\ pc' = [pc EXCEPT ![p] = "connect"] /\ targets' = [targets EXCEPT ![p] = Tail(@)]
        /\ UNCHANGED <<cmd, code, want>>
    BY <1>3 DEF Hangup, Goto
  <2>2. /\ PassTyped' /\ \A q \in Id \ {p} : PassSame(q)
        /\ targets'[p] = Tail(targets[p]) /\ pc'[p] = "connect"
        /\ synced'[p] = synced[p] \cup {Head(targets[p])}
    BY <1>1, <1>3, <2>1 DEF PassInv, PassTyped, PassSame, TypeOK
  <2>3. ASSUME Is(p, "sync-loop") PROVE PassSound(p)'
    <3>1. PassSound(p) /\ targets[p] \in Seq(STRING) /\ targets[p] # <<>>
      BY <1>1, <2>3, LoopOnly DEF PassSound
    <3>2. Tail(targets[p]) \in Seq(STRING) /\ ToSet(targets[p]) \subseteq {Head(targets[p])} \cup ToSet(Tail(targets[p]))
      BY <3>1, TailLeaves
    <3>3. ~failed[p] => Reached(p)'
      BY <1>1, <2>1, <2>2, <3>1, <3>2 DEF PassSound, PassLabels, Reached
    <3> QED BY <1>1, <2>2, <3>2, <3>3 DEF PassSound, PassLabels
  <2> QED BY <2>1, <2>2, <2>3, PassOwn
<1> QED BY <1>2, <1>3 DEF CallsMade, netVars, callVars

\* No address is left.
LEMMA PassEnds == ASSUME TypeOK, PassInv, NEW p \in Id, ClientEnds(p) PROVE PassInv'
<1>1. pc[p] = "connect" /\ targets[p] = <<>> /\ UNCHANGED <<cmd, targets, failed, want, synced>>
  BY DEF ClientEnds, callVars
<1>2. ToSet(targets[p]) = {}
  BY <1>1 DEF ToSet
<1>3. CASE Goto(p, "start") /\ UNCHANGED code
  <2>1. pc'[p] = "start"
    BY <1>3 DEF Goto, TypeOK
  <2>2. Is(p, "sync-loop") => PassSound(p)'
    BY <1>1, <2>1, LoopOnly DEF PassSound, PassLabels
  <2> QED BY <1>1, <1>3, <2>2, PassPlaced
<1>4. CASE Exit(p, IF failed[p] THEN 1 ELSE 0)
  <2>1. Goto(p, "exited") /\ code' = [code EXCEPT ![p] = IF failed[p] THEN 1 ELSE 0]
    BY <1>4 DEF Exit
  <2>2. pc'[p] = "exited" /\ code'[p] = IF failed[p] THEN 1 ELSE 0
    BY <2>1 DEF Goto, TypeOK
  <2>3. ASSUME Is(p, "sync-loop") PROVE PassSound(p)'
    <3>1. PassSound(p) /\ (~failed[p] => want[p] \subseteq synced[p])
      BY <1>1, <1>2, <2>3, LoopOnly DEF PassSound, Reached, PassLabels
    <3>2. code'[p] = 0 => ~failed[p]
      BY <2>2
    <3>3. code'[p] = 0 => (want[p] \subseteq synced[p])'
      BY <1>1, <3>1, <3>2
    <3>4. targets'[p] \in Seq(STRING)
      BY <1>1, <3>1 DEF PassSound
    <3>5. pc'[p] = "exited"
      BY <2>2
    <3> QED BY <3>3, <3>4, <3>5 DEF PassSound, PassLabels, Ended
  <2> QED BY <1>1, <2>1, <2>3, PassPlaced
<1> QED BY <1>3, <1>4 DEF ClientEnds

\* Every step keeps the invariant.
LEMMA PassStep == TypeOK /\ PeersInv /\ PassInv /\ [Next]_vars => PassInv'
<1> SUFFICES ASSUME TypeOK, PeersInv, PassInv, [Next]_vars PROVE PassInv'
  OBVIOUS
<1>1. ASSUME UNCHANGED <<cmd, pc, code, targets, failed, want, synced>> PROVE PassInv'
  <2>1. \A q : (Is(q, "sync-loop")' <=> Is(q, "sync-loop")) /\ Dir(q)' = Dir(q)
    BY <1>1 DEF Is, Dir, Opt
  <2> QED BY <1>1, <2>1 DEF PassInv, PassTyped, PassSound, Reached
<1>2. ASSUME NEW p \in Id, Terminate(p) \/ Kill(p) PROVE PassInv'
  <2>1. CASE UNCHANGED <<cmd, pc, code, targets, failed, want, synced>>
    BY <1>1, <2>1
  <2>2. ASSUME NEW signal, Dies(p, signal) PROVE PassInv'
    <3>1. /\ Goto(p, "killed") /\ UNCHANGED <<cmd, targets, failed, want, synced>>
          /\ code' = [code EXCEPT ![p] = 128 + signal]
      BY <2>2 DEF Dies, callVars
    <3>2. pc'[p] = "killed"
      BY <3>1 DEF Goto, TypeOK
    <3>3. Is(p, "sync-loop") => PassSound(p)'
      BY <3>1, <3>2, LoopOnly DEF PassSound, PassLabels, Ended
    <3> QED BY <3>1, <3>3, PassPlaced
  <2> QED BY <1>2, <2>1, <2>2 DEF Terminate, Kill, callVars
<1>3. ASSUME NEW p \in Id, OldServer(p) \/ \E c \in Id : Handle(p, c) PROVE PassInv'
  BY <1>1, <1>3 DEF OldServer, Handle, callVars
<1>4. CASE UNCHANGED vars
  BY <1>1, <1>4 DEF vars, callVars
<1>5. ASSUME NEW p \in Id, ServeStep(p) PROVE PassInv'
  <2>1. ~Is(p, "sync-loop")
    <3>1. Is(p, "serve") \/ pc[p] \in PidSteps \cup Late
      <4>1. CASE StartServe(p) \/ PidOpen(p) \/ PidWrite(p) \/ PidRename(p) \/ PidFails(p)
        BY <4>1 DEF StartServe, PidOpen, PidWrite, PidRename, PidFails, PidSteps
      <4>2. CASE Install(p) \/ Bind(p) \/ Poll(p) \/ Accept(p) \/ Drain(p) \/ Leave(p)
        BY <4>2 DEF Install, Bind, Poll, Accept, Drain, Leave, Late
      <4> QED BY <1>5, <4>1, <4>2 DEF ServeStep
    <3> QED BY <3>1, LoopOnly DEF PassSound, PassLabels, Ended, PidSteps, Late
  <2>2. /\ UNCHANGED <<cmd, targets, failed, want, synced>>
        /\ UNCHANGED pc \/ (\E l : Goto(p, l))
        /\ UNCHANGED code \/ (\E s : code' = [code EXCEPT ![p] = s])
    <3>1. CASE StartServe(p) \/ PidOpen(p) \/ PidWrite(p) \/ PidRename(p) \/ PidFails(p)
      BY <3>1 DEF StartServe, PidOpen, PidWrite, PidRename, PidFails, Exit, callVars
    <3>2. CASE Install(p) \/ Bind(p) \/ Poll(p)
      BY <3>2 DEF Install, Bind, Poll, Exit, callVars
    <3>3. CASE Accept(p) \/ Drain(p) \/ Leave(p)
      BY <3>3 DEF Accept, Drain, Leave, callVars
    <3> QED BY <1>5, <3>1, <3>2, <3>3 DEF ServeStep
  <2> QED BY <2>1, <2>2, PassForeign
<1>6. ASSUME NEW p \in Id, ClientStep(p) PROVE PassInv'
  <2>1. CASE Usage(p) \/ StartClient(p) \/ PeersRead(p) \/ PeersOpen(p) \/ PeersWrite(p)
    <3>1. ~Is(p, "sync-loop")
      <4>1. /\ \/ Is(p, "usage") \/ Is(p, "peers") \/ pc[p] \in EditLabels
               \/ cmd[p].do \in {"fetch", "fabric", "sync", "push", "foreign"}
        BY <2>1 DEF Usage, StartClient, PeersRead, PeersOpen, PeersWrite, EditLabels
      <4> QED BY <4>1, LoopOnly DEF PassSound, PassLabels, Ended, EditLabels
    <3>2. /\ UNCHANGED <<cmd, failed, want, synced>>
          /\ UNCHANGED pc \/ (\E l : Goto(p, l))
          /\ UNCHANGED code \/ (\E s : code' = [code EXCEPT ![p] = s])
          /\ UNCHANGED targets \/ (\E t : targets' = [targets EXCEPT ![p] = t])
      <4>1. CASE Usage(p) \/ PeersOpen(p) \/ PeersWrite(p)
        BY <4>1 DEF Usage, PeersOpen, PeersWrite, Exit, callVars
      <4>2. CASE StartClient(p)
        BY <4>2 DEF StartClient, Exit
      <4>3. CASE PeersRead(p)
        BY <4>3 DEF PeersRead, Exit, callVars
      <4> QED BY <2>1, <4>1, <4>2, <4>3
    <3> QED BY <3>1, <3>2, PassForeign
  <2>2. CASE Lost(p)
    BY <2>2, PassFails DEF Lost
  <2> QED BY <1>6, <2>1, <2>2, PassStartsStep, PassConnect, PassReceive, PassCall, PassCallsMade, PassEnds
          DEF ClientStep
<1> QED BY <1>2, <1>3, <1>4, <1>5, <1>6 DEF Next, Over

\* A sync loop that exits with 0 has synced, both ways, every peer that the
\* edits before it asked for, if none was under way while it read the list
\* (1002-1037, 1452-1466), for every number of processes and addresses.
THEOREM OnceCorrect == Spec => []OnceHonest
<1>1. PassInv => OnceHonest
  BY DEF PassInv, PassSound, OnceHonest
<1>2. TypeOK /\ PeersInv /\ PassInv /\ [Next]_vars => PeersInv' /\ PassInv'
  BY PeersStep, PassStep
<1> QED BY <1>1, <1>2, PeersInit, PassInit, TypeCorrect, PTL DEF Spec
=============================================================================
