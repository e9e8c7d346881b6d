----------------------------- MODULE MCSyncLoop -----------------------------
(***************************************************************************)
(* Instances of SyncLoop for TLC.                                          *)
(***************************************************************************)
EXTENDS SyncLoop, TLC

CONSTANTS a, b, dead, liar, full, x, y, z

\* Node a has a dead peer before a full one, b a lying one before a.
MCPeers == (a :> <<dead, full>>) @@ (b :> <<liar, a>>)
PairPeers == (a :> <<b>>)

\* A liar lists nothing, or a body that it may have or not before one it has.
MCClaims == {<<>>, <<x, y>>}

On(f) == [n \in Nodes |-> IF n \in DOMAIN f THEN f[n] ELSE <<>>]
Bad(f) == [n \in Nodes |-> IF n \in DOMAIN f THEN f[n] ELSE {}]

\* All bodies at a, which serves b; all at b, more than a push offers; some at each
\* node, and a corrupt file at a; one body at each of three.
MCHolds == {
    [hold |-> On((a :> <<x, y, z>>) @@ (liar :> <<z, y, x>>)), corrupt |-> Bad(<<>>)],
    [hold |-> On((b :> <<x, y, z>>) @@ (liar :> <<z, y, x>>)), corrupt |-> Bad(<<>>)],
    [hold |-> On((b :> <<x>>) @@ (a :> <<y, z>>) @@ (liar :> <<y>>) @@ (full :> <<z>>)),
     corrupt |-> Bad(a :> {y})],
    [hold |-> On((a :> <<x>>) @@ (b :> <<z>>) @@ (full :> <<y>>)), corrupt |-> Bad(<<>>)]}

\* All bodies at one node.
TailHolds == {[hold |-> On(b :> <<x, y, z>>), corrupt |-> Bad(<<>>)]}
=============================================================================
