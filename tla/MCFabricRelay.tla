---------------------------- MODULE MCFabricRelay ---------------------------
(***************************************************************************)
(* Instances of FabricRelay for TLC.                                       *)
(***************************************************************************)
EXTENDS FabricRelay, TLC

CONSTANTS c1

\* Two files an earlier run left at every handle: one whose deadline lies
\* beyond the horizon of the instance, one within it.
Leftover(d) == [handle : Handles, pointer : [cid : {c1}, deadline : {d}], received : {0}]
MCLegacy == Leftover(3) \cup Leftover(4)

HandlerSymmetry == Permutations(Handlers)
QueueSymmetry == UNION {Permutations(S) : S \in {Handlers, Handles, Tokens, Cids}}
=============================================================================
