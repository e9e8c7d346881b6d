----------------------------- MODULE MCBodyStore -----------------------------
(***************************************************************************)
(* Instances of BodyStore for TLC.                                         *)
(***************************************************************************)
EXTENDS BodyStore, TLC

CONSTANTS small     \* a body of one chunk, where there is one

\* The others have two, so that a file can have a gap or a missing end.
MCSize == [b \in Bodies |-> IF b = small THEN 1 ELSE 2]

HandlerSymmetry == Permutations(Handlers)
=============================================================================
