------------------------------- MODULE Gossip -------------------------------
(***************************************************************************)
(* What synchronisation may do to a set of holds: carry an intact body     *)
(* from a hold that has it to one that has nothing of that name.  No hold  *)
(* forgets a body, and a corrupt one is neither spread nor taken for       *)
(* healed.                                                                 *)
(***************************************************************************)
CONSTANTS Nodes, Bodies

VARIABLES
    held,       \* the bodies each hold has a file for
    whole       \* those whose file hashes to its name

Init ==
    /\ held \in [Nodes -> SUBSET Bodies]
    /\ whole \in [Nodes -> SUBSET Bodies]
    /\ \A n \in Nodes : whole[n] \subseteq held[n]

Carry(m, n, b) ==
    /\ b \in whole[m] \ held[n]
    /\ held' = [held EXCEPT ![n] = @ \cup {b}]
    /\ whole' = [whole EXCEPT ![n] = @ \cup {b}]

Next == \E m, n \in Nodes, b \in Bodies : Carry(m, n, b)

Spec == Init /\ [][Next]_<<held, whole>>
=============================================================================
