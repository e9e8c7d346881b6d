-------------------------------- MODULE Vec ---------------------------------
(***************************************************************************)
(* The operations of Rust's Vec that the relay queue uses, on sequences.   *)
(* They are written without recursion so that their properties can be      *)
(* proved (module VecProofs).                                              *)
(***************************************************************************)
EXTENDS Integers, Sequences, FiniteSets

\* The position i takes among the members of the index set K.
Rank(K, i) == Cardinality({k \in K : k <= i})

\* Vec::retain: the elements of s at the indices K, in their order.
Keep(s, K) == [j \in 1..Cardinality(K) |-> s[CHOOSE i \in K : Rank(K, i) = j]]

\* iter().find: the first index of a non-empty set of indices.
First(K) == CHOOSE i \in K : \A k \in K : i <= k

\* remove(0), n times.
DropFirst(s, n) == SubSeq(s, n + 1, Len(s))
=============================================================================
