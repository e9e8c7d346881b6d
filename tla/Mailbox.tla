------------------------------- MODULE Mailbox ------------------------------
(***************************************************************************)
(* What the relay promises about copies: a put leaves at most one copy of  *)
(* its pointer at the handle, and every pointer handed to a recipient uses *)
(* up one.  The mailbox may lose copies (eviction, deadlines, crashes,     *)
(* lost answers: it composts, it does not hoard) but never makes one that  *)
(* nobody put.                                                             *)
(***************************************************************************)
EXTENDS Naturals, Sequences, FiniteSets

CONSTANTS Clients, Boxes, Items

VARIABLES
    asked,      \* the put of a client that has not left its copy yet, or <<>>
    pending,    \* how many copies of each item a box holds
    out         \* the answer a client is being given

mail == <<asked, pending, out>>

Copies(s, x) == Cardinality({i \in DOMAIN s : s[i] = x})

Init ==
    /\ asked = [c \in Clients |-> <<>>]
    /\ pending \in [Boxes -> [Items -> Nat]]
    /\ out = [c \in Clients |-> <<>>]

Put(c, b, x) ==
    /\ asked[c] = <<>>
    /\ asked' = [asked EXCEPT ![c] = <<b, x>>]
    /\ UNCHANGED <<pending, out>>

\* A put leaves its copy, once.
Deposit(c, b, x) ==
    /\ asked[c] = <<b, x>>
    /\ asked' = [asked EXCEPT ![c] = <<>>]
    /\ pending' = [pending EXCEPT ![b][x] = @ + 1]
    /\ UNCHANGED out

\* Copies are lost, a put is refused or lost, an answer is lost or handed over.
Lose ==
    /\ \A b \in Boxes, x \in Items : pending'[b][x] <= pending[b][x]
    /\ \A c \in Clients : asked'[c] \in {asked[c], <<>>} /\ out'[c] \in {out[c], <<>>}

\* An answer takes its copies out of the box.
Deliver(c, b) ==
    /\ out[c] = <<>>
    /\ out' = [out EXCEPT ![c] = out'[c]]
    /\ \A x \in Items : pending'[b][x] + Copies(out'[c], x) <= pending[b][x]
    /\ \A k \in Boxes \ {b} : pending'[k] = pending[k]
    /\ UNCHANGED asked

Next ==
    \/ Lose
    \/ \E c \in Clients, b \in Boxes :
          \/ Deliver(c, b)
          \/ \E x \in Items : Put(c, b, x) \/ Deposit(c, b, x)

Spec == Init /\ [][Next]_mail
=============================================================================
