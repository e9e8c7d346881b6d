----------------------------- MODULE RateWindow -----------------------------
(***************************************************************************)
(* The fixed-window per-IP counter of src/spore_peer.rs (RateLimiter) as   *)
(* operators on its map.  `wins` is the HashMap: a function whose domain   *)
(* is the set of addresses that have been seen.  The serve loop owns one   *)
(* limiter for Peer.PutObject, the relay fabric one for fput and fpop.     *)
(***************************************************************************)
EXTENDS Naturals

Window == [sec : Nat, hits : Nat]

\* No window for ip, or one opened in another second: the hit opens a window.
OpensWindow(wins, ip, now) == ip \notin DOMAIN wins \/ wins[ip].sec # now

\* Fault: one hit too many.
AdmitsOneMore(wins, max, ip, now) ==
    max # 0 /\ ~ OpensWindow(wins, ip, now) => wins[ip].hits <= max
\* The answer of RateLimiter::allow; max = 0 means unlimited.
Admits(wins, max, ip, now) ==
    max # 0 /\ ~ OpensWindow(wins, ip, now) => wins[ip].hits < max

\* The map after RateLimiter::allow answered true.
AfterHit(wins, max, ip, now) ==
    IF max = 0 THEN wins
    ELSE [i \in DOMAIN wins \cup {ip} |->
            IF i # ip THEN wins[i]
            ELSE IF OpensWindow(wins, ip, now) THEN [sec |-> now, hits |-> 1]
            ELSE [wins[ip] EXCEPT !.hits = @ + 1]]
=============================================================================
