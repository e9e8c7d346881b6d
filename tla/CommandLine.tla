----------------------------- MODULE CommandLine -----------------------------
(***************************************************************************)
(* The command lines of main (src/spore_peer.rs): per subcommand, one loop *)
(* over the words.  A word that takes a value takes the next one, whatever *)
(* it is; words without a meaning are skipped.                             *)
(***************************************************************************)
EXTENDS Integers, Sequences, TLC

CONSTANTS Numerals     \* the words that parse as a number, with the number

Absent == "(absent)"   \* None, and an option that was not given

\* The words of each subcommand, by what they do with the word after them:
\*   text, keep, option   take it;   number  takes it if it is a number;
\*   edit   takes it as the peer;    switch, list  do not take it.
Texts(words) == [w \in words |-> "text"]
Numbers(words) == [w \in words |-> "number"]
ServeWords ==
    [w \in {"--listen", "--dir"} |-> "keep"] @@
    [w \in {"--token", "--pidfile", "--announce-addr"} |-> "option"] @@
    [w \in {"-fabric", "--fabric"} |-> "switch"] @@
    Numbers({"--max-store-bytes", "--put-rate", "--fabric-per-handle", "--fabric-fput-rate",
             "--fabric-max-regs", "--fabric-max-lease", "--fabric-horizon"})
FetchWords == Texts({"--addr", "--cid"}) @@ ("--out" :> "option")
FabricWords ==
    Texts({"--addr", "--sub", "--handle", "--token", "--nonce", "--pointer"}) @@
    Numbers({"--lease", "--max"})
SyncWords == Texts({"--addr"}) @@ ("--dir" :> "keep")
PushWords == Texts({"--addr", "--token"}) @@ ("--dir" :> "keep")
PeersWords ==
    ("--dir" :> "keep") @@ [w \in {"add", "remove"} |-> "edit"] @@ ("list" :> "list")
SyncLoopWords == ("--dir" :> "keep") @@ Numbers({"--interval"}) @@ ("--once" :> "switch")
Words ==
    ("serve" :> ServeWords) @@ ("fetch" :> FetchWords) @@ ("fabric" :> FabricWords) @@
    ("sync" :> SyncWords) @@ ("push" :> PushWords) @@ ("peers" :> PeersWords) @@
    ("sync-loop" :> SyncLoopWords)

Names == UNION {DOMAIN Words[sub] : sub \in DOMAIN Words} \cup {"op", "peer"}

\* What the options of each subcommand are before any word is read.  Absent
\* stands for what the policies have, and for no token.
Empty(names) == [w \in names |-> ""]
ServeDefaults == ("--listen" :> "0.0.0.0:8099") @@ ("--dir" :> ".")
FetchDefaults == Empty({"--addr", "--cid"})
FabricDefaults ==
    Empty({"--addr", "--sub", "--handle", "--token", "--nonce", "--pointer"}) @@
    ("--lease" :> "3600") @@ ("--max" :> "8")
SyncDefaults == Empty({"--addr"}) @@ ("--dir" :> ".")
PushDefaults == Empty({"--addr", "--token"}) @@ ("--dir" :> ".")
PeersDefaults == Empty({"op", "peer"}) @@ ("--dir" :> ".")
SyncLoopDefaults == ("--dir" :> ".") @@ ("--interval" :> "30")
Given ==
    ("serve" :> ServeDefaults) @@ ("fetch" :> FetchDefaults) @@ ("fabric" :> FabricDefaults) @@
    ("sync" :> SyncDefaults) @@ ("push" :> PushDefaults) @@ ("peers" :> PeersDefaults) @@
    ("sync-loop" :> SyncLoopDefaults)
Defaults ==
    [sub \in DOMAIN Words |->
        [name \in Names |-> IF name \in DOMAIN Given[sub] THEN Given[sub][name] ELSE Absent]]

\* What a word sets, given the word after it: Absent where the line ends.
Sets(kind, word, next) ==
    LET value == IF next = Absent THEN "" ELSE next IN
    CASE kind = "switch" -> {<<word, "on">>}
      [] kind = "list" -> {<<"op", word>>}
      [] kind = "edit" -> {<<"op", word>>, <<"peer", value>>}
      [] kind = "text" -> {<<word, value>>}
      [] kind = "option" -> {<<word, next>>}
      [] kind = "keep" -> IF next = Absent THEN {} ELSE {<<word, next>>}
      [] kind = "number" -> IF next \in DOMAIN Numerals THEN {<<word, next>>} ELSE {}

\* The words that a word before them has taken.
Taken(words, argv) ==
    LET Takes(w) == w \in DOMAIN words /\ words[w] \notin {"switch", "list"}
        taken[i \in DOMAIN argv] == i > 2 /\ Takes(argv[i - 1]) /\ ~taken[i - 1]
    IN {i \in DOMAIN argv : taken[i]}

\* The options after the whole line: what was set last.
Options(sub, argv) ==
    LET words == Words[sub]
        reads == {i \in 2..Len(argv) : argv[i] \in DOMAIN words} \ Taken(words, argv)
        next(i) == IF i < Len(argv) THEN argv[i + 1] ELSE Absent
        given(i) == Sets(words[argv[i]], argv[i], next(i))
    IN [name \in Names |->
         LET at == {i \in reads : \E s \in given(i) : s[1] = name}
             last == CHOOSE i \in at : \A j \in at : j <= i
         IN IF at = {} THEN Defaults[sub][name] ELSE (CHOOSE s \in given(last) : s[1] = name)[2]]

\* What a subcommand must be told.
Needs ==
    [sub \in DOMAIN Words |->
        CASE sub = "fetch" -> {"--addr", "--cid"}
          [] sub = "fabric" -> {"--addr", "--sub", "--handle"}
          [] sub \in {"sync", "push"} -> {"--addr"}
          [] OTHER -> {}]

\* A command line without the program's name: what is done, with what options.
\* "usage" ends the program with code 2.
Parse(argv) ==
    IF argv = <<>> \/ argv[1] \notin DOMAIN Words THEN [do |-> "usage", opt |-> Defaults["fetch"]]
    ELSE LET opt == Options(argv[1], argv)
             stated == /\ \A name \in Needs[argv[1]] : opt[name] # ""
                       /\ argv[1] = "peers" => \/ opt["op"] = "list"
                                               \/ opt["op"] \in {"add", "remove"} /\ opt["peer"] # ""
         IN [do |-> IF stated THEN argv[1] ELSE "usage", opt |-> opt]
=============================================================================
