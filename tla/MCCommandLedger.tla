--------------------------- MODULE MCCommandLedger ---------------------------
(* Three requests with one key, one of them with other content, and a        *)
(* command-line invocation, which has a key of its own.                      *)
EXTENDS CommandLedger, TLC

CONSTANTS a, b, c, cli, KeyRoute

MCRequests == {a, b, c, cli}
MCContents == {"x", "y"}
MCContentOf == [r \in MCRequests |-> IF r = c THEN "y" ELSE "x"]
MCKeys == {"k", "own"}
MCKeyOf == [r \in MCRequests |-> IF r = cli THEN "own" ELSE "k"]
MCRoute == [k \in MCKeys |-> IF k = "own" THEN "admin" ELSE KeyRoute]

\* a and b send the same request.
Duplicates == Permutations({a, b})

\* Two requests with the same content.
TwoRequests == {a, b}
TwoContentOf == [r \in TwoRequests |-> "x"]
TwoKeyOf == [r \in TwoRequests |-> "k"]
TwoRoute == [k \in {"k"} |-> KeyRoute]
=============================================================================
