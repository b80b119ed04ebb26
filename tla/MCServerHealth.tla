--------------------------- MODULE MCServerHealth ---------------------------
EXTENDS ServerHealth

\* "a" is checked, "b" tracks it, and "c" and "d" track "b".  "b" and "c" are
\* the backup servers of their backend, which comes first in the file: "d" is
\* resolved before the server it tracks, and "b" is.
ChainList == [p \in {"front", "back"} |-> IF p = "front" THEN <<"a">> ELSE <<"d", "b", "c">>]
ChainTrack == ("a" :> None) @@ ("b" :> "a") @@ ("c" :> "b") @@ ("d" :> "b")
ChainOrder == <<"d", "b", "c", "a">>
ChainDown == <<"a", "b", "c", "d">>

\* A server on its own.
OneList == [p \in {"front"} |-> <<"a">>]
OneTrack == "a" :> None
OneOrder == <<"a">>
=============================================================================
