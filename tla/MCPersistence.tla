--------------------------- MODULE MCPersistence ---------------------------
(* Two items of one url from two sources, and one with a url of its own.   *)
EXTENDS Persistence

MCUrlOf == <<"u", "u", "v">>
MCSourceOf == <<"s", "t", "s">>
MCTagsOf == [u \in {"u", "v"} |-> IF u = "u" THEN {"Agent", "Tool"} ELSE {"Agent"}]
=============================================================================
