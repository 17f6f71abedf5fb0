--------------------------- MODULE MCAutoStrategy ---------------------------
(* Two members, of which the first is picked, or nothing is ranked.             *)
EXTENDS AutoStrategy
MCPicks == {{}, {"a"}}
Both(x, y) == [k \in {"a", "b"} |-> IF k = "a" THEN x ELSE y]
Only(x) == [k \in {"a"} |-> x]
MCFinds ==
  {Both("alive", "alive"), Both("dead", "alive"), Both("alive", "dead"), Both("dead", "dead"),
   Both("unknown", "alive"), Only("alive"), Only("dead")}
=============================================================================
