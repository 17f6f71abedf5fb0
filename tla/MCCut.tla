------------------------------- MODULE MCCut -------------------------------
(* Two pools that share a member; their servers share an endpoint, or not.  A *)
(* master moves from pool to pool, loses its dialer, and gets it back; an agile *)
(* pool may have only the member that is down.                                 *)
EXTENDS Cut

MCEndpoints == [n \in {"a", "b"} |-> IF n = "a" THEN {1} ELSE {1, 2}]

Pool(masters, members, strategy, pins) ==
  [masters |-> masters, members |-> members, strategy |-> strategy, pins |-> pins]
NoPool == Pool({}, {}, "stable", {})
AB(masters, strategy, pins) == Pool(masters, {"a", "b"}, strategy, pins)
B(masters) == Pool(masters, {"b"}, "manual", {"b"})

MCStores ==
  {[p |-> AB({"m", "n"}, "agile", {}), q |-> NoPool],
   [p |-> Pool({"m", "n"}, {"b"}, "agile", {}), q |-> NoPool],
   [p |-> AB({"m", "n"}, "manual", {"a"}), q |-> NoPool],
   [p |-> AB({"m"}, "manual", {"b"}), q |-> B({"n"})],
   [p |-> AB({"n"}, "stable", {}), q |-> NoPool]}
=============================================================================
