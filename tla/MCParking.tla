----------------------------- MODULE MCParking -----------------------------
(* Two pools that share a node.  The first is stable, or on auto; the second   *)
(* draws on a part of it, or on more, and is stable, agile or manual.          *)
EXTENDS Parking

Pool(members, strategy) == [members |-> members, strategy |-> strategy]
MCStores ==
  {<<Pool({"a", "b"}, "stable"), Pool({"a"}, "stable")>>,
   <<Pool({"a", "b"}, "auto"), Pool({"b"}, "agile")>>,
   <<Pool({"a"}, "stable"), Pool({"a", "b"}, "stable")>>,
   <<Pool({"a", "b"}, "stable"), Pool({"b"}, "manual")>>}
=============================================================================
