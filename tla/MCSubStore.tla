---- MODULE MCSubStore ----
(* Instances of SubStore for TLC. *)
EXTENDS SubStore, TLC

CONSTANTS a, b
Lists == {<<>>, <<a, b>>}
Alike == Permutations(Handlers)
====
