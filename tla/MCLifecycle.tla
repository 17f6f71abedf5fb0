---------------------------- MODULE MCLifecycle ----------------------------
(* Instances of Lifecycle for TLC are given in the configurations. *)
EXTENDS Lifecycle
=============================================================================
