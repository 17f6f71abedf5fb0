------------------------------ MODULE MCQuota ------------------------------
(* Instances of Quota for TLC are given in the configurations. *)
EXTENDS Quota
=============================================================================
