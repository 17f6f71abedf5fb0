---- MODULE MCSupervisor ----
(* Instances of Supervisor for TLC. *)
EXTENDS Supervisor

CONSTANTS rpc, monitor
TwoCallers == {rpc, monitor}
NoCallers == {}
====
