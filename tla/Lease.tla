------------------------------- MODULE Lease -------------------------------
(***************************************************************************)
(* What daemons of one layout promise each other, abstractly: one of them  *)
(* holds the layout at a time, and what belongs to it, the control socket  *)
(* and the database, is changed by its holder only.  A holder may end at   *)
(* any time, and leaves what belongs to it as it is.                       *)
(***************************************************************************)
CONSTANT Procs

VARIABLES holder,  \* those who hold it
          goods    \* what belongs to it

leaseVars == <<holder, goods>>

Acquire(p) == holder = {} /\ holder' = {p} /\ UNCHANGED goods
Use(p) == holder = {p} /\ UNCHANGED holder
Release(p) == holder = {p} /\ holder' = {} /\ UNCHANGED goods

LeaseInit == holder = {} \/ \E p \in Procs : holder = {p}
LeaseNext == \E p \in Procs : Acquire(p) \/ Use(p) \/ Release(p)
LeaseSpec == LeaseInit /\ [][LeaseNext]_leaseVars
=============================================================================
