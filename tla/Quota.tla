------------------------------- MODULE Quota -------------------------------
(***************************************************************************)
(* The users of the inbounds and their byte caps: the sampler of           *)
(* daemon/traffic.go, which turns xray's counters into lifetime totals     *)
(* (core/xray/traffic_store.go) and has a user that reached its cap taken  *)
(* out of the config, and the RPCs of daemon/server_users.go.              *)
(*                                                                         *)
(* A user is its name, which is also its Email: the tag of its counter and *)
(* of its total, and it outlives the row.  The two directions are one      *)
(* counter, and of the tags only the users' are kept: those of inbounds    *)
(* and entries have no cap.  Hourly buckets are left out.                  *)
(***************************************************************************)
EXTENDS Integers, FiniteSets

CONSTANTS Users,
          Caps,        \* values of ByteCap; 0 is no cap
          MaxBytes,    \* bound: what a user ever carries
          MaxEdits,    \* bound: RPCs that change a user
          MaxRestarts, \* bound: starts of xray after the first
          MaxRefused   \* bound: reconciles that fail

ASSUME QuotaAssumption ==
  /\ Caps \subseteq Nat /\ MaxBytes \in Nat
  /\ MaxEdits \in Nat /\ MaxRestarts \in Nat /\ MaxRefused \in Nat

VARIABLES
  rows,      \* table inbound_users: cap and enabled, by user
  totals,    \* table traffic_totals
  served,    \* the users in the config xray runs
  counter,   \* xray's counters, since it started
  pc,        \* where the sampler's poll is
  sample,    \* the counters it has read
  pending,   \* the deltas it has still to store
  last,      \* TrafficSampler.last
  overCap,   \* TrafficSampler.overCap
  handler,   \* the RPC: idle, or about to reconcile
  edits, restarts, refused,
  \* What the properties remember.
  carried,   \* bytes each user has really carried
  missed,    \* users of which a delta was dropped or a restart hid some
  capRefused \* the last reconcile for a cap failed

samplerVars == <<pc, sample, pending, last, overCap>>
bounds == <<edits, restarts, refused>>
quotaVars == <<rows, totals, served, counter, samplerVars, handler, bounds, carried, missed, capRefused>>

Zero == [u \in Users |-> 0]
Limited(u) == u \in DOMAIN rows /\ rows[u].enabled /\ rows[u].cap > 0
Over(u) == Limited(u) /\ totals[u] >= rows[u].cap

\* Mutant of ActiveUsers: a user may use up all of its cap and one more.
ActiveUsersPast == {u \in DOMAIN rows : rows[u].enabled /\ ~(Limited(u) /\ totals[u] > rows[u].cap)}

\* activeUsers: those a config is generated with.
ActiveUsers == {u \in DOMAIN rows : rows[u].enabled /\ ~Over(u)}

(***************************************************************************)
(* xray: its clients, its counters.  A config is applied live, or by a     *)
(* restart that starts the counters anew.                                  *)
(***************************************************************************)
Carry(u) ==
  /\ u \in served /\ carried[u] < MaxBytes
  /\ counter' = [counter EXCEPT ![u] = @ + 1]
  /\ carried' = [carried EXCEPT ![u] = @ + 1]
  /\ UNCHANGED <<rows, totals, served, samplerVars, handler, bounds, missed, capRefused>>

CountersRestart ==
  /\ restarts < MaxRestarts
  /\ restarts' = restarts + 1
  /\ counter' = Zero
  /\ missed' = missed \cup {u \in Users : counter[u] > 0}

XrayRestart ==
  /\ CountersRestart
  /\ UNCHANGED <<rows, totals, served, samplerVars, handler, edits, refused, carried, capRefused>>

\* Supervisor.Reconcile: applied one way or the other, or refused.
Apply ==
  /\ served' = ActiveUsers
  /\ UNCHANGED <<refused, edits>>
  /\ \/ UNCHANGED <<counter, restarts, missed>>
     \/ CountersRestart
Refuse ==
  /\ refused < MaxRefused
  /\ refused' = refused + 1
  /\ UNCHANGED <<served, counter, restarts, missed, edits>>

(***************************************************************************)
(* TrafficSampler.poll.                                                    *)
(***************************************************************************)
\* Mutant of StatsQuery: the counters are reset as they are read.
StatsQueryResets ==
  /\ pc = "idle"
  /\ sample' = counter
  /\ counter' = Zero
  /\ pc' = "index"
  /\ UNCHANGED <<rows, totals, served, pending, last, overCap, handler, bounds, carried, missed, capRefused>>

\* Supervisor.StatsQuery: the counters are read, not reset.
StatsQuery ==
  /\ pc = "idle"
  /\ sample' = counter
  /\ pc' = "index"
  /\ UNCHANGED <<rows, totals, served, counter, pending, last, overCap, handler, bounds, carried, missed, capRefused>>

\* Mutant of Delta: a restart of xray is not noticed.
DeltaOfLast(u) == IF sample[u] < last[u] THEN last[u] - sample[u] ELSE sample[u] - last[u]

\* A counter below the last sample was restarted.
Delta(u) == IF sample[u] < last[u] THEN sample[u] ELSE sample[u] - last[u]

\* The tags are looked up after the counters were read: the delta of one
\* that has no row by then is dropped, and its cursor moves all the same.
TagIndex ==
  LET moved == {u \in Users : Delta(u) > 0}
  IN  /\ pc = "index"
      /\ pending' = [u \in moved \cap DOMAIN rows |-> Delta(u)]
      /\ missed' = missed \cup (moved \ DOMAIN rows)
      /\ last' = sample
      /\ sample' = Zero
      /\ pc' = "store"
      /\ UNCHANGED <<rows, totals, served, counter, overCap, handler, bounds, carried, capRefused>>

AddTraffic(u) ==
  /\ pc = "store" /\ u \in DOMAIN pending
  /\ totals' = [totals EXCEPT ![u] = @ + pending[u]]
  /\ pending' = [v \in DOMAIN pending \ {u} |-> pending[v]]
  /\ UNCHANGED <<rows, served, counter, pc, sample, last, overCap, handler, bounds, carried, missed, capRefused>>

\* AddTraffic fails: it is logged, and the delta is gone.
AddTrafficFails(u) ==
  /\ pc = "store" /\ u \in DOMAIN pending
  /\ missed' = missed \cup {u}
  /\ pending' = [v \in DOMAIN pending \ {u} |-> pending[v]]
  /\ UNCHANGED <<rows, totals, served, counter, pc, sample, last, overCap, handler, bounds, carried, capRefused>>

\* enforceCaps: a reconcile when a user turned out to be over its cap, or
\* to be under it again.
EnforceCaps ==
  LET came == {u \in Users : Over(u) /\ u \notin overCap}
      left == {u \in overCap : Limited(u) /\ ~Over(u)}
  IN  /\ pc = "store" /\ pending = <<>>
      /\ overCap' = (overCap \cup came) \ left
      /\ pc' = IF came \cup left = {} THEN "idle" ELSE "reconcile"
      /\ UNCHANGED <<rows, totals, served, counter, sample, pending, last, handler, bounds, carried, missed, capRefused>>

\* Mutant of CapReconcile: what is over its cap is only remembered.
CapReconcileNever ==
  /\ pc = "reconcile"
  /\ pc' = "idle"
  /\ capRefused' = FALSE
  /\ UNCHANGED <<rows, totals, served, counter, sample, pending, last, overCap, handler, bounds, carried, missed>>

CapReconcile ==
  /\ pc = "reconcile"
  /\ \/ Apply /\ capRefused' = FALSE
     \/ Refuse /\ capRefused' = TRUE
  /\ pc' = "idle"
  /\ UNCHANGED <<rows, totals, sample, pending, last, overCap, handler, carried>>

(***************************************************************************)
(* The RPCs: each writes, then reconciles.                                 *)
(***************************************************************************)
Edited(newRows) ==
  /\ handler = "idle" /\ edits < MaxEdits
  /\ rows' = newRows
  /\ edits' = edits + 1
  /\ handler' = "reconcile"
  /\ UNCHANGED <<totals, served, counter, samplerVars, restarts, refused, carried, missed, capRefused>>

InboundUserAdd == \E u \in Users \ DOMAIN rows, n \in Caps :
  Edited([v \in DOMAIN rows \cup {u} |-> IF v = u THEN [cap |-> n, enabled |-> TRUE] ELSE rows[v]])
InboundUserRemove == \E u \in DOMAIN rows :
  Edited([v \in DOMAIN rows \ {u} |-> rows[v]])
InboundUserSetEnabled == \E u \in DOMAIN rows, on \in BOOLEAN :
  Edited([rows EXCEPT ![u].enabled = on])

HandlerReconcile ==
  /\ handler = "reconcile"
  /\ Apply \/ Refuse
  /\ handler' = "idle"
  /\ UNCHANGED <<rows, totals, samplerVars, carried, capRefused>>

\* The daemon is killed and started again, and so is its child.
DaemonRestart ==
  /\ restarts < MaxRestarts
  /\ restarts' = restarts + 1
  /\ pc' = "idle" /\ sample' = Zero /\ pending' = <<>> /\ last' = Zero /\ overCap' = {}
  /\ handler' = "idle"
  /\ served' = ActiveUsers /\ counter' = Zero
  /\ missed' = missed \cup {u \in Users : counter[u] > 0}
  /\ capRefused' = FALSE
  /\ UNCHANGED <<rows, totals, edits, refused, carried>>

Init ==
  /\ \E n \in Caps : rows = [u \in Users |-> [cap |-> n, enabled |-> TRUE]]
  /\ totals = Zero /\ served = Users /\ counter = Zero
  /\ pc = "idle" /\ sample = Zero /\ pending = <<>> /\ last = Zero /\ overCap = {}
  /\ handler = "idle" /\ edits = 0 /\ restarts = 0 /\ refused = 0
  /\ carried = Zero /\ missed = {} /\ capRefused = FALSE

Sampler ==
  \/ StatsQuery \/ TagIndex \/ EnforceCaps \/ CapReconcile
  \/ \E u \in Users : AddTraffic(u) \/ AddTrafficFails(u)
Next ==
  \/ Sampler \/ HandlerReconcile \/ XrayRestart \/ DaemonRestart
  \/ InboundUserAdd \/ InboundUserRemove \/ InboundUserSetEnabled
  \/ \E u \in Users : Carry(u)

\* The sampler polls once a minute and comes to the end of a poll; a handler
\* comes to its reconcile.
Spec ==
  /\ Init /\ [][Next]_quotaVars
  /\ WF_quotaVars(Sampler) /\ WF_quotaVars(HandlerReconcile)

QuotaTypeOK ==
  /\ DOMAIN rows \subseteq Users /\ \A u \in DOMAIN rows : rows[u] \in [cap : Caps, enabled : BOOLEAN]
  /\ totals \in [Users -> Nat] /\ counter \in [Users -> Nat] /\ last \in [Users -> Nat]
  /\ sample \in [Users -> Nat] /\ carried \in [Users -> Nat]
  /\ served \subseteq Users /\ overCap \subseteq Users /\ missed \subseteq Users
  /\ pc \in {"idle", "index", "store", "reconcile"} /\ handler \in {"idle", "reconcile"}
  /\ DOMAIN pending \subseteq Users /\ \A u \in DOMAIN pending : pending[u] \in Nat
  /\ edits \in Nat /\ restarts \in Nat /\ refused \in Nat /\ capRefused \in BOOLEAN

PendingOf(u) == IF u \in DOMAIN pending THEN pending[u] ELSE 0
\* What the sampler has read or will read and not handed on yet.
Unsampled(u) == IF counter[u] < last[u] THEN counter[u] ELSE counter[u] - last[u]

(***************************************************************************)
(* A total is never more than what the user carried: nobody is cut off     *)
(* for bytes that were counted twice, whatever restarts in the middle of a *)
(* poll, and whether or not the user had a row all the time.               *)
(***************************************************************************)
NeverOvercounts == \A u \in Users : totals[u] + PendingOf(u) <= carried[u]

(***************************************************************************)
(* And it is exact, once everything has been sampled, except for users of  *)
(* which the sampler dropped something: a delta with no row or that could  *)
(* not be stored, or the bytes around a restart of xray.                   *)
(***************************************************************************)
NothingLost ==
  \A u \in Users \ missed : carried[u] = totals[u] + PendingOf(u) + Unsampled(u)

(***************************************************************************)
(* A user that the sampler has not yet seen over its cap is cut off when   *)
(* it gets there, unless the one reconcile that is tried for it fails.     *)
(***************************************************************************)
FirstTimeIsCut ==
  \A u \in Users : (Over(u) /\ u \notin overCap) ~> (u \notin served \/ capRefused \/ ~Over(u))
=============================================================================
