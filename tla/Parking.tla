------------------------------- MODULE Parking -------------------------------
(***************************************************************************)
(* daemon/nodepark.go: pool nodes that stay dead are left out of their     *)
(* pools for a while.  Here with all that touches the parker: the health   *)
(* poll, the reconciles, which put the nodes of agile and manual pools     *)
(* back, and the store, which changes what the pools draw on.              *)
(*                                                                         *)
(* A node may be a member of several pools and is pinged through each; the *)
(* park state is one for all of them.  Times are told apart as far as the  *)
(* parker does: dead for long enough to be parked, parked for long enough  *)
(* to be released.  What the picks do is the module Ranking, when an auto  *)
(* pool changes its mode the module AutoStrategy.                          *)
(***************************************************************************)
EXTENDS Integers, FiniteSets

CONSTANTS Nodes,        \* member keys
          PoolCount,    \* dialer groups, numbered in the order of their slots
          Stores,       \* what may be stored: pool -> members and strategy
          MaxFor        \* how often the park time doubles before it is nodeParkMax

Pools == 1 .. PoolCount

ASSUME ParkingAssumption ==
  /\ MaxFor \in Nat \ {0} /\ PoolCount \in Nat
  /\ Stores \subseteq [Pools -> [members : SUBSET Nodes, strategy : {"stable", "agile", "manual", "auto"}]]

VARIABLES
  store,   \* what is stored
  loaded,  \* s.loadedSlots: members, strategy and whether that is the classifier's
  park,    \* nodeParker.nodes
  mode,    \* autoClassifier: the pools it holds agile
  rpc,     \* an RPC has changed the store and has its reconcile before it
  poller,  \* the poll under way: where it is, the slots it took
  seen     \* history: the nodes the last poll saw alive in a pool that parks

vars == <<store, loaded, park, mode, rpc, poller, seen>>

\* A parkState, or Clear when there is none: how long it has been dead, whether
\* it is parked and until when, how often its park time doubled, on trial.
Clear == [dead |-> "no", until |-> "no", for |-> 0, trial |-> FALSE]
ParkStates ==
  [dead : {"no", "fresh", "ripe"}, until : {"no", "later", "due"}, for : 0 .. MaxFor, trial : BOOLEAN]
Slots == [members : SUBSET Nodes, strategy : {"stable", "agile", "manual"}, auto : BOOLEAN]

NeverParks(sl) == sl.strategy \in {"agile", "manual"}
IsParked(st) == st.until = "later"
Parked == {k \in Nodes : IsParked(park[k])}

-----------------------------------------------------------------------------
\* Reconciling.

\* The nodes a pool that never parks resolves to: unpark forgets them.
Unparked == {k \in Nodes : \E p \in Pools :
               /\ k \in store[p].members
               /\ \/ store[p].strategy \in {"agile", "manual"}
                  \/ store[p].strategy = "auto" /\ p \in mode}

\* Mutant of WithoutParked: a pool may lose all its members.
WithoutParkedAny(members, out) == members \ out

WithoutParked(members, out) == IF members \subseteq out THEN members ELSE members \ out

\* resolveDialerSlots, of one pool.  Who is parked was read before any pool was
\* looked at.
Resolved(p) ==
  LET was == store[p]
      strategy == CASE was.strategy = "auto" /\ p \in mode -> "agile"
                    [] was.strategy = "auto" /\ p \notin mode -> "stable"
                    [] OTHER -> was.strategy
  IN  [members |-> IF strategy = "stable" THEN WithoutParked(was.members, Parked) ELSE was.members,
       strategy |-> strategy, auto |-> was.strategy = "auto"]

Reconcile == /\ loaded' = [p \in Pools |-> Resolved(p)]
             /\ park' = [k \in Nodes |-> IF k \in Unparked THEN Clear ELSE park[k]]

\* It fails before the pools are resolved, or after.
ReconcileFails == /\ park' \in {park, [k \in Nodes |-> IF k \in Unparked THEN Clear ELSE park[k]]}
                  /\ UNCHANGED loaded

-----------------------------------------------------------------------------
Idle == [at |-> "idle", slots |-> <<>>]

ParkingInit ==
  /\ store \in Stores
  /\ mode = {}
  /\ park = [k \in Nodes |-> Clear]
  /\ loaded = [p \in Pools |->
       [members |-> store[p].members, auto |-> store[p].strategy = "auto",
        strategy |-> IF store[p].strategy = "auto" THEN "stable" ELSE store[p].strategy]]
  /\ rpc = "idle" /\ poller = Idle
  /\ seen = {}

\* An RPC: it commits, then it reconciles.
RpcCommits(st) == /\ rpc = "idle"
                  /\ store' = st
                  /\ rpc' = "reconcile"
                  /\ UNCHANGED <<loaded, park, mode, poller, seen>>

RpcReconciles == /\ rpc = "reconcile"
                 /\ Reconcile
                 /\ rpc' = "idle"
                 /\ UNCHANGED <<store, mode, poller, seen>>

RpcFails == /\ rpc = "reconcile"
            /\ ReconcileFails
            /\ rpc' = "idle"
            /\ UNCHANGED <<store, mode, poller, seen>>

\* Time: a dead node has been dead for long enough; a parked one's time is up.
Ripens(k) == /\ park[k].dead = "fresh"
             /\ park' = [park EXCEPT ![k].dead = "ripe"]
             /\ UNCHANGED <<store, loaded, mode, rpc, poller, seen>>

FallsDue(k) == /\ park[k].until = "later"
               /\ park' = [park EXCEPT ![k].until = "due"]
               /\ UNCHANGED <<store, loaded, mode, rpc, poller, seen>>

-----------------------------------------------------------------------------
\* A poll: it takes the loaded slots, asks xray's metrics, and observes.
PollStart == /\ poller.at = "idle"
             /\ poller' = [at |-> "fetch", slots |-> loaded]
             /\ UNCHANGED <<store, loaded, park, mode, rpc, seen>>

PollAnswers == /\ poller.at = "fetch"
               /\ poller' = [poller EXCEPT !.at = "seen"]
               /\ UNCHANGED <<store, loaded, park, mode, rpc, seen>>

PollFails == /\ poller.at = "fetch"
             /\ poller' = Idle
             /\ UNCHANGED <<store, loaded, park, mode, rpc, seen>>

\* Parked once more: for twice as long when a trial failed.
ParkedAgain(st) ==
  [dead |-> "no", until |-> "later", trial |-> FALSE,
   for |-> CASE st.for = 0 -> 1
             [] st.for > 0 /\ st.trial /\ st.for < MaxFor -> st.for + 1
             [] OTHER -> st.for]

\* Mutant of Seen: a live node is no longer dead, but stays as parked as it was.
SeenAndKept(st, status, live) ==
  CASE status = "alive" -> [st EXCEPT !.dead = "no", !.trial = FALSE]
    [] status = "dead" /\ st.dead = "ripe" /\ live -> ParkedAgain(st)
    [] status = "dead" /\ ~(st.dead = "ripe" /\ live) -> [st EXCEPT !.dead = IF @ = "no" THEN "fresh" ELSE @]
    [] OTHER -> st

\* What a pool's poll makes of a member: live says that some member is.
Seen(st, status, live) ==
  CASE status = "alive" -> Clear
    [] status = "dead" /\ st.dead = "ripe" /\ live -> ParkedAgain(st)
    [] status = "dead" /\ ~(st.dead = "ripe" /\ live) -> [st EXCEPT !.dead = IF @ = "no" THEN "fresh" ELSE @]
    [] OTHER -> st

\* nodeParker.observe: a node that left every pool is forgotten, unless it is
\* parked; then pool after pool.
Observed(slots, status) ==
  LET members == UNION {slots[p].members : p \in Pools}
      Pool(p, was) ==
        LET live == \E k \in slots[p].members : status[p][k] = "alive"
        IN  [k \in Nodes |-> IF k \in slots[p].members /\ ~NeverParks(slots[p])
                             THEN Seen(was[k], status[p][k], live) ELSE was[k]]
      after[p \in Pools \cup {0}] ==
        IF p = 0 THEN [k \in Nodes |-> IF k \notin members /\ park[k].until = "no" THEN Clear ELSE park[k]]
        ELSE Pool(p, after[p - 1])
  IN  after[Cardinality(Pools)]

\* Mutant of Released: only what is loaded is released.
ReleasedLoaded(st, in) ==
  IF st.until = "due" /\ in THEN [st EXCEPT !.until = "no", !.trial = TRUE, !.dead = "no"] ELSE st

\* nodeParker.release.
Released(st, in) ==
  IF st.until = "due" THEN [st EXCEPT !.until = "no", !.trial = TRUE, !.dead = "no"] ELSE st

\* The parker observes, the classifier changes the mode of some auto pools, what
\* is due is released.  repick: the picker picks differently.
PollObserves(status, switched, repick) ==
  LET slots == poller.slots
      auto == {p \in Pools : slots[p].auto}
      now == Observed(slots, status)
      next == [k \in Nodes |-> Released(now[k], \E p \in Pools : k \in slots[p].members)]
      parks == \E k \in Nodes : park[k].dead = "ripe" /\ now[k].dead # "ripe" /\ IsParked(now[k])
      releases == next # now
  IN  /\ poller.at = "seen"
      /\ switched \subseteq auto
      /\ mode' = ((mode \cap auto) \ switched) \cup (switched \ mode)
      /\ park' = next
      /\ seen' = {k \in Nodes : \E p \in Pools :
                    k \in slots[p].members /\ ~NeverParks(slots[p]) /\ status[p][k] = "alive"}
      /\ poller' = IF parks \/ releases \/ repick \/ switched # {}
                   THEN [Idle EXCEPT !.at = "apply"] ELSE Idle
      /\ UNCHANGED <<store, loaded, rpc>>

PollApplies == /\ poller.at = "apply"
               /\ Reconcile
               /\ poller' = Idle
               /\ UNCHANGED <<store, mode, rpc, seen>>

PollApplyFails == /\ poller.at = "apply"
                  /\ ReconcileFails
                  /\ poller' = Idle
                  /\ UNCHANGED <<store, mode, rpc, seen>>

-----------------------------------------------------------------------------
\* What a poll may find of the members of slots.
Statuses(slots) ==
  {status \in [Pools -> [Nodes -> {"alive", "dead", "unclear"}]] :
     \A p \in Pools, k \in Nodes : k \notin slots[p].members => status[p][k] = "unclear"}
Rpc == (\E st \in Stores : RpcCommits(st)) \/ RpcReconciles \/ RpcFails
Time == \E k \in Nodes : Ripens(k) \/ FallsDue(k)
Observes ==
  /\ poller.at = "seen"
  /\ \E status \in Statuses(poller.slots), switched \in SUBSET Pools, repick \in BOOLEAN :
       PollObserves(status, switched, repick)
ParkingNext ==
  Rpc \/ Time \/ PollStart \/ PollAnswers \/ PollFails \/ Observes \/ PollApplies \/ PollApplyFails

\* The poller's ticker goes on and what it calls returns; the metrics can be read
\* again and again.  That the poller does not stop where it has what it needs is WF of
\* the actions that leave these states.
ParkingFairness ==
  /\ WF_vars(PollStart) /\ SF_vars(PollAnswers)
  /\ []<>(poller.at \notin {"seen", "apply"})
ParkingSpec == ParkingInit /\ [][ParkingNext]_vars /\ ParkingFairness

-----------------------------------------------------------------------------
ParkingTypeOK ==
  /\ store \in Stores
  /\ loaded \in [Pools -> Slots]
  /\ park \in [Nodes -> ParkStates]
  /\ mode \subseteq Pools
  /\ rpc \in {"idle", "reconcile"}
  /\ poller \in [at : {"idle", "fetch", "seen", "apply"}, slots : [Pools -> Slots] \cup {<<>>}]
  /\ poller.at \in {"fetch", "seen"} => poller.slots \in [Pools -> Slots]
  /\ seen \subseteq Nodes

\* A node that any parking pool saw alive in the last poll is not parked, whatever
\* another pool made of it (nodepark.go:163: healthy, forget any history).
LiveNotParked == \A k \in seen : park[k].until = "no"

\* A pool that draws on some node is never emptied by parking, though its nodes are
\* parked for other pools and its members change (nodepark.go:29-33).
NotEmptied ==
  \A p \in Pools : loaded'[p] # loaded[p] /\ store[p].members # {} => loaded'[p].members # {}
NeverEmptied == [][NotEmptied]_vars

\* A node whose time is up is released and put on trial, or parked again, or
\* forgotten: it does not wait for ever (nodepark.go:28).
DueIsReleased == \A k \in Nodes : (park[k].until = "due") ~> (park[k].until # "due")
=============================================================================
