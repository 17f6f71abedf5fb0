------------------------------ MODULE SubStore ------------------------------
(***************************************************************************)
(* core/xray/store.go (subscriptions, their nodes and overrides) with its  *)
(* writers: the refreshes of daemon/subscriptions.go, which read a row,    *)
(* fetch for up to 30 seconds, replace the nodes and save the row, and the *)
(* RPCs of daemon/server_sub.go, each a transaction or a read and a save.  *)
(*                                                                         *)
(* A node is its fingerprint; a row is what the others tell apart in it -  *)
(* name, enabled, and NodeCap for all of the options; times, errors and    *)
(* quota are left out, so any enabled subscription may be due.  A master   *)
(* that draws on a subscription is not modelled: loaded is what a          *)
(* reconcile would give it.                                                *)
(***************************************************************************)
EXTENDS Naturals, FiniteSets, Sequences

CONSTANTS Scheduler,  \* the goroutine of SubFetcher.Start
          Handlers,   \* goroutines that serve the RPCs
          MaxId,      \* bound: subscriptions ever created
          MaxEdits,   \* bound: RPCs that change something
          Names,      \* names, which are also ListSubscriptions' order
          Caps,       \* values of EffectiveCap
          Fingerprints,
          Bodies,     \* what a fetch may yield: fingerprints, each once
          NoSub       \* no row

Procs == Handlers \cup {Scheduler}
Ids == 1 .. MaxId
NodesIn(b) == {b[i] : i \in DOMAIN b}
Rows == [name : Names, enabled : BOOLEAN, cap : Caps]

ASSUME SubStoreAssumption ==
  /\ Scheduler \notin Handlers
  /\ MaxId \in Nat /\ MaxEdits \in Nat
  /\ Names \subseteq Nat
  /\ Caps \subseteq Nat \ {0}
  /\ <<>> \in Bodies
  /\ Bodies \subseteq Seq(Fingerprints)
  /\ \A b \in Bodies : \A i, j \in DOMAIN b : b[i] = b[j] => i = j
  /\ NoSub \notin Rows

VARIABLES
  sub,       \* table subscriptions, by id
  nodes,     \* table sub_nodes, by subscription and in order of id
  active,    \* the nodes of each subscription with active set
  disabled,  \* table sub_node_overrides: fingerprints disabled,
  pinned,    \* and fingerprints pinned
  nextId,    \* the next id; ids are not used twice
  loaded,    \* the nodes of each subscription that xray was last given
  pc,        \* where each goroutine is
  todo,      \* the subscriptions it has still to refresh or to save
  snap,      \* their rows, as it has read or wants them
  changed,   \* one of its refreshes succeeded
  edits      \* RPCs so far

tables == <<sub, nodes, active, disabled, pinned, nextId>>
procVars == <<pc, todo, snap, changed>>
subVars == <<tables, loaded, procVars, edits>>

(* The type invariant; active is derived from the nodes there are. *)
SubStoreTypeOK ==
  /\ sub \in [Ids -> Rows \cup {NoSub}]
  /\ nodes \in [Ids -> Bodies]
  /\ active \in [Ids -> SUBSET Fingerprints]
  /\ \A id \in Ids : active[id] \subseteq NodesIn(nodes[id])
  /\ disabled \in [Ids -> SUBSET Fingerprints]
  /\ pinned \in [Ids -> SUBSET Fingerprints]
  /\ nextId \in 1 .. MaxId + 1
  /\ loaded \in [Ids -> SUBSET Fingerprints]
  /\ pc \in [Procs -> {"idle", "read", "fetch", "record", "save", "sync"}]
  /\ todo \in [Procs -> SUBSET Ids]
  /\ snap \in [Procs -> [Ids -> Rows \cup {NoSub}]]
  /\ changed \in [Procs -> BOOLEAN]
  /\ edits \in 0 .. MaxEdits

SubStoreInit ==
  /\ sub = [id \in Ids |-> NoSub]
  /\ nodes = [id \in Ids |-> <<>>]
  /\ active = [id \in Ids |-> {}]
  /\ disabled = [id \in Ids |-> {}]
  /\ pinned = [id \in Ids |-> {}]
  /\ nextId = 1
  /\ loaded = [id \in Ids |-> {}]
  /\ pc = [p \in Procs |-> "idle"]
  /\ todo = [p \in Procs |-> {}]
  /\ snap = [p \in Procs |-> [id \in Ids |-> NoSub]]
  /\ changed = [p \in Procs |-> FALSE]
  /\ edits = 0

-----------------------------------------------------------------------------
(* The store. *)

Exists(id) == sub[id] # NoSub

\* Mutant of Derived: a pinned node is loaded within the cap only.
DerivedPinsInCap(row, ns, off, pin) ==
  LET before(i) == {j \in 1 .. i - 1 : ns[j] \notin off}
  IN  IF row.enabled
        THEN {ns[i] : i \in {k \in DOMAIN ns : ns[k] \notin off /\ Cardinality(before(k)) < row.cap}}
        ELSE {}

\* recomputeActive: every pinned node, and the first cap others.
Derived(row, ns, off, pin) ==
  LET counted(i) == {j \in 1 .. i - 1 : ns[j] \notin off \cup pin}
      wanted(i) == ns[i] \in pin \/ Cardinality(counted(i)) < row.cap
  IN  IF row.enabled
        THEN {ns[i] : i \in {k \in DOMAIN ns : ns[k] \notin off /\ wanted(k)}}
        ELSE {}

Put(f, id, v) == [f EXCEPT ![id] = v]

\* The unique index on names.
NameFree(id, n) == \A other \in Ids \ {id} : Exists(other) => sub[other].name # n

\* UpdateSubscription is gorm's Save: it writes every column of the row, and
\* inserts the row when it is not there; enabled, with its default of true,
\* is then inserted as true.
Saved(id, row) == IF Exists(id) THEN row ELSE [row EXCEPT !.enabled = TRUE]

UpdateSubscription(id, row) ==
  sub' = IF NameFree(id, row.name) THEN Put(sub, id, Saved(id, row)) ELSE sub

\* SetNodePinned and SetNodeDisabled: an upsert of the override, then
\* recomputeActive.
Override(id, off, pin) ==
  /\ disabled' = Put(disabled, id, off)
  /\ pinned' = Put(pinned, id, pin)
  /\ active' = Put(active, id, Derived(sub[id], nodes[id], off, pin))

-----------------------------------------------------------------------------
(* Refreshes. *)

Goto(p, s) == pc' = Put(pc, p, s)

\* The rows that p reads, of the subscriptions in ids.
Take(p, ids) ==
  /\ todo' = Put(todo, p, ids)
  /\ snap' = Put(snap, p, [id \in Ids |-> IF id \in ids THEN sub[id] ELSE NoSub])

Enabled == {id \in Ids : Exists(id) /\ sub[id].enabled}

\* RefreshDue, of the enabled subscriptions that are due.
RefreshDue(due) ==
  /\ pc[Scheduler] = "idle"
  /\ due \subseteq Enabled /\ due # {}
  /\ Take(Scheduler, due)
  /\ Goto(Scheduler, "fetch")
  /\ UNCHANGED <<tables, loaded, changed, edits>>

\* SubRefresh: of all of them, or of one, enabled or not.
RefreshAll(p) ==
  /\ pc[p] = "idle"
  /\ Enabled # {}
  /\ Take(p, Enabled)
  /\ Goto(p, "fetch")
  /\ UNCHANGED <<tables, loaded, changed, edits>>

RefreshOne(p, id) ==
  /\ \/ pc[p] = "idle"
     \/ pc[p] = "read" /\ id \in todo[p]
  /\ Exists(id)
  /\ Take(p, {id})
  /\ Goto(p, "fetch")
  /\ UNCHANGED <<tables, loaded, changed, edits>>

\* The subscription that SubAdd has just created is gone again.
RefreshNone(p, id) ==
  /\ pc[p] = "read" /\ id \in todo[p]
  /\ ~Exists(id)
  /\ Take(p, {})
  /\ Goto(p, "idle")
  /\ UNCHANGED <<tables, loaded, changed, edits>>

\* They are refreshed in the order of the names that were read.
Current(p, id) == id \in todo[p] /\ \A j \in todo[p] : snap[p][id].name <= snap[p][j].name

\* The fetch, the parse or the transaction fails; it fails when there is no
\* row, and takes its writes back.
RefreshFails(p, id) ==
  /\ pc[p] = "fetch"
  /\ Current(p, id)
  /\ Goto(p, "record")
  /\ UNCHANGED <<tables, loaded, todo, snap, changed, edits>>

\* Mutant of ReplaceNodes: nodes are written without a look at the row.
ReplaceNodesOfAny(p, id, b) ==
  /\ pc[p] = "fetch"
  /\ Current(p, id)
  /\ nodes' = Put(nodes, id, b)
  /\ active' = Put(active, id, IF Exists(id) THEN Derived(sub[id], b, disabled[id], pinned[id]) ELSE {})
  /\ changed' = Put(changed, p, TRUE)
  /\ Goto(p, "record")
  /\ UNCHANGED <<sub, disabled, pinned, nextId, loaded, todo, snap, edits>>

\* The fetch yields b, and a transaction replaces the nodes.
ReplaceNodes(p, id, b) ==
  /\ pc[p] = "fetch"
  /\ Current(p, id)
  /\ Exists(id)
  /\ nodes' = Put(nodes, id, b)
  /\ active' = Put(active, id, Derived(sub[id], b, disabled[id], pinned[id]))
  /\ changed' = Put(changed, p, TRUE)
  /\ Goto(p, "record")
  /\ UNCHANGED <<sub, disabled, pinned, nextId, loaded, todo, snap, edits>>

Leave(p, id) ==
  /\ todo' = [todo EXCEPT ![p] = @ \ {id}]
  /\ snap' = [snap EXCEPT ![p][id] = NoSub]

\* record saves the row as it was read before the fetch.
Record(p, id) ==
  /\ pc[p] = "record"
  /\ Current(p, id)
  /\ UpdateSubscription(id, snap[p][id])
  /\ Leave(p, id)
  /\ Goto(p, IF todo'[p] # {} THEN "fetch" ELSE IF changed[p] THEN "sync" ELSE "idle")
  /\ UNCHANGED <<nodes, active, disabled, pinned, nextId, loaded, changed, edits>>

\* Mutant of Sync: the pool is not applied.
SyncNothing(p) ==
  /\ pc[p] = "sync"
  /\ changed' = Put(changed, p, FALSE)
  /\ Goto(p, "idle")
  /\ UNCHANGED <<tables, loaded, todo, snap, edits>>

\* fireChange, or an RPC's SyncDialerMembers: a reconcile reads the nodes.
Sync(p) ==
  /\ pc[p] = "sync"
  /\ loaded' = active
  /\ changed' = Put(changed, p, FALSE)
  /\ Goto(p, "idle")
  /\ UNCHANGED <<tables, todo, snap, edits>>

-----------------------------------------------------------------------------
(* The RPCs.  One of a subscription that is not there is an error and has   *)
(* no effect.                                                               *)

Edit(p) ==
  /\ pc[p] = "idle"
  /\ edits < MaxEdits
  /\ edits' = edits + 1

\* CreateSubscription, which RefreshOne follows.
SubAdd(p, row) ==
  /\ Edit(p)
  /\ nextId <= MaxId
  /\ row.enabled
  /\ NameFree(nextId, row.name)
  /\ sub' = Put(sub, nextId, row)
  /\ nextId' = nextId + 1
  /\ todo' = Put(todo, p, {nextId})
  /\ Goto(p, "read")
  /\ UNCHANGED <<nodes, active, disabled, pinned, loaded, snap, changed>>

SubRemove(p, id) ==
  /\ Edit(p)
  /\ Exists(id)
  /\ sub' = Put(sub, id, NoSub)
  /\ nodes' = Put(nodes, id, <<>>)
  /\ active' = Put(active, id, {})
  /\ disabled' = Put(disabled, id, {})
  /\ pinned' = Put(pinned, id, {})
  /\ Goto(p, "sync")
  /\ UNCHANGED <<nextId, loaded, todo, snap, changed>>

SubSetEnabled(p, id, on) ==
  /\ Edit(p)
  /\ Exists(id)
  /\ sub' = [sub EXCEPT ![id].enabled = on]
  /\ active' = Put(active, id, Derived(sub'[id], nodes[id], disabled[id], pinned[id]))
  /\ Goto(p, "sync")
  /\ UNCHANGED <<nodes, disabled, pinned, nextId, loaded, todo, snap, changed>>

\* RenameSubscription; the dialers that follow are not modelled.
SubRename(p, id, n) ==
  /\ Edit(p)
  /\ Exists(id)
  /\ NameFree(id, n)
  /\ sub' = [sub EXCEPT ![id].name = n]
  /\ Goto(p, "sync")
  /\ UNCHANGED <<nodes, active, disabled, pinned, nextId, loaded, todo, snap, changed>>

\* Pinning a node enables it.
SubSetNodePinned(p, id, f, on) ==
  /\ Edit(p)
  /\ Exists(id)
  /\ IF on THEN Override(id, disabled[id] \ {f}, pinned[id] \cup {f})
           ELSE Override(id, disabled[id], pinned[id] \ {f})
  /\ Goto(p, "sync")
  /\ UNCHANGED <<sub, nodes, nextId, loaded, todo, snap, changed>>

ClearPins(p, id) ==
  /\ Edit(p)
  /\ Exists(id)
  /\ Override(id, disabled[id], {})
  /\ Goto(p, "sync")
  /\ UNCHANGED <<sub, nodes, nextId, loaded, todo, snap, changed>>

\* Disabling a node unpins it.
SubSetNodeDisabled(p, id, f, on) ==
  /\ Edit(p)
  /\ Exists(id)
  /\ IF on THEN Override(id, disabled[id] \cup {f}, pinned[id] \ {f})
           ELSE Override(id, disabled[id] \ {f}, pinned[id])
  /\ Goto(p, "sync")
  /\ UNCHANGED <<sub, nodes, nextId, loaded, todo, snap, changed>>

\* SubSetOptions reads the row, and saves it with its options set.
SubSetOptions(p, id, n) ==
  /\ Edit(p)
  /\ Exists(id)
  /\ todo' = Put(todo, p, {id})
  /\ snap' = [snap EXCEPT ![p][id] = [sub[id] EXCEPT !.cap = n]]
  /\ Goto(p, "save")
  /\ UNCHANGED <<tables, loaded, changed>>

SaveOptions(p, id) ==
  /\ pc[p] = "save"
  /\ id \in todo[p]
  /\ UpdateSubscription(id, snap[p][id])
  /\ Leave(p, id)
  /\ Goto(p, IF NameFree(id, snap[p][id].name) THEN "sync" ELSE "idle")
  /\ UNCHANGED <<nodes, active, disabled, pinned, nextId, loaded, changed, edits>>

-----------------------------------------------------------------------------
\* The daemon dies and starts again: what was under way is lost, and its first
\* reconcile reads the nodes.
Restart ==
  /\ pc' = [p \in Procs |-> "idle"]
  /\ todo' = [p \in Procs |-> {}]
  /\ snap' = [p \in Procs |-> [id \in Ids |-> NoSub]]
  /\ changed' = [p \in Procs |-> FALSE]
  /\ loaded' = active
  /\ UNCHANGED <<tables, edits>>

Refresh(p) ==
  \/ \E id \in Ids :
       \/ RefreshFails(p, id) \/ Record(p, id)
       \/ \E b \in Bodies : ReplaceNodes(p, id, b)
  \/ Sync(p)

Rpc(p) ==
  \/ RefreshAll(p)
  \/ \E row \in Rows : SubAdd(p, row)
  \/ \E id \in Ids :
       \/ RefreshOne(p, id) \/ RefreshNone(p, id)
       \/ SubRemove(p, id) \/ ClearPins(p, id) \/ SaveOptions(p, id)
       \/ \E on \in BOOLEAN : SubSetEnabled(p, id, on)
       \/ \E n \in Names : SubRename(p, id, n)
       \/ \E n \in Caps : SubSetOptions(p, id, n)
       \/ \E f \in Fingerprints, on \in BOOLEAN :
            SubSetNodePinned(p, id, f, on) \/ SubSetNodeDisabled(p, id, f, on)

SubStoreNext ==
  \/ \E due \in SUBSET Ids : RefreshDue(due)
  \/ \E p \in Procs : Refresh(p)
  \/ \E p \in Handlers : Rpc(p)
  \/ Restart

SubStoreSpec == SubStoreInit /\ [][SubStoreNext]_subVars

-----------------------------------------------------------------------------
(* Properties. *)

(* A subscription that is not there has no nodes and no overrides, whatever *)
(* refresh of it was under way when it was removed (store.go:104-115).      *)
NoOrphans ==
  \A id \in Ids : ~Exists(id) => nodes[id] = <<>> /\ disabled[id] = {} /\ pinned[id] = {}

(* A node that was disabled by hand is not active, and not loaded again by  *)
(* a refresh that brings it back (store.go:119-121).                        *)
DisabledIsInactive == \A id \in Ids : active[id] \cap disabled[id] = {}

(* A fingerprint is pinned or disabled, never both (models.go:120-122).     *)
PinnedIsEnabled == \A id \in Ids : pinned[id] \cap disabled[id] = {}

(* While a subscription is in use every pinned node of it is loaded, and    *)
(* the others come in the order of the list (store.go:246-249).             *)
Unranked(id) == {i \in DOMAIN nodes[id] : nodes[id][i] \notin disabled[id] \cup pinned[id]}
FairlyActive ==
  \A id \in Ids : active[id] # {} =>
    /\ pinned[id] \cap NodesIn(nodes[id]) \subseteq active[id]
    /\ \A i, j \in Unranked(id) : i < j /\ nodes[id][j] \in active[id] => nodes[id][i] \in active[id]

(* When nothing is under way xray has been given exactly the active nodes:  *)
(* no change of them is left unapplied, through every interleaving of       *)
(* refreshes and RPCs and a restart of the daemon (subscriptions.go:12-14). *)
QuietIsSynced == (\A p \in Procs : pc[p] = "idle") => loaded = active
=============================================================================
