--------------------------- MODULE SubStoreProofs ---------------------------
(***************************************************************************)
(* Theorems of SubStore, for any number of subscriptions, handlers and     *)
(* names, and any lists a fetch may yield.  The tables change in three     *)
(* ways only - a row is written, the nodes are derived again, everything   *)
(* of a subscription is removed - so their invariant is proved for these,  *)
(* and each action is shown to be one of them or to leave the tables alone.*)
(***************************************************************************)
EXTENDS SubStore, FiniteSetTheorems, TLAPS

(* What holds of the rows kept for one subscription. *)
Fair(id) ==
  active[id] # {} =>
    /\ pinned[id] \cap NodesIn(nodes[id]) \subseteq active[id]
    /\ \A i, j \in Unranked(id) : i < j /\ nodes[id][j] \in active[id] => nodes[id][i] \in active[id]

TablesType ==
  /\ sub \in [Ids -> Rows \cup {NoSub}]
  /\ nodes \in [Ids -> Bodies]
  /\ active \in [Ids -> SUBSET Fingerprints]
  /\ disabled \in [Ids -> SUBSET Fingerprints]
  /\ pinned \in [Ids -> SUBSET Fingerprints]
  /\ nextId \in 1 .. MaxId + 1

Sound(id) ==
  /\ active[id] \subseteq NodesIn(nodes[id])
  /\ active[id] \cap disabled[id] = {}
  /\ pinned[id] \cap disabled[id] = {}
  /\ Fair(id)
  /\ ~Exists(id) => nodes[id] = <<>> /\ disabled[id] = {} /\ pinned[id] = {}

TablesOK == TablesType /\ \A id \in Ids : Sound(id)

(* What holds of the goroutines: a row that is going to be saved was there  *)
(* when it was read, and a change that is not applied is going to be.       *)
ProcsType ==
  /\ loaded \in [Ids -> SUBSET Fingerprints]
  /\ pc \in [Procs -> {"idle", "read", "fetch", "record", "save", "sync"}]
  /\ todo \in [Procs -> SUBSET Ids]
  /\ snap \in [Procs -> [Ids -> Rows \cup {NoSub}]]
  /\ changed \in [Procs -> BOOLEAN]
  /\ edits \in 0 .. MaxEdits

WillSave == {"fetch", "record", "save"}
RowsWereRead ==
  \A p \in Procs : pc[p] \in WillSave => \A id \in todo[p] : snap[p][id] \in Rows

ChangedIsBusy == \A p \in Procs : changed[p] => pc[p] \in {"fetch", "record", "sync"}
WillApply(p) == pc[p] = "sync" \/ changed[p]
AppliedOrPending == loaded = active \/ \E p \in Procs : WillApply(p)

SubStoreInv ==
  /\ TablesOK
  /\ ProcsType
  /\ RowsWereRead
  /\ ChangedIsBusy
  /\ AppliedOrPending

-----------------------------------------------------------------------------
(* What recomputeActive yields. *)

(* Only nodes of the list that are not disabled; all of the pinned ones     *)
(* when the subscription is enabled; and no node unless all that come       *)
(* before it, and are neither pinned nor disabled, are there too.           *)
LEMMA DerivedFair ==
  ASSUME NEW row \in Rows, NEW ns \in Bodies,
         NEW off \in SUBSET Fingerprints, NEW pin \in SUBSET Fingerprints,
         pin \cap off = {}
  PROVE  LET D == Derived(row, ns, off, pin)
         IN  /\ D \subseteq NodesIn(ns)
             /\ D \cap off = {}
             /\ D # {} => /\ pin \cap NodesIn(ns) \subseteq D
                          /\ \A i, j \in {k \in DOMAIN ns : ns[k] \notin off \cup pin} :
                               i < j /\ ns[j] \in D => ns[i] \in D
<1> DEFINE D == Derived(row, ns, off, pin)
           Counted(i) == {j \in 1 .. i - 1 : ns[j] \notin off \cup pin}
<1>1. D \subseteq NodesIn(ns) /\ D \cap off = {}
  BY DEF Derived, NodesIn
<1>2. D # {} => pin \cap NodesIn(ns) \subseteq D
  BY DEF Derived, NodesIn
<1>3. ASSUME NEW i \in DOMAIN ns, NEW j \in DOMAIN ns,
             ns[i] \notin off \cup pin, ns[j] \notin off \cup pin, i < j, ns[j] \in D
      PROVE  ns[i] \in D
  <2>1. row.enabled
    BY <1>3 DEF Derived
  <2>2. Cardinality(Counted(j)) < row.cap
    <3>1. PICK k \in DOMAIN ns : ns[k] = ns[j] /\ Cardinality(Counted(k)) < row.cap
      BY <1>3, <2>1 DEF Derived
    <3>2. k = j
      BY <3>1, SubStoreAssumption
    <3> QED BY <3>1, <3>2
  <2>3. ns \in Seq(Fingerprints) /\ i \in Nat /\ j \in Nat /\ row.cap \in Nat
    <3>1. ns \in Seq(Fingerprints)
      BY SubStoreAssumption
    <3>2. row.cap \in Caps
      BY DEF Rows
    <3>3. DOMAIN ns = 1 .. Len(ns) /\ Len(ns) \in Nat
      BY <3>1
    <3>4. i \in Nat /\ j \in Nat
      BY <3>3
    <3> QED BY <3>1, <3>2, <3>4, SubStoreAssumption
  <2>4. Counted(i) \subseteq Counted(j)
    BY <2>3, <1>3
  <2>5. IsFiniteSet(Counted(j))
    <3>1. IsFiniteSet(1 .. j - 1)
      BY <2>3, FS_Interval
    <3> QED BY <3>1, FS_Subset, Counted(j) \subseteq 1 .. j - 1
  <2>6. IsFiniteSet(Counted(i)) /\ Cardinality(Counted(i)) <= Cardinality(Counted(j))
    BY <2>4, <2>5, FS_Subset
  <2>7. Cardinality(Counted(i)) \in Nat /\ Cardinality(Counted(j)) \in Nat
    BY <2>5, <2>6, FS_CardinalityType
  <2>8. Cardinality(Counted(i)) < row.cap
    BY <2>2, <2>3, <2>6, <2>7
  <2> QED BY <1>3, <2>1, <2>8 DEF Derived
<1> QED BY <1>1, <1>2, <1>3

-----------------------------------------------------------------------------
(* How the tables change. *)

Others(id) ==
  \A j \in Ids \ {id} :
    /\ sub'[j] = sub[j] /\ nodes'[j] = nodes[j] /\ active'[j] = active[j]
    /\ disabled'[j] = disabled[j] /\ pinned'[j] = pinned[j]

(* When one subscription changes, it is enough to look at that one.         *)
LEMMA OneChanges ==
  ASSUME TablesOK, NEW id \in Ids, Others(id), TablesType', Sound(id)'
  PROVE  TablesOK'
<1> SUFFICES ASSUME NEW j \in Ids PROVE Sound(j)'
  BY DEF TablesOK
<1>1. CASE j = id
  BY <1>1
<1>2. CASE j # id
  <2>1. Sound(j)
    BY DEF TablesOK
  <2>2. /\ sub'[j] = sub[j] /\ nodes'[j] = nodes[j] /\ active'[j] = active[j]
        /\ disabled'[j] = disabled[j] /\ pinned'[j] = pinned[j]
    BY <1>2 DEF Others
  <2> QED BY <2>1, <2>2 DEF Sound, Fair, Unranked, Exists
<1> QED BY <1>1, <1>2

(* A row may be written over one that is there, or over none.               *)
LEMMA RowWritten ==
  ASSUME TablesOK, NEW id \in Ids, NEW row \in Rows,
         sub' = Put(sub, id, row), nextId' \in 1 .. MaxId + 1,
         UNCHANGED <<nodes, active, disabled, pinned>>
  PROVE  TablesOK'
<1>1. TablesType'
  BY DEF TablesOK, TablesType, Put
<1>2. Others(id)
  BY DEF TablesOK, TablesType, Put, Others
<1>3. sub'[id] = row /\ row # NoSub
  BY SubStoreAssumption DEF TablesOK, TablesType, Put
<1>4. Sound(id)
  BY DEF TablesOK
<1>5. Sound(id)'
  BY <1>3, <1>4 DEF Sound, Fair, Unranked, Exists
<1> QED BY <1>1, <1>2, <1>5, OneChanges

(* The nodes, the overrides or the row of a subscription change, and the    *)
(* active flags are derived in the same transaction.                        *)
LEMMA Rederived ==
  ASSUME TablesOK, NEW id \in Ids, NEW row \in Rows, NEW b \in Bodies,
         NEW off \in SUBSET Fingerprints, NEW pin \in SUBSET Fingerprints,
         pin \cap off = {},
         sub' = Put(sub, id, row), nodes' = Put(nodes, id, b),
         disabled' = Put(disabled, id, off), pinned' = Put(pinned, id, pin),
         active' = Put(active, id, Derived(row, b, off, pin)),
         nextId' = nextId
  PROVE  TablesOK'
<1> DEFINE D == Derived(row, b, off, pin)
<1>1. /\ D \subseteq NodesIn(b)
      /\ D \cap off = {}
      /\ D # {} => /\ pin \cap NodesIn(b) \subseteq D
                   /\ \A i, j \in {k \in DOMAIN b : b[k] \notin off \cup pin} :
                        i < j /\ b[j] \in D => b[i] \in D
  BY DerivedFair
<1>2. NodesIn(b) \subseteq Fingerprints
  <2>1. b \in Seq(Fingerprints)
    BY SubStoreAssumption
  <2> QED BY <2>1 DEF NodesIn
<1>3. D \in SUBSET Fingerprints
  BY <1>1, <1>2
<1> HIDE DEF D
<1>4. active' = Put(active, id, D)
  BY DEF D
<1>5. TablesType'
  BY <1>3, <1>4 DEF TablesOK, TablesType, Put
<1>6. Others(id)
  BY <1>4 DEF TablesOK, TablesType, Put, Others
<1>7. /\ sub'[id] = row /\ nodes'[id] = b /\ active'[id] = D
      /\ disabled'[id] = off /\ pinned'[id] = pin
  BY <1>4 DEF TablesOK, TablesType, Put
<1>8. row # NoSub
  BY SubStoreAssumption
<1>9. Sound(id)'
  BY <1>1, <1>7, <1>8 DEF Sound, Fair, Unranked, Exists
<1> QED BY <1>5, <1>6, <1>9, OneChanges

LEMMA TablesUnchanged ==
  ASSUME TablesOK, UNCHANGED tables
  PROVE  TablesOK'
BY DEF TablesOK, TablesType, Sound, Fair, Unranked, Exists, tables

(* What UpdateSubscription inserts or writes is a row.                      *)
LEMMA SaveIsRow ==
  ASSUME NEW id \in Ids, NEW row \in Rows
  PROVE  Saved(id, row) \in Rows
BY DEF Saved, Rows

LEMMA UpdateKeeps ==
  ASSUME TablesOK, NEW id \in Ids, NEW row \in Rows, UpdateSubscription(id, row),
         UNCHANGED <<nodes, active, disabled, pinned, nextId>>
  PROVE  TablesOK'
<1>1. CASE NameFree(id, row.name)
  <2>1. sub' = Put(sub, id, Saved(id, row))
    BY <1>1 DEF UpdateSubscription
  <2>2. nextId' \in 1 .. MaxId + 1
    BY DEF TablesOK, TablesType
  <2> QED BY <2>1, <2>2, SaveIsRow, RowWritten
<1>2. CASE ~NameFree(id, row.name)
  BY <1>2, TablesUnchanged DEF UpdateSubscription, tables
<1> QED BY <1>1, <1>2

(* An existing row is one of Rows, and putting back what is there changes   *)
(* nothing.                                                                 *)
LEMMA ExistingRow ==
  ASSUME TablesOK, NEW id \in Ids
  PROVE  /\ Exists(id) => sub[id] \in Rows
         /\ sub = Put(sub, id, sub[id])
         /\ nodes = Put(nodes, id, nodes[id])
         /\ disabled = Put(disabled, id, disabled[id])
         /\ pinned = Put(pinned, id, pinned[id])
         /\ nodes[id] \in Bodies
         /\ disabled[id] \in SUBSET Fingerprints
         /\ pinned[id] \in SUBSET Fingerprints
         /\ pinned[id] \cap disabled[id] = {}
BY DEF TablesOK, TablesType, Sound, Exists, Put

LEMMA OverrideKeeps ==
  ASSUME TablesOK, NEW id \in Ids, Exists(id),
         NEW off \in SUBSET Fingerprints, NEW pin \in SUBSET Fingerprints,
         pin \cap off = {}, Override(id, off, pin), UNCHANGED <<sub, nodes, nextId>>
  PROVE  TablesOK'
<1>1. sub[id] \in Rows /\ nodes[id] \in Bodies
  BY ExistingRow
<1>2. sub' = Put(sub, id, sub[id]) /\ nodes' = Put(nodes, id, nodes[id])
  BY ExistingRow
<1> QED BY <1>1, <1>2, Rederived DEF Override

-----------------------------------------------------------------------------
(* Every step keeps the tables sound. *)

LEMMA TablesStep ==
  ASSUME SubStoreInv, [SubStoreNext]_subVars
  PROVE  TablesOK'
<1> USE DEF SubStoreInv
<1>1. ASSUME NEW due \in SUBSET Ids, RefreshDue(due) PROVE TablesOK'
  BY <1>1, TablesUnchanged DEF RefreshDue
<1>2. ASSUME NEW p \in Procs, Refresh(p) PROVE TablesOK'
  <2>1. ASSUME NEW id \in Ids, RefreshFails(p, id) PROVE TablesOK'
    BY <2>1, TablesUnchanged DEF RefreshFails
  <2>2. ASSUME NEW id \in Ids, Record(p, id) PROVE TablesOK'
    <3>1. snap[p][id] \in Rows
      BY <2>2 DEF Record, Current, RowsWereRead, WillSave
    <3> QED BY <2>2, <3>1, UpdateKeeps DEF Record
  <2>3. ASSUME NEW id \in Ids, NEW b \in Bodies, ReplaceNodes(p, id, b) PROVE TablesOK'
    <3>1. sub[id] \in Rows
      BY <2>3, ExistingRow DEF ReplaceNodes
    <3>2. /\ sub' = Put(sub, id, sub[id])
          /\ disabled' = Put(disabled, id, disabled[id])
          /\ pinned' = Put(pinned, id, pinned[id])
      BY <2>3, ExistingRow DEF ReplaceNodes
    <3>3. /\ nodes' = Put(nodes, id, b)
          /\ active' = Put(active, id, Derived(sub[id], b, disabled[id], pinned[id]))
          /\ nextId' = nextId
      BY <2>3 DEF ReplaceNodes
    <3> QED BY <3>1, <3>2, <3>3, ExistingRow, Rederived
  <2>4. ASSUME Sync(p) PROVE TablesOK'
    BY <2>4, TablesUnchanged DEF Sync
  <2> QED BY <1>2, <2>1, <2>2, <2>3, <2>4 DEF Refresh
<1>3. ASSUME NEW p \in Handlers, Rpc(p) PROVE TablesOK'
  <2> p \in Procs
    BY DEF Procs
  <2>1. ASSUME RefreshAll(p) PROVE TablesOK'
    BY <2>1, TablesUnchanged DEF RefreshAll
  <2>2. ASSUME NEW row \in Rows, SubAdd(p, row) PROVE TablesOK'
    <3>1. nextId \in Ids /\ nextId' \in 1 .. MaxId + 1
      BY <2>2, SubStoreAssumption DEF SubAdd, Ids, TablesOK, TablesType
    <3> QED BY <2>2, <3>1, RowWritten DEF SubAdd
  <2>3. ASSUME NEW id \in Ids, RefreshOne(p, id) \/ RefreshNone(p, id) \/ (\E n \in Caps : SubSetOptions(p, id, n))
        PROVE  TablesOK'
    BY <2>3, TablesUnchanged DEF RefreshOne, RefreshNone, SubSetOptions
  <2>4. ASSUME NEW id \in Ids, SubRemove(p, id) PROVE TablesOK'
    <3>1. TablesType'
      BY <2>4, SubStoreAssumption DEF SubRemove, TablesOK, TablesType, Put
    <3>2. Others(id)
      BY <2>4 DEF SubRemove, TablesOK, TablesType, Put, Others
    <3>3. /\ sub'[id] = NoSub /\ nodes'[id] = <<>> /\ active'[id] = {}
          /\ disabled'[id] = {} /\ pinned'[id] = {}
      BY <2>4 DEF SubRemove, TablesOK, TablesType, Put
    <3>4. Sound(id)'
      BY <3>3 DEF Sound, Fair, Unranked, Exists
    <3> QED BY <3>1, <3>2, <3>4, OneChanges
  <2>5. ASSUME NEW id \in Ids, ClearPins(p, id) PROVE TablesOK'
    BY <2>5, ExistingRow, OverrideKeeps DEF ClearPins
  <2>6. ASSUME NEW id \in Ids, SaveOptions(p, id) PROVE TablesOK'
    <3>1. snap[p][id] \in Rows
      BY <2>6 DEF SaveOptions, RowsWereRead, WillSave
    <3> QED BY <2>6, <3>1, UpdateKeeps DEF SaveOptions
  <2>7. ASSUME NEW id \in Ids, NEW on \in BOOLEAN, SubSetEnabled(p, id, on) PROVE TablesOK'
    <3> DEFINE row == [sub[id] EXCEPT !.enabled = on]
    <3>1. row \in Rows
      BY <2>7, ExistingRow DEF SubSetEnabled, Rows
    <3>2. sub' = Put(sub, id, row) /\ sub'[id] = row
      BY <2>7 DEF SubSetEnabled, Put, TablesOK, TablesType
    <3>3. /\ nodes' = Put(nodes, id, nodes[id])
          /\ disabled' = Put(disabled, id, disabled[id])
          /\ pinned' = Put(pinned, id, pinned[id])
      BY <2>7, ExistingRow DEF SubSetEnabled
    <3>4. active' = Put(active, id, Derived(row, nodes[id], disabled[id], pinned[id])) /\ nextId' = nextId
      BY <2>7, <3>2 DEF SubSetEnabled
    <3> HIDE DEF row
    <3> QED BY <3>1, <3>2, <3>3, <3>4, ExistingRow, Rederived
  <2>8. ASSUME NEW id \in Ids, NEW n \in Names, SubRename(p, id, n) PROVE TablesOK'
    <3> DEFINE row == [sub[id] EXCEPT !.name = n]
    <3>1. row \in Rows
      BY <2>8, ExistingRow DEF SubRename, Rows
    <3>2. sub' = Put(sub, id, row) /\ nextId' \in 1 .. MaxId + 1
      BY <2>8 DEF SubRename, Put, TablesOK, TablesType
    <3> HIDE DEF row
    <3> QED BY <2>8, <3>1, <3>2, RowWritten DEF SubRename
  <2>9. ASSUME NEW id \in Ids, NEW f \in Fingerprints, NEW on \in BOOLEAN,
               SubSetNodePinned(p, id, f, on) \/ SubSetNodeDisabled(p, id, f, on)
        PROVE  TablesOK'
    <3>1. /\ disabled[id] \in SUBSET Fingerprints /\ pinned[id] \in SUBSET Fingerprints
          /\ pinned[id] \cap disabled[id] = {}
      BY ExistingRow
    <3>2. Exists(id) /\ UNCHANGED <<sub, nodes, nextId>>
      BY <2>9 DEF SubSetNodePinned, SubSetNodeDisabled
    <3>3. PICK off \in SUBSET Fingerprints, pin \in SUBSET Fingerprints :
            pin \cap off = {} /\ Override(id, off, pin)
      <4>1. CASE SubSetNodePinned(p, id, f, TRUE)
        BY <3>1, <4>1, disabled[id] \ {f} \in SUBSET Fingerprints, pinned[id] \cup {f} \in SUBSET Fingerprints,
           (pinned[id] \cup {f}) \cap (disabled[id] \ {f}) = {}
           DEF SubSetNodePinned
      <4>2. CASE SubSetNodePinned(p, id, f, FALSE)
        BY <3>1, <4>2, pinned[id] \ {f} \in SUBSET Fingerprints, (pinned[id] \ {f}) \cap disabled[id] = {}
           DEF SubSetNodePinned
      <4>3. CASE SubSetNodeDisabled(p, id, f, TRUE)
        BY <3>1, <4>3, disabled[id] \cup {f} \in SUBSET Fingerprints, pinned[id] \ {f} \in SUBSET Fingerprints,
           (pinned[id] \ {f}) \cap (disabled[id] \cup {f}) = {}
           DEF SubSetNodeDisabled
      <4>4. CASE SubSetNodeDisabled(p, id, f, FALSE)
        BY <3>1, <4>4, disabled[id] \ {f} \in SUBSET Fingerprints, pinned[id] \cap (disabled[id] \ {f}) = {}
           DEF SubSetNodeDisabled
      <4> QED BY <2>9, <4>1, <4>2, <4>3, <4>4
    <3> QED BY <3>2, <3>3, OverrideKeeps
  <2> QED BY <1>3, <2>1, <2>2, <2>3, <2>4, <2>5, <2>6, <2>7, <2>8, <2>9 DEF Rpc
<1>4. CASE Restart
  BY <1>4, TablesUnchanged DEF Restart
<1>5. CASE UNCHANGED subVars
  BY <1>5, TablesUnchanged DEF subVars
<1> QED BY <1>1, <1>2, <1>3, <1>4, <1>5 DEF SubStoreNext

-----------------------------------------------------------------------------
(* Every step keeps what holds of the goroutines. *)

LEMMA ProcsStep ==
  ASSUME SubStoreInv, [SubStoreNext]_subVars
  PROVE  ProcsType'
<1> USE DEF SubStoreInv, ProcsType
<1>1. active \in [Ids -> SUBSET Fingerprints]
  BY DEF TablesOK, TablesType
<1>2. sub \in [Ids -> Rows \cup {NoSub}]
  BY DEF TablesOK, TablesType
<1>3. ASSUME NEW p \in Procs, NEW ids \in SUBSET Ids, Take(p, ids)
      PROVE  /\ todo' \in [Procs -> SUBSET Ids]
             /\ snap' \in [Procs -> [Ids -> Rows \cup {NoSub}]]
  BY <1>2, <1>3 DEF Take, Put
<1>4. ASSUME NEW p \in Procs, NEW id \in Ids, Leave(p, id)
      PROVE  /\ todo' \in [Procs -> SUBSET Ids]
             /\ snap' \in [Procs -> [Ids -> Rows \cup {NoSub}]]
  BY <1>4 DEF Leave
<1>5. ASSUME NEW due \in SUBSET Ids, RefreshDue(due) PROVE ProcsType'
  BY <1>3, <1>5, Scheduler \in Procs DEF RefreshDue, Goto, Put, Procs
<1>6. ASSUME NEW p \in Procs, Refresh(p) PROVE ProcsType'
  <2>1. ASSUME NEW id \in Ids, RefreshFails(p, id) \/ (\E b \in Bodies : ReplaceNodes(p, id, b))
        PROVE  ProcsType'
    BY <2>1 DEF RefreshFails, ReplaceNodes, Goto, Put
  <2>2. ASSUME NEW id \in Ids, Record(p, id) PROVE ProcsType'
    BY <1>4, <2>2 DEF Record, Goto, Put
  <2>3. CASE Sync(p)
    BY <1>1, <2>3 DEF Sync, Goto, Put
  <2> QED BY <1>6, <2>1, <2>2, <2>3 DEF Refresh
<1>7. ASSUME NEW p \in Handlers, Rpc(p) PROVE ProcsType'
  <2> p \in Procs
    BY DEF Procs
  <2>0. ASSUME Edit(p) PROVE edits' \in 0 .. MaxEdits
    BY <2>0, SubStoreAssumption DEF Edit
  <2>1. CASE RefreshAll(p)
    BY <1>3, <2>1, Enabled \in SUBSET Ids DEF RefreshAll, Goto, Put, Enabled
  <2>2. ASSUME NEW id \in Ids, RefreshOne(p, id) PROVE ProcsType'
    BY <1>3, <2>2, {id} \in SUBSET Ids DEF RefreshOne, Goto, Put
  <2>3. ASSUME NEW id \in Ids, RefreshNone(p, id) PROVE ProcsType'
    BY <1>3, <2>3, {} \in SUBSET Ids DEF RefreshNone, Goto, Put
  <2>4. ASSUME NEW row \in Rows, SubAdd(p, row) PROVE ProcsType'
    <3>1. nextId \in Ids
      BY <2>4, SubStoreAssumption DEF SubAdd, Ids, TablesOK, TablesType
    <3> QED BY <2>0, <2>4, <3>1 DEF SubAdd, Goto, Put
  <2>5. ASSUME NEW id \in Ids, NEW n \in Caps, SubSetOptions(p, id, n) PROVE ProcsType'
    <3>1. [sub[id] EXCEPT !.cap = n] \in Rows
      BY <1>2, <2>5 DEF SubSetOptions, Exists, Rows
    <3> QED BY <2>0, <2>5, <3>1 DEF SubSetOptions, Goto, Put
  <2>6. ASSUME NEW id \in Ids, SaveOptions(p, id) PROVE ProcsType'
    BY <1>4, <2>6 DEF SaveOptions, Goto, Put
  <2>7. ASSUME NEW id \in Ids,
               \/ SubRemove(p, id) \/ ClearPins(p, id)
               \/ \E on \in BOOLEAN : SubSetEnabled(p, id, on)
               \/ \E n \in Names : SubRename(p, id, n)
               \/ \E f \in Fingerprints, on \in BOOLEAN :
                    SubSetNodePinned(p, id, f, on) \/ SubSetNodeDisabled(p, id, f, on)
        PROVE  ProcsType'
    <3>1. Edit(p) /\ Goto(p, "sync") /\ UNCHANGED <<loaded, todo, snap, changed>>
      BY <2>7 DEF SubRemove, ClearPins, SubSetEnabled, SubRename, SubSetNodePinned, SubSetNodeDisabled
    <3> QED BY <2>0, <3>1 DEF Goto, Put
  <2> QED BY <1>7, <2>1, <2>2, <2>3, <2>4, <2>5, <2>6, <2>7 DEF Rpc
<1>8. CASE Restart
  BY <1>1, <1>8 DEF Restart
<1>9. CASE UNCHANGED subVars
  BY <1>9 DEF subVars, procVars
<1> QED BY <1>5, <1>6, <1>7, <1>8, <1>9 DEF SubStoreNext

(* Whoever is going to save a row has read one.                             *)
LEMMA RowsStep ==
  ASSUME SubStoreInv, [SubStoreNext]_subVars
  PROVE  RowsWereRead'
<1> USE DEF SubStoreInv, RowsWereRead, WillSave
<1>0. /\ todo \in [Procs -> SUBSET Ids] /\ pc \in [Procs -> {"idle", "read", "fetch", "record", "save", "sync"}]
      /\ snap \in [Procs -> [Ids -> Rows \cup {NoSub}]]
      /\ sub \in [Ids -> Rows \cup {NoSub}]
  BY DEF ProcsType, TablesOK, TablesType
<1>1. ASSUME NEW p \in Procs, NEW ids \in SUBSET Ids, Take(p, ids), \A id \in ids : Exists(id), Goto(p, "fetch")
      PROVE  RowsWereRead'
  BY <1>0, <1>1 DEF Take, Put, Exists, Goto
<1>2. ASSUME NEW p \in Procs, NEW id \in Ids, Leave(p, id), pc[p] \in WillSave, NEW s, Goto(p, s)
      PROVE  RowsWereRead'
  BY <1>0, <1>2 DEF Leave, Goto, Put
<1>3. ASSUME NEW p \in Procs, NEW s \in {"idle", "read", "sync"}, Goto(p, s),
             \A q \in Procs \ {p} : todo'[q] = todo[q] /\ snap'[q] = snap[q]
      PROVE  RowsWereRead'
  BY <1>0, <1>3 DEF Goto, Put
<1>4. ASSUME NEW due \in SUBSET Ids, RefreshDue(due) PROVE RowsWereRead'
  BY <1>1, <1>4, Scheduler \in Procs DEF RefreshDue, Procs, Enabled
<1>5. ASSUME NEW p \in Procs, Refresh(p) PROVE RowsWereRead'
  <2>1. ASSUME NEW id \in Ids, RefreshFails(p, id) \/ (\E b \in Bodies : ReplaceNodes(p, id, b))
        PROVE  RowsWereRead'
    BY <1>0, <2>1 DEF RefreshFails, ReplaceNodes, Goto, Put
  <2>2. ASSUME NEW id \in Ids, Record(p, id) PROVE RowsWereRead'
    BY <1>2, <2>2 DEF Record
  <2>3. CASE Sync(p)
    BY <1>3, <2>3 DEF Sync
  <2> QED BY <1>5, <2>1, <2>2, <2>3 DEF Refresh
<1>6. ASSUME NEW p \in Handlers, Rpc(p) PROVE RowsWereRead'
  <2> p \in Procs
    BY DEF Procs
  <2>1. CASE RefreshAll(p)
    BY <1>1, <2>1, Enabled \in SUBSET Ids DEF RefreshAll, Enabled
  <2>2. ASSUME NEW id \in Ids, RefreshOne(p, id) PROVE RowsWereRead'
    BY <1>1, <2>2, {id} \in SUBSET Ids DEF RefreshOne
  <2>3. ASSUME NEW id \in Ids, RefreshNone(p, id) PROVE RowsWereRead'
    <3>1. \A q \in Procs \ {p} : todo'[q] = todo[q] /\ snap'[q] = snap[q]
      BY <1>0, <2>3 DEF RefreshNone, Take, Put
    <3> QED BY <1>3, <2>3, <3>1 DEF RefreshNone
  <2>4. ASSUME NEW row \in Rows, SubAdd(p, row) PROVE RowsWereRead'
    <3>1. \A q \in Procs \ {p} : todo'[q] = todo[q] /\ snap'[q] = snap[q]
      BY <1>0, <2>4 DEF SubAdd, Put
    <3> QED BY <1>3, <2>4, <3>1 DEF SubAdd
  <2>5. ASSUME NEW id \in Ids, NEW n \in Caps, SubSetOptions(p, id, n) PROVE RowsWereRead'
    <3>1. [sub[id] EXCEPT !.cap = n] \in Rows
      BY <1>0, <2>5 DEF SubSetOptions, Exists, Rows
    <3> QED BY <1>0, <2>5, <3>1 DEF SubSetOptions, Goto, Put
  <2>6. ASSUME NEW id \in Ids, SaveOptions(p, id) PROVE RowsWereRead'
    BY <1>2, <2>6 DEF SaveOptions
  <2>7. ASSUME NEW id \in Ids,
               \/ SubRemove(p, id) \/ ClearPins(p, id)
               \/ \E on \in BOOLEAN : SubSetEnabled(p, id, on)
               \/ \E n \in Names : SubRename(p, id, n)
               \/ \E f \in Fingerprints, on \in BOOLEAN :
                    SubSetNodePinned(p, id, f, on) \/ SubSetNodeDisabled(p, id, f, on)
        PROVE  RowsWereRead'
    <3>1. Goto(p, "sync") /\ UNCHANGED <<todo, snap>>
      BY <2>7 DEF SubRemove, ClearPins, SubSetEnabled, SubRename, SubSetNodePinned, SubSetNodeDisabled
    <3> QED BY <1>3, <3>1
  <2> QED BY <1>6, <2>1, <2>2, <2>3, <2>4, <2>5, <2>6, <2>7 DEF Rpc
<1>7. CASE Restart
  BY <1>7 DEF Restart
<1>8. CASE UNCHANGED subVars
  BY <1>8 DEF subVars, procVars
<1> QED BY <1>4, <1>5, <1>6, <1>7, <1>8 DEF SubStoreNext

(* A change of the active nodes is applied, or somebody is on the way to.   *)
LEMMA AppliedStep ==
  ASSUME SubStoreInv, [SubStoreNext]_subVars
  PROVE  ChangedIsBusy' /\ AppliedOrPending'
<1> USE DEF SubStoreInv, ChangedIsBusy, AppliedOrPending, WillApply
<1>0. /\ pc \in [Procs -> {"idle", "read", "fetch", "record", "save", "sync"}]
      /\ changed \in [Procs -> BOOLEAN]
  BY DEF ProcsType
<1>1. ASSUME NEW p \in Procs, pc[p] \in {"idle", "read", "save"}, NEW s, Goto(p, s),
             UNCHANGED <<active, loaded, changed>>
      PROVE  ChangedIsBusy' /\ AppliedOrPending'
  BY <1>0, <1>1 DEF Goto, Put
<1>2. ASSUME NEW p \in Procs, ~changed[p], Goto(p, "sync"), UNCHANGED changed
      PROVE  ChangedIsBusy' /\ AppliedOrPending'
  BY <1>0, <1>2 DEF Goto, Put
<1>3. ASSUME NEW due \in SUBSET Ids, RefreshDue(due) PROVE ChangedIsBusy' /\ AppliedOrPending'
  BY <1>1, <1>3, Scheduler \in Procs DEF RefreshDue, Procs, tables
<1>4. ASSUME NEW p \in Procs, Refresh(p) PROVE ChangedIsBusy' /\ AppliedOrPending'
  <2>1. ASSUME NEW id \in Ids, RefreshFails(p, id) PROVE ChangedIsBusy' /\ AppliedOrPending'
    BY <1>0, <2>1 DEF RefreshFails, Goto, Put, tables
  <2>2. ASSUME NEW id \in Ids, NEW b \in Bodies, ReplaceNodes(p, id, b) PROVE ChangedIsBusy' /\ AppliedOrPending'
    BY <1>0, <2>2 DEF ReplaceNodes, Goto, Put
  <2>3. ASSUME NEW id \in Ids, Record(p, id) PROVE ChangedIsBusy' /\ AppliedOrPending'
    BY <1>0, <2>3 DEF Record, Goto, Put
  <2>4. CASE Sync(p)
    BY <1>0, <2>4 DEF Sync, Goto, Put, tables
  <2> QED BY <1>4, <2>1, <2>2, <2>3, <2>4 DEF Refresh
<1>5. ASSUME NEW p \in Handlers, Rpc(p) PROVE ChangedIsBusy' /\ AppliedOrPending'
  <2> p \in Procs
    BY DEF Procs
  <2>1. CASE RefreshAll(p)
    BY <1>1, <2>1 DEF RefreshAll, tables
  <2>2. ASSUME NEW id \in Ids, RefreshOne(p, id) \/ RefreshNone(p, id) PROVE ChangedIsBusy' /\ AppliedOrPending'
    BY <1>1, <2>2 DEF RefreshOne, RefreshNone, tables
  <2>3. ASSUME NEW row \in Rows, SubAdd(p, row) PROVE ChangedIsBusy' /\ AppliedOrPending'
    BY <1>1, <2>3 DEF SubAdd, Edit
  <2>4. ASSUME NEW id \in Ids, NEW n \in Caps, SubSetOptions(p, id, n) PROVE ChangedIsBusy' /\ AppliedOrPending'
    BY <1>1, <2>4 DEF SubSetOptions, Edit, tables
  <2>5. ASSUME NEW id \in Ids, SaveOptions(p, id) PROVE ChangedIsBusy' /\ AppliedOrPending'
    BY <1>1, <2>5 DEF SaveOptions
  <2>6. ASSUME NEW id \in Ids,
               \/ SubRemove(p, id) \/ ClearPins(p, id)
               \/ \E on \in BOOLEAN : SubSetEnabled(p, id, on)
               \/ \E n \in Names : SubRename(p, id, n)
               \/ \E f \in Fingerprints, on \in BOOLEAN :
                    SubSetNodePinned(p, id, f, on) \/ SubSetNodeDisabled(p, id, f, on)
        PROVE  ChangedIsBusy' /\ AppliedOrPending'
    <3>1. Goto(p, "sync") /\ pc[p] = "idle" /\ UNCHANGED changed
      BY <2>6 DEF SubRemove, ClearPins, SubSetEnabled, SubRename, SubSetNodePinned, SubSetNodeDisabled, Edit
    <3>2. ~changed[p]
      BY <3>1
    <3> QED BY <1>2, <3>1, <3>2
  <2> QED BY <1>5, <2>1, <2>2, <2>3, <2>4, <2>5, <2>6 DEF Rpc
<1>6. CASE Restart
  BY <1>6 DEF Restart, tables
<1>7. CASE UNCHANGED subVars
  BY <1>7 DEF subVars, procVars, tables
<1> QED BY <1>3, <1>4, <1>5, <1>6, <1>7 DEF SubStoreNext

-----------------------------------------------------------------------------
(* The theorems. *)

LEMMA SubStoreInitially == ASSUME SubStoreInit PROVE SubStoreInv
<1> USE DEF SubStoreInit
<1>1. TablesType
  BY SubStoreAssumption DEF TablesType
<1>2. \A id \in Ids : Sound(id)
  BY DEF Sound, Fair, Unranked, Exists
<1>3. ProcsType
  BY SubStoreAssumption DEF ProcsType
<1>4. RowsWereRead /\ ChangedIsBusy
  BY DEF RowsWereRead, ChangedIsBusy, WillSave
<1>5. AppliedOrPending
  BY DEF AppliedOrPending
<1> QED BY <1>1, <1>2, <1>3, <1>4, <1>5 DEF SubStoreInv, TablesOK

(* The inductive invariant of the store and its writers.                    *)
THEOREM SubStoreInvariant == SubStoreSpec => []SubStoreInv
<1>1. SubStoreInit => SubStoreInv
  BY SubStoreInitially
<1>2. SubStoreInv /\ [SubStoreNext]_subVars => SubStoreInv'
  BY TablesStep, ProcsStep, RowsStep, AppliedStep DEF SubStoreInv
<1> QED BY <1>1, <1>2, PTL DEF SubStoreSpec

(* Type correctness: in particular no active flag without its node.         *)
THEOREM SubStoreTypeCorrect == SubStoreSpec => []SubStoreTypeOK
<1>1. SubStoreInv => SubStoreTypeOK
  BY DEF SubStoreInv, TablesOK, TablesType, Sound, ProcsType, SubStoreTypeOK
<1> QED BY <1>1, SubStoreInvariant, PTL

(* A refresh in flight never leaves nodes of a removed subscription.        *)
THEOREM NoOrphansThm == SubStoreSpec => []NoOrphans
<1>1. SubStoreInv => NoOrphans
  BY DEF SubStoreInv, TablesOK, Sound, NoOrphans
<1> QED BY <1>1, SubStoreInvariant, PTL

(* No interleaving loads a node that was disabled by hand.                  *)
THEOREM DisabledIsInactiveThm == SubStoreSpec => [](DisabledIsInactive /\ PinnedIsEnabled)
<1>1. SubStoreInv => DisabledIsInactive /\ PinnedIsEnabled
  BY DEF SubStoreInv, TablesOK, Sound, DisabledIsInactive, PinnedIsEnabled
<1> QED BY <1>1, SubStoreInvariant, PTL

(* Pinned nodes are loaded and the cap is filled in order, for any lists,   *)
(* caps and overrides.                                                      *)
THEOREM FairlyActiveThm == SubStoreSpec => []FairlyActive
<1>1. SubStoreInv => FairlyActive
  BY DEF SubStoreInv, TablesOK, Sound, Fair, FairlyActive
<1> QED BY <1>1, SubStoreInvariant, PTL

(* At rest xray has been given exactly the active nodes.                    *)
THEOREM QuietIsSyncedThm == SubStoreSpec => []QuietIsSynced
<1>1. SubStoreInv => QuietIsSynced
  BY DEF SubStoreInv, ChangedIsBusy, AppliedOrPending, WillApply, QuietIsSynced
<1> QED BY <1>1, SubStoreInvariant, PTL
=============================================================================
