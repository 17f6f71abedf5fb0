------------------------------ MODULE Entries ------------------------------
(***************************************************************************)
(* The RPCs on entries and inbounds (daemon/server_methods.go,             *)
(* server_iface.go), the renames (daemon/rename.go), export and import     *)
(* (daemon/server_backup.go), over the tables they share with what the     *)
(* subscriptions are called (core/xray/store.go).                          *)
(*                                                                         *)
(* A handler takes no lock: it reads and checks, writes, and reconciles,   *)
(* and other handlers run in between.  Start actions are the reading and   *)
(* checking half; a refused call changes nothing and is no action.         *)
(*                                                                         *)
(* A dialer is its set of references.  Of an outbound the model keeps its  *)
(* kind: one that tunnels, one of hysteria, one that leaves from this box. *)
(***************************************************************************)
EXTENDS Slots

CONSTANTS Clients,    \* goroutines that serve the RPCs
          Names,      \* of entries, numbers in ListEntries' order
          SubNames,   \* of subscriptions
          InNames,    \* of inbounds
          MaxId,      \* bound: entries ever created
          MaxCalls,   \* bound: calls
          MaxRefs,    \* bound: references in a dialer
          Stores,     \* what may be stored, and exported, at first
          NoBackup

ASSUME EntriesAssumption ==
  /\ Names \subseteq Nat /\ MaxId \in Nat /\ MaxCalls \in Nat /\ MaxRefs \in Nat

Kinds == {"tunnel", "hysteria", "freedom"}
XrayRef(n) == <<"xray", n>>
SubRef(s) == <<"xraysub", s>>
Refs == {XrayRef(n) : n \in Names} \cup {SubRef(s) : s \in SubNames}
Dialers == {d \in SUBSET Refs : Cardinality(d) <= MaxRefs}
Direct == <<"direct", 0>>
Targets == {Direct} \cup ({"master", "xray"} \X Names)
Row == [name : Names, dialer : Dialers, kind : Kinds, mux : BOOLEAN]
Sub == [name : SubNames, enabled : BOOLEAN]

\* Names are a unique index of the table; no row has been deleted yet.
ASSUME StoresAssumption == \A s \in Stores :
  /\ IsFiniteSet(DOMAIN s.entries) /\ DOMAIN s.entries = 1 .. Cardinality(DOMAIN s.entries)
  /\ \A id \in DOMAIN s.entries : s.entries[id] \in Row
  /\ \A id, other \in DOMAIN s.entries : s.entries[id].name = s.entries[other].name => id = other
  /\ \A i \in DOMAIN s.inbounds : s.inbounds[i] \in Targets
  /\ s.backup # NoBackup => s.backup.rows \subseteq Row /\ \A i \in DOMAIN s.backup.ins : s.backup.ins[i] \in Targets

VARIABLES
  entries,      \* table xray_entries, by id
  nextId,       \* ids are not used twice
  inbounds,     \* table inbounds: the target of each
  subs,         \* table subscriptions: a set of rows
  slotIdx,      \* Supervisor.slotIdx, by DialerGroupKey: the references
  call,         \* the call each client is in
  backup,       \* the file an export has written
  calls,        \* calls so far
  \* What the properties remember.
  dirty,        \* something was written since the last reconcile read it all
  cutShort,     \* and one that wrote ended in an error, without a reconcile
  undisturbed   \* no other call wrote, reconciled or moved pools since this client's began

tables == <<entries, nextId, inbounds, subs>>
history == <<dirty, cutShort, undisturbed>>
entriesVars == <<tables, slotIdx, call, backup, calls, history>>

Idle == [op |-> "idle", at |-> "idle"]

\* What the tables hold, by name.
IsMaster(row) == row.dialer # {}
Named(n) == {id \in DOMAIN entries : entries[id].name = n}
EntryNames == {entries[id].name : id \in DOMAIN entries}
StoredSubs == {s.name : s \in subs}

\* CheckMasterOutbound, CheckMemberOutbound and, roughly, MuxSupport.
MasterAllowed(row) == IsMaster(row) => row.kind # "hysteria"
MemberAllowed(row) == row.kind # "freedom"
MuxAllowed(row) == row.kind = "tunnel"

(***************************************************************************)
(* DetectDialerCycle: succ[n] are the entries n's dialer names.  Walking   *)
(* from n comes back to a name it is at, when in whatever set of names     *)
(* holds n and what they name, some names name each other.                 *)
(***************************************************************************)
CycleFrom(succ, n) ==
  \A S \in SUBSET Names :
    n \in S /\ (\A m \in S : succ[m] \subseteq S) =>
      \E ring \in (SUBSET S) \ {{}} : \A m \in ring : succ[m] \cap ring # {}
Next1(dialer) == {n \in Names : XrayRef(n) \in dialer}

\* Mutant of DialerOf: the other entries' new dialers are not looked at.
DialerOfStored(n, proposed) ==
  IF Named(n) = {} THEN {} ELSE entries[CHOOSE id \in Named(n) : TRUE].dialer

DialerOf(n, proposed) ==
  IF n \in DOMAIN proposed THEN proposed[n]
  ELSE IF Named(n) = {} THEN {} ELSE entries[CHOOSE id \in Named(n) : TRUE].dialer

\* The pools of the masters; an entry is known by its name.
StoredDialers == [n \in EntryNames |-> DialerOf(n, <<>>)]
Pools == PoolsByMaster({n \in EntryNames : StoredDialers[n] # {}}, StoredDialers)

\* validateDialerWith: what it names is there and tunnels, and no cycle.
DialerAllowed(n, dialer, proposed) ==
  /\ \A m \in Next1(dialer) : \E id \in Named(m) : MemberAllowed(entries[id])
  /\ \A s \in SubNames : SubRef(s) \in dialer => s \in StoredSubs
  /\ ~CycleFrom([m \in Names |-> Next1(IF m = n THEN dialer ELSE DialerOf(m, proposed))], n)

\* checkTarget.
TargetAllowed(t) ==
  t # Direct => \E id \in Named(t[2]) : t[1] = "master" => IsMaster(entries[id])

(***************************************************************************)
(* The shape of a call.                                                    *)
(***************************************************************************)
Free(c) == call[c] = Idle /\ calls < MaxCalls

Begin(c, r) ==
  /\ calls' = calls + 1
  /\ call' = [call EXCEPT ![c] = r]
  /\ undisturbed' = [undisturbed EXCEPT ![c] = TRUE]

Disturb(c) == undisturbed' = [d \in Clients |-> d = c /\ undisturbed[c]]

\* A commit of c's call, which goes on at the place named.
Committed(c, at) ==
  /\ call' = [call EXCEPT ![c].at = at]
  /\ dirty' = TRUE
  /\ Disturb(c)
  /\ UNCHANGED <<slotIdx, backup, calls, cutShort>>

\* A call that commits at once: nothing is read before.
CommitAtOnce(c, op) ==
  /\ calls' = calls + 1
  /\ call' = [call EXCEPT ![c] = [op |-> op, at |-> "reconcile"]]
  /\ dirty' = TRUE
  /\ undisturbed' = [d \in Clients |-> d = c]
  /\ UNCHANGED <<slotIdx, backup, cutShort>>

\* The store refuses: the name is taken, or there is no such row.
Refused(c) ==
  /\ call' = [call EXCEPT ![c] = Idle]
  /\ UNCHANGED <<tables, slotIdx, backup, calls, history>>

At(c, ops, at) == call[c].op \in ops /\ call[c].at = at
Only(unchanged) == UNCHANGED <<unchanged, slotIdx, backup, dirty, cutShort>>

(***************************************************************************)
(* Entries: EntryAdd, EntryDuplicate, EntryRemove.                         *)
(***************************************************************************)
EntryAdd(c) == Free(c) /\ \E row \in [name : Names, dialer : Dialers, kind : Kinds, mux : {FALSE}] :
  /\ DialerAllowed(row.name, row.dialer, <<>>) /\ MasterAllowed(row)
  /\ Begin(c, [op |-> "add", at |-> "write", row |-> row])
  /\ Only(tables)

EntryDuplicate(c) == Free(c) /\ \E id \in DOMAIN entries, n \in Names :
  /\ Begin(c, [op |-> "duplicate", at |-> "write", row |-> [entries[id] EXCEPT !.name = n]])
  /\ Only(tables)

Taken(n, id) == Named(n) \ {id} # {}
Stored(f, id, row) == [i \in DOMAIN f \cup {id} |-> IF i = id THEN row ELSE f[i]]
Without(f, id) == [i \in DOMAIN f \ {id} |-> f[i]]

CreateEntry(c) ==
  /\ At(c, {"add", "duplicate"}, "write")
  /\ IF Named(call[c].row.name) # {} THEN Refused(c)
     ELSE /\ nextId <= MaxId
          /\ entries' = Stored(entries, nextId, call[c].row)
          /\ nextId' = nextId + 1
          /\ UNCHANGED <<inbounds, subs>>
          /\ Committed(c, "reconcile")

EntryRemove(c) == Free(c) /\ \E id \in DOMAIN entries :
  /\ entries' = Without(entries, id)
  /\ UNCHANGED <<nextId, inbounds, subs>>
  /\ CommitAtOnce(c, "remove")

(***************************************************************************)
(* EntrySetMux and EntrySetConfig read the row and save all of it.         *)
(***************************************************************************)
EntrySetMux(c) == Free(c) /\ \E id \in DOMAIN entries, on \in BOOLEAN :
  /\ on => MuxAllowed(entries[id])
  /\ Begin(c, [op |-> "mux", at |-> "write", id |-> id, row |-> [entries[id] EXCEPT !.mux = on]])
  /\ Only(tables)

EntrySetConfig(c) == Free(c) /\ \E id \in DOMAIN entries, k \in Kinds :
  /\ MasterAllowed([entries[id] EXCEPT !.kind = k])
  /\ Begin(c, [op |-> "config", at |-> "write", id |-> id, row |-> [entries[id] EXCEPT !.kind = k]])
  /\ Only(tables)

\* UpdateEntry: a row deleted meanwhile is inserted again.
UpdateEntry(c) ==
  /\ At(c, {"mux", "config"}, "write")
  /\ IF Taken(call[c].row.name, call[c].id) THEN Refused(c)
     ELSE /\ entries' = Stored(entries, call[c].id, call[c].row)
          /\ UNCHANGED <<nextId, inbounds, subs>>
          /\ Committed(c, "reconcile")

(***************************************************************************)
(* EntryBulkDialer (EntrySetDialer is one of one item): every change is    *)
(* checked against the others, then all are written in one transaction.    *)
(***************************************************************************)
Proposed(set) == [n \in {entries[id].name : id \in DOMAIN set} |-> set[CHOOSE id \in DOMAIN set : entries[id].name = n]]

ChangeAllowed(id, dialer, proposed) ==
  /\ DialerAllowed(entries[id].name, dialer, proposed)
  /\ MasterAllowed([entries[id] EXCEPT !.dialer = dialer])
  /\ dialer = {} => \A i \in DOMAIN inbounds : inbounds[i] # <<"master", entries[id].name>>

\* An item that names the dialer an entry has changes nothing.
EntryBulkDialer(c) == Free(c) /\ \E ids \in (SUBSET DOMAIN entries) \ {{}} : \E set \in [ids -> Dialers] :
  /\ \A id \in ids : set[id] # entries[id].dialer
  /\ LET proposed == Proposed(set)
     IN  \A id \in ids : ChangeAllowed(id, set[id], proposed)
  /\ Begin(c, [op |-> "dialer", at |-> "write", set |-> set])
  /\ Only(tables)

SetEntryDialers(c) ==
  /\ At(c, {"dialer"}, "write")
  /\ entries' = [id \in DOMAIN entries |->
       IF id \in DOMAIN call[c].set THEN [entries[id] EXCEPT !.dialer = call[c].set[id]] ELSE entries[id]]
  /\ UNCHANGED <<nextId, inbounds, subs>>
  /\ Committed(c, "reconcile")

(***************************************************************************)
(* EntryRename and SubRename: the store renames and cascades in one        *)
(* transaction, then RenamedRef moves what the daemon keeps by that name.  *)
(***************************************************************************)
\* What slotIdx holds is what a reconcile has made of the tables as they are:
\* no write, and no rename has moved it that has still to reconcile.
AsReconciled == ~dirty /\ \A c \in Clients : ~At(c, {"rename", "subrename"}, "reconcile")

\* slots, of a rename: what the properties remember of it - the slots the
\* masters had, when slotIdx was as reconciled.
SlotsNow ==
  [id \in {i \in DOMAIN entries : AsReconciled /\ entries[i].dialer \in DOMAIN slotIdx} |-> slotIdx[entries[id].dialer]]

RenameRef(dialer, old, new) == {IF r = old THEN new ELSE r : r \in dialer}

\* Mutant of RenameTarget: only xray: targets follow a rename.
RenameTargetPlain(t, old, new) == IF t = <<"xray", old>> THEN <<"xray", new>> ELSE t

RenameTarget(t, old, new) == IF t[1] # "direct" /\ t[2] = old THEN <<t[1], new>> ELSE t

EntryRename(c) == Free(c) /\ \E id \in DOMAIN entries, n \in Names :
  /\ Begin(c, [op |-> "rename", at |-> "write", id |-> id,
               old |-> XrayRef(entries[id].name), new |-> XrayRef(n), slots |-> SlotsNow])
  /\ Only(tables)

SubRename(c) == Free(c) /\ \E s \in StoredSubs, n \in SubNames :
  /\ Begin(c, [op |-> "subrename", at |-> "write",
               old |-> SubRef(s), new |-> SubRef(n), slots |-> SlotsNow])
  /\ Only(tables)

Cascade(rows, old, new) ==
  [id \in DOMAIN rows |-> [rows[id] EXCEPT !.dialer = RenameRef(@, old, new)]]

\* RenameEntry: the name it replaces is read in the transaction.
RenameEntry(c) ==
  LET id == call[c].id
      n == call[c].new[2]
      old == entries[id].name
  IN  /\ At(c, {"rename"}, "write")
      /\ IF id \notin DOMAIN entries THEN Refused(c)
         ELSE IF Taken(n, id) THEN Refused(c)
         ELSE /\ entries' = Cascade([entries EXCEPT ![id].name = n], XrayRef(old), XrayRef(n))
              /\ inbounds' = [i \in DOMAIN inbounds |-> RenameTarget(inbounds[i], old, n)]
              /\ UNCHANGED <<nextId, subs>>
              /\ Committed(c, "renamed")

RenameSubscription(c) ==
  LET old == call[c].old[2]
      n == call[c].new[2]
  IN  /\ At(c, {"subrename"}, "write")
      /\ IF old \notin StoredSubs \/ n \in StoredSubs \ {old} THEN Refused(c)
         ELSE /\ subs' = {IF s.name = old THEN [s EXCEPT !.name = n] ELSE s : s \in subs}
              /\ entries' = Cascade(entries, SubRef(old), SubRef(n))
              /\ UNCHANGED <<nextId, inbounds>>
              /\ Committed(c, "renamed")

\* Mutant of Rekeyed: the pools keep the keys they had.
RekeyedNot(idx, old, new) == {idx}

\* Rekeyed, of RenamedRef: two pools that get one key leave either's slot.
Rekeyed(idx, old, new) ==
  LET keys == {RenameRef(p, old, new) : p \in DOMAIN idx}
  IN  {f \in [keys -> 0 .. SlotCount - 1] :
         \A k \in keys : \E p \in DOMAIN idx : RenameRef(p, old, new) = k /\ f[k] = idx[p]}

\* Mutant of RenamedRef: the handler ends with it.
RenamedRefLast(c) ==
  /\ At(c, {"rename", "subrename"}, "renamed")
  /\ slotIdx' \in Rekeyed(slotIdx, call[c].old, call[c].new)
  /\ call' = [call EXCEPT ![c] = Idle]
  /\ Disturb(c)
  /\ UNCHANGED <<tables, backup, calls, dirty, cutShort>>

RenamedRef(c) ==
  /\ At(c, {"rename", "subrename"}, "renamed")
  /\ slotIdx' \in Rekeyed(slotIdx, call[c].old, call[c].new)
  /\ call' = [call EXCEPT ![c].at = "reconcile"]
  /\ Disturb(c)
  /\ UNCHANGED <<tables, backup, calls, dirty, cutShort>>

(***************************************************************************)
(* Inbounds; InboundSetConfig sets a target as InboundSetTarget does.      *)
(* Subscriptions, where names are about them: the rest is in SubStore.     *)
(***************************************************************************)
InboundAdd(c) == Free(c) /\ \E i \in InNames, t \in Targets :
  /\ TargetAllowed(t)
  /\ Begin(c, [op |-> "inbound", at |-> "write", in |-> i, target |-> t])
  /\ Only(tables)

\* The copy's target is that of its source, unchecked.
InboundDuplicate(c) == Free(c) /\ \E i \in DOMAIN inbounds, j \in InNames :
  /\ Begin(c, [op |-> "inbound", at |-> "write", in |-> j, target |-> inbounds[i]])
  /\ Only(tables)

InboundSetTarget(c) == Free(c) /\ \E i \in DOMAIN inbounds, t \in Targets :
  /\ TargetAllowed(t)
  /\ Begin(c, [op |-> "target", at |-> "write", in |-> i, target |-> t])
  /\ Only(tables)

CreateInbound(c) ==
  /\ At(c, {"inbound"}, "write")
  /\ IF call[c].in \in DOMAIN inbounds THEN Refused(c)
     ELSE /\ inbounds' = Stored(inbounds, call[c].in, call[c].target)
          /\ UNCHANGED <<entries, nextId, subs>>
          /\ Committed(c, "reconcile")

\* UpdateInbound: a row deleted meanwhile is inserted again.
UpdateInbound(c) ==
  /\ At(c, {"target"}, "write")
  /\ inbounds' = Stored(inbounds, call[c].in, call[c].target)
  /\ UNCHANGED <<entries, nextId, subs>>
  /\ Committed(c, "reconcile")

InboundRemove(c) == Free(c) /\ \E i \in DOMAIN inbounds :
  /\ inbounds' = Without(inbounds, i)
  /\ UNCHANGED <<entries, nextId, subs>>
  /\ CommitAtOnce(c, "remove")

SubRemove(c) == Free(c) /\ \E s \in subs :
  /\ subs' = subs \ {s}
  /\ UNCHANGED <<entries, nextId, inbounds>>
  /\ CommitAtOnce(c, "remove")

SubSetEnabled(c) == Free(c) /\ \E s \in subs, on \in BOOLEAN :
  /\ subs' = (subs \ {s}) \cup {[s EXCEPT !.enabled = on]}
  /\ UNCHANGED <<entries, nextId, inbounds>>
  /\ CommitAtOnce(c, "enable")

(***************************************************************************)
(* ExportConfig and ImportConfig.                                          *)
(***************************************************************************)
\* The inbounds are read before the rest.
ExportInbounds(c) ==
  /\ Free(c)
  /\ Begin(c, [op |-> "export", at |-> "export", ins |-> inbounds])
  /\ Only(tables)

ExportRest(c) ==
  /\ At(c, {"export"}, "export")
  /\ backup' = [ins |-> call[c].ins, rows |-> {entries[id] : id \in DOMAIN entries}, subs |-> subs]
  /\ call' = [call EXCEPT ![c] = Idle]
  /\ UNCHANGED <<tables, slotIdx, calls, history>>

\* What an import creates, a table after the other, the rows as the file lists them.
ToCreate(b) ==
  {<<"inbound", <<i, b.ins[i]>>>> : i \in DOMAIN b.ins}
    \cup {<<"entry", row>> : row \in b.rows} \cup {<<"sub", s>> : s \in b.subs}
MayBeNext(todo) ==
  LET of(table) == {row \in todo : row[1] = table}
  IN  CASE of("inbound") # {} -> of("inbound")
        [] of("inbound") = {} /\ of("entry") # {} -> of("entry")
        [] OTHER -> of("sub")

ImportConfig(c) == Free(c) /\ \E replace \in BOOLEAN :
  /\ backup # NoBackup
  /\ \A row \in backup.rows : MasterAllowed(row)
  /\ Begin(c, [op |-> "import", at |-> IF replace THEN "wipe" ELSE "create", replace |-> replace,
               of |-> backup, todo |-> ToCreate(backup)])
  /\ Only(tables)

DeleteAllConfig(c) ==
  /\ At(c, {"import"}, "wipe")
  /\ entries' = <<>> /\ inbounds' = <<>> /\ subs' = {}
  /\ UNCHANGED nextId
  /\ Committed(c, "create")

Exists(table, x) ==
  CASE table = "inbound" -> x[1] \in DOMAIN inbounds
    [] table = "entry" -> Named(x.name) # {}
    [] table = "sub" -> x.name \in StoredSubs

\* gorm leaves a false Enabled to the column's default, which is true.
RestoredSub(s) == [s EXCEPT !.enabled = TRUE]

CreateRow(c) == At(c, {"import"}, "create") /\ \E row \in MayBeNext(call[c].todo) :
  LET table == row[1]
      x == row[2]
  IN  /\ ~Exists(table, x)
      /\ entries' = IF table = "entry" THEN Stored(entries, nextId, x) ELSE entries
      /\ nextId' = IF table = "entry" THEN nextId + 1 ELSE nextId
      /\ inbounds' = IF table = "inbound" THEN Stored(inbounds, x[1], x[2]) ELSE inbounds
      /\ subs' = IF table = "sub" THEN subs \cup {RestoredSub(x)} ELSE subs
      /\ call' = [call EXCEPT ![c].todo = @ \ {row}]
      /\ dirty' = TRUE
      /\ Disturb(c)
      /\ UNCHANGED <<slotIdx, backup, calls, cutShort>>

SkipRow(c) == At(c, {"import"}, "create") /\ \E row \in MayBeNext(call[c].todo) :
  /\ ~call[c].replace /\ Exists(row[1], row[2])
  /\ call' = [call EXCEPT ![c].todo = @ \ {row}]
  /\ UNCHANGED <<tables, slotIdx, backup, calls, history>>

\* A row is refused: the import ends, and what it did stays.
ImportFails(c) ==
  /\ At(c, {"import"}, "create") /\ call[c].todo # {}
  /\ call' = [call EXCEPT ![c] = Idle]
  /\ cutShort' = TRUE
  /\ UNCHANGED <<tables, slotIdx, backup, calls, dirty, undisturbed>>

ImportDone(c) ==
  /\ At(c, {"import"}, "create") /\ call[c].todo = {}
  /\ call' = [call EXCEPT ![c].at = "reconcile"]
  /\ UNCHANGED <<tables, slotIdx, backup, calls, history>>

(***************************************************************************)
(* Reconcile, under Supervisor.mu: it reads the tables and numbers the     *)
(* pools.  SyncDialerMembers is the same.                                  *)
(***************************************************************************)
Reconcile(c) ==
  /\ call[c].at = "reconcile"
  /\ slotIdx' = AssignSlotIndices(slotIdx, Pools)
  /\ call' = [call EXCEPT ![c] = Idle]
  /\ dirty' = FALSE /\ cutShort' = FALSE
  /\ Disturb(c)
  /\ UNCHANGED <<tables, backup, calls>>

Init ==
  /\ \E s \in Stores :
       /\ entries = s.entries /\ inbounds = s.inbounds /\ subs = s.subs
       /\ nextId = Cardinality(DOMAIN s.entries) + 1
       /\ backup = s.backup
  /\ slotIdx = AssignSlotIndices(<<>>, Pools)
  /\ call = [c \in Clients |-> Idle]
  /\ calls = 0
  /\ dirty = FALSE /\ cutShort = FALSE
  /\ undisturbed = [c \in Clients |-> TRUE]

EntryCall(c) ==
  \/ EntryAdd(c) \/ EntryDuplicate(c) \/ CreateEntry(c) \/ EntryRemove(c)
  \/ EntrySetMux(c) \/ EntrySetConfig(c) \/ UpdateEntry(c)
  \/ EntryBulkDialer(c) \/ SetEntryDialers(c)
RenameCall(c) ==
  \/ EntryRename(c) \/ SubRename(c) \/ RenameEntry(c) \/ RenameSubscription(c) \/ RenamedRef(c)
InboundCall(c) ==
  \/ InboundAdd(c) \/ InboundDuplicate(c) \/ InboundSetTarget(c)
  \/ CreateInbound(c) \/ UpdateInbound(c) \/ InboundRemove(c)
SubCall(c) == SubRemove(c) \/ SubSetEnabled(c)
BackupCall(c) ==
  \/ ExportInbounds(c) \/ ExportRest(c)
  \/ ImportConfig(c) \/ DeleteAllConfig(c) \/ CreateRow(c) \/ SkipRow(c) \/ ImportFails(c) \/ ImportDone(c)

Next == \E c \in Clients :
  EntryCall(c) \/ RenameCall(c) \/ InboundCall(c) \/ SubCall(c) \/ BackupCall(c) \/ Reconcile(c)

Spec == Init /\ [][Next]_entriesVars

EntriesTypeOK ==
  /\ DOMAIN entries \subseteq 1 .. (nextId - 1)
  /\ \A id \in DOMAIN entries : entries[id] \in Row
  /\ nextId \in Nat
  /\ DOMAIN inbounds \subseteq InNames /\ \A i \in DOMAIN inbounds : inbounds[i] \in Targets
  /\ subs \subseteq Sub
  /\ \A p \in DOMAIN slotIdx : p \in Dialers /\ slotIdx[p] \in 0 .. SlotCount - 1
  /\ \A c \in Clients : call[c].at \in {"idle", "write", "renamed", "export", "wipe", "create", "reconcile"}
  /\ calls \in 0 .. MaxCalls
  /\ dirty \in BOOLEAN /\ cutShort \in BOOLEAN /\ undisturbed \in [Clients -> BOOLEAN]

(***************************************************************************)
(* Every handler that writes reconciles afterwards, whoever runs in        *)
(* between: when no call is under way the last reconcile has read all that *)
(* is stored.  The one exception is an import that ends in an error: it    *)
(* has wiped or created rows, and returns without a reconcile.             *)
(***************************************************************************)
QuietIsReconciled ==
  (\A c \in Clients : call[c] = Idle) => (~dirty \/ cutShort)

\* What the checks of the handlers are there to keep: nothing dangles, no
\* master dials through itself or ignores its dialer, and a master: target
\* names a master.
Sound ==
  /\ \A id \in DOMAIN entries :
       /\ MasterAllowed(entries[id])
       /\ Next1(entries[id].dialer) \subseteq EntryNames
       /\ \A s \in SubNames : SubRef(s) \in entries[id].dialer => s \in StoredSubs
       /\ ~CycleFrom([n \in Names |-> Next1(DialerOf(n, <<>>))], entries[id].name)
  /\ \A i \in DOMAIN inbounds : TargetAllowed(inbounds[i])

\* The calls that check what they are about to do; a removal does not.
Checked == {"add", "duplicate", "mux", "config", "dialer", "rename", "subrename", "target", "inbound"}

(***************************************************************************)
(* A call whose checks nobody has overtaken leaves the store sound:        *)
(* dialers set together are checked together, a rename takes every         *)
(* reference and target along, a duplicate or an edit brings nothing in    *)
(* that the checks of the others keep out.                                 *)
(***************************************************************************)
CheckedKeepsSound ==
  [][\A c \in Clients :
       call[c].op \in Checked /\ call[c].at = "write" /\ call'[c] # call[c] /\ undisturbed[c] /\ Sound => Sound']_entriesVars

\* The entries a dialer or a target leads to, by id.
DialsInto(id) == UNION {Named(n) : n \in Next1(entries[id].dialer)}
EgressOf(i) == IF inbounds[i] = Direct THEN {} ELSE Named(inbounds[i][2])

(***************************************************************************)
(* A rename moves no traffic, even in the middle of other calls and of     *)
(* what they left dangling: every entry dials through the entries it       *)
(* dialed through, every inbound leaves through the entry it left through. *)
(***************************************************************************)
MovesNothing ==
  /\ \A id \in DOMAIN entries : id \in DOMAIN entries' /\ DialsInto(id) \subseteq DialsInto(id)'
  /\ \A i \in DOMAIN inbounds : i \in DOMAIN inbounds' /\ EgressOf(i) \subseteq EgressOf(i)'
RenameWrites(c) == At(c, {"rename", "subrename"}, "write") /\ call'[c] # call[c]
RenameMovesNothing == [][\A c \in Clients : RenameWrites(c) => MovesNothing]_entriesVars

(***************************************************************************)
(* A rename that nobody overtakes keeps every pool in its slot, so that    *)
(* neither its ranking nor its members' parking starts over: once the      *)
(* rename's own reconcile is done, a master is in the slot it was in when  *)
(* the rename was asked for, or in that of a master whose pool is now the  *)
(* same as its own.                                                        *)
(***************************************************************************)
RenameKeepsSlots ==
  [][\A c \in Clients :
       At(c, {"rename", "subrename"}, "reconcile") /\ call'[c] = Idle /\ undisturbed[c] =>
         \A id \in DOMAIN call[c].slots :
           LET pool == entries[id].dialer
           IN  /\ pool \in DOMAIN slotIdx'
               /\ slotIdx'[pool] \in {call[c].slots[j] : j \in {i \in DOMAIN call[c].slots : entries[i].dialer = pool}}]_entriesVars
=============================================================================
