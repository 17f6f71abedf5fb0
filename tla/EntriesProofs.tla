---------------------------- MODULE EntriesProofs ----------------------------
(***************************************************************************)
(* What TLAPS proves of the calls on entries and inbounds, for any number  *)
(* of clients, names and calls: once no call is under way the last         *)
(* reconcile has read all that is stored, but for an import cut short; a   *)
(* rename moves no traffic; a call whose checks nobody has overtaken       *)
(* leaves the tables sound, and a rename nobody has overtaken keeps every  *)
(* pool in its slot.                                                       *)
(***************************************************************************)
EXTENDS Entries, Lemmas

\* The places in a call that lead to a reconcile.
Owing == {"reconcile", "renamed", "create"}

(* Whoever has written since the last reconcile is one that still owes one, *)
(* or was an import that ended in an error.                                 *)
OwesReconcile ==
  /\ DOMAIN call = Clients
  /\ \A c \in Clients : "at" \in DOMAIN call[c]
  /\ dirty => cutShort \/ \E c \in Clients : call[c].at \in Owing

(* A call begins, or goes on, and writes nothing. *)
LEMMA OwesKept ==
  ASSUME OwesReconcile, NEW c \in Clients, NEW r, call' = [call EXCEPT ![c] = r], "at" \in DOMAIN r,
         call[c].at \in Owing => r.at \in Owing, UNCHANGED <<dirty, cutShort>>
  PROVE  OwesReconcile'
<1>1. \A d \in Clients : call'[d] = IF d = c THEN r ELSE call[d]
  BY DEF OwesReconcile
<1>2. DOMAIN call' = Clients
  BY DEF OwesReconcile
<1>3. QED
  BY <1>1, <1>2 DEF OwesReconcile

(* What writes owes. *)
LEMMA OwesCommit ==
  ASSUME OwesReconcile, NEW c \in Clients, NEW r, call' = [call EXCEPT ![c] = r], "at" \in DOMAIN r,
         r.at \in Owing
  PROVE  OwesReconcile'
<1>1. \A d \in Clients : call'[d] = IF d = c THEN r ELSE call[d]
  BY DEF OwesReconcile
<1>2. DOMAIN call' = Clients
  BY DEF OwesReconcile
<1>3. QED
  BY <1>1, <1>2 DEF OwesReconcile

LEMMA OwesStep ==
  ASSUME OwesReconcile, [Next]_entriesVars
  PROVE  OwesReconcile'
<1> USE DEF tables, history
<1>1. ASSUME NEW c \in Clients, NEW at, at \in Owing, Committed(c, at)
      PROVE  OwesReconcile'
  <2>1. call' = [call EXCEPT ![c] = [call[c] EXCEPT !.at = at]]
    BY <1>1 DEF Committed
  <2>2. "at" \in DOMAIN [call[c] EXCEPT !.at = at] /\ [call[c] EXCEPT !.at = at].at = at
    BY DEF OwesReconcile
  <2>3. QED
    BY <1>1, <2>1, <2>2, OwesCommit
<1>2. ASSUME NEW c \in Clients, NEW op, CommitAtOnce(c, op)
      PROVE  OwesReconcile'
  <2>1. call' = [call EXCEPT ![c] = [op |-> op, at |-> "reconcile"]]
    BY <1>2 DEF CommitAtOnce
  <2>2. "at" \in DOMAIN [op |-> op, at |-> "reconcile"] /\ [op |-> op, at |-> "reconcile"].at \in Owing
    BY DEF Owing
  <2>3. QED
    BY <2>1, <2>2, OwesCommit
<1>3. ASSUME NEW c \in Clients, NEW r, Begin(c, r), call[c] = Idle, "at" \in DOMAIN r, UNCHANGED <<dirty, cutShort>>
      PROVE  OwesReconcile'
  <2>1. call[c].at \notin Owing /\ call' = [call EXCEPT ![c] = r]
    BY <1>3 DEF Idle, Owing, Begin
  <2>2. QED
    BY <1>3, <2>1, OwesKept
<1>4. ASSUME NEW c \in Clients, Refused(c), call[c].at \notin Owing
      PROVE  OwesReconcile'
  <2>1. call' = [call EXCEPT ![c] = Idle] /\ UNCHANGED <<dirty, cutShort>> /\ "at" \in DOMAIN Idle
    BY <1>4 DEF Refused, Idle
  <2>2. QED
    BY <1>4, <2>1, OwesKept
\* The halves that read and check.
<1>5. ASSUME NEW c \in Clients,
             \/ EntryAdd(c) \/ EntryDuplicate(c) \/ EntrySetMux(c) \/ EntrySetConfig(c) \/ EntryBulkDialer(c)
             \/ EntryRename(c) \/ SubRename(c) \/ InboundAdd(c) \/ InboundDuplicate(c) \/ InboundSetTarget(c)
             \/ ExportInbounds(c) \/ ImportConfig(c)
      PROVE  OwesReconcile'
  <2>1. call[c] = Idle /\ UNCHANGED <<dirty, cutShort>>
    BY <1>5 DEF EntryAdd, EntryDuplicate, EntrySetMux, EntrySetConfig, EntryBulkDialer, EntryRename, SubRename,
                InboundAdd, InboundDuplicate, InboundSetTarget, ExportInbounds, ImportConfig, Free, Only
  <2>2. CASE EntryAdd(c)
    <3>1. PICK row \in [name : Names, dialer : Dialers, kind : Kinds, mux : {FALSE}] :
            Begin(c, [op |-> "add", at |-> "write", row |-> row])
      BY <2>2 DEF EntryAdd
    <3>2. QED
      BY <1>3, <2>1, <3>1
  <2>3. CASE EntryDuplicate(c)
    <3>1. PICK id \in DOMAIN entries, n \in Names :
            Begin(c, [op |-> "duplicate", at |-> "write", row |-> [entries[id] EXCEPT !.name = n]])
      BY <2>3 DEF EntryDuplicate
    <3>2. QED
      BY <1>3, <2>1, <3>1
  <2>4. CASE EntrySetMux(c)
    <3>1. PICK id \in DOMAIN entries, on \in BOOLEAN :
            Begin(c, [op |-> "mux", at |-> "write", id |-> id, row |-> [entries[id] EXCEPT !.mux = on]])
      BY <2>4 DEF EntrySetMux
    <3>2. QED
      BY <1>3, <2>1, <3>1
  <2>5. CASE EntrySetConfig(c)
    <3>1. PICK id \in DOMAIN entries, k \in Kinds :
            Begin(c, [op |-> "config", at |-> "write", id |-> id, row |-> [entries[id] EXCEPT !.kind = k]])
      BY <2>5 DEF EntrySetConfig
    <3>2. QED
      BY <1>3, <2>1, <3>1
  <2>6. CASE EntryBulkDialer(c)
    <3>1. PICK ids \in (SUBSET DOMAIN entries) \ {{}} : \E set \in [ids -> Dialers] :
            Begin(c, [op |-> "dialer", at |-> "write", set |-> set])
      BY <2>6 DEF EntryBulkDialer
    <3>2. PICK set \in [ids -> Dialers] : Begin(c, [op |-> "dialer", at |-> "write", set |-> set])
      BY <3>1
    <3>3. QED
      BY <1>3, <2>1, <3>2
  <2>7. CASE EntryRename(c)
    <3>1. PICK id \in DOMAIN entries, n \in Names :
            Begin(c, [op |-> "rename", at |-> "write", id |-> id, old |-> XrayRef(entries[id].name), new |-> XrayRef(n), slots |-> SlotsNow])
      BY <2>7 DEF EntryRename
    <3>2. QED
      BY <1>3, <2>1, <3>1
  <2>8. CASE SubRename(c)
    <3>1. PICK s \in StoredSubs, n \in SubNames :
            Begin(c, [op |-> "subrename", at |-> "write", old |-> SubRef(s), new |-> SubRef(n), slots |-> SlotsNow])
      BY <2>8 DEF SubRename
    <3>2. QED
      BY <1>3, <2>1, <3>1
  <2>9. CASE InboundAdd(c)
    <3>1. PICK i \in InNames, t \in Targets :
            Begin(c, [op |-> "inbound", at |-> "write", in |-> i, target |-> t])
      BY <2>9 DEF InboundAdd
    <3>2. QED
      BY <1>3, <2>1, <3>1
  <2>10. CASE InboundDuplicate(c)
    <3>1. PICK i \in DOMAIN inbounds, j \in InNames :
            Begin(c, [op |-> "inbound", at |-> "write", in |-> j, target |-> inbounds[i]])
      BY <2>10 DEF InboundDuplicate
    <3>2. QED
      BY <1>3, <2>1, <3>1
  <2>11. CASE InboundSetTarget(c)
    <3>1. PICK i \in DOMAIN inbounds, t \in Targets :
            Begin(c, [op |-> "target", at |-> "write", in |-> i, target |-> t])
      BY <2>11 DEF InboundSetTarget
    <3>2. QED
      BY <1>3, <2>1, <3>1
  <2>12. CASE ExportInbounds(c)
    <3>1. Begin(c, [op |-> "export", at |-> "export", ins |-> inbounds])
      BY <2>12 DEF ExportInbounds
    <3>2. QED
      BY <1>3, <2>1, <3>1
  <2>13. CASE ImportConfig(c)
    <3>1. PICK replace \in BOOLEAN :
            Begin(c, [op |-> "import", at |-> IF replace THEN "wipe" ELSE "create", replace |-> replace, of |-> backup, todo |-> ToCreate(backup)])
      BY <2>13 DEF ImportConfig
    <3>2. QED
      BY <1>3, <2>1, <3>1
  <2>14. QED
    BY <1>5, <2>2, <2>3, <2>4, <2>5, <2>6, <2>7, <2>8, <2>9, <2>10, <2>11, <2>12, <2>13
\* The halves that write, or are refused.
<1>6. ASSUME NEW c \in Clients, CreateEntry(c) \/ UpdateEntry(c) \/ CreateInbound(c)
      PROVE  OwesReconcile'
  <2>1. call[c].at \notin Owing
    BY <1>6 DEF CreateEntry, UpdateEntry, CreateInbound, At, Owing
  <2>2. Refused(c) \/ Committed(c, "reconcile")
    BY <1>6 DEF CreateEntry, UpdateEntry, CreateInbound
  <2>3. QED
    BY <1>1, <1>4, <2>1, <2>2 DEF Owing
<1>7. ASSUME NEW c \in Clients, RenameEntry(c) \/ RenameSubscription(c)
      PROVE  OwesReconcile'
  <2>1. call[c].at \notin Owing
    BY <1>7 DEF RenameEntry, RenameSubscription, At, Owing
  <2>2. Refused(c) \/ Committed(c, "renamed")
    BY <1>7 DEF RenameEntry, RenameSubscription
  <2>3. QED
    BY <1>1, <1>4, <2>1, <2>2 DEF Owing
<1>8. ASSUME NEW c \in Clients, SetEntryDialers(c) \/ UpdateInbound(c) \/ DeleteAllConfig(c)
      PROVE  OwesReconcile'
  BY <1>1, <1>8 DEF SetEntryDialers, UpdateInbound, DeleteAllConfig, Owing
<1>9. ASSUME NEW c \in Clients, EntryRemove(c) \/ InboundRemove(c) \/ SubRemove(c) \/ SubSetEnabled(c)
      PROVE  OwesReconcile'
  BY <1>2, <1>9 DEF EntryRemove, InboundRemove, SubRemove, SubSetEnabled
<1>10. ASSUME NEW c \in Clients, RenamedRef(c) \/ ImportDone(c)
       PROVE  OwesReconcile'
  <2>1. call' = [call EXCEPT ![c] = [call[c] EXCEPT !.at = "reconcile"]] /\ UNCHANGED <<dirty, cutShort>>
    BY <1>10 DEF RenamedRef, ImportDone
  <2>2. "at" \in DOMAIN [call[c] EXCEPT !.at = "reconcile"] /\ [call[c] EXCEPT !.at = "reconcile"].at = "reconcile"
    BY DEF OwesReconcile
  <2>3. QED
    BY <2>1, <2>2, OwesKept DEF Owing
<1>11. ASSUME NEW c \in Clients, CreateRow(c) \/ SkipRow(c)
       PROVE  OwesReconcile'
  <2>1. PICK todo : call' = [call EXCEPT ![c] = [call[c] EXCEPT !.todo = todo]]
    <3>1. PICK row : call' = [call EXCEPT ![c] = [call[c] EXCEPT !.todo = call[c].todo \ {row}]]
      BY <1>11 DEF CreateRow, SkipRow
    <3>2. QED
      BY <3>1
  <2>2. /\ "at" \in DOMAIN [call[c] EXCEPT !.todo = todo]
        /\ [call[c] EXCEPT !.todo = todo].at = call[c].at /\ call[c].at = "create"
    BY <1>11 DEF CreateRow, SkipRow, At, OwesReconcile
  <2>3. QED
    BY <2>1, <2>2, OwesCommit DEF Owing
<1>12. ASSUME NEW c \in Clients, ImportFails(c)
       PROVE  OwesReconcile'
  <2>1. call' = [call EXCEPT ![c] = Idle] /\ cutShort' /\ "at" \in DOMAIN Idle
    BY <1>12 DEF ImportFails, Idle
  <2>2. QED
    BY <2>1 DEF OwesReconcile
<1>13. ASSUME NEW c \in Clients, ExportRest(c)
       PROVE  OwesReconcile'
  <2>1. /\ call' = [call EXCEPT ![c] = Idle] /\ UNCHANGED <<dirty, cutShort>> /\ "at" \in DOMAIN Idle
        /\ call[c].at \notin Owing
    BY <1>13 DEF ExportRest, At, Idle, Owing
  <2>2. QED
    BY <2>1, OwesKept
<1>14. ASSUME NEW c \in Clients, Reconcile(c)
       PROVE  OwesReconcile'
  <2>1. call' = [call EXCEPT ![c] = Idle] /\ ~dirty' /\ "at" \in DOMAIN Idle
    BY <1>14 DEF Reconcile, Idle
  <2>2. QED
    BY <2>1 DEF OwesReconcile
<1>15. CASE UNCHANGED entriesVars
  BY <1>15 DEF entriesVars, OwesReconcile
<1>16. QED
  BY <1>5, <1>6, <1>7, <1>8, <1>9, <1>10, <1>11, <1>12, <1>13, <1>14, <1>15
     DEF Next, EntryCall, RenameCall, InboundCall, SubCall, BackupCall

LEMMA OwesInit == Init => OwesReconcile
<1> SUFFICES ASSUME Init PROVE OwesReconcile
  OBVIOUS
<1>1. call = [c \in Clients |-> Idle] /\ ~dirty
  BY DEF Init
<1>2. QED
  BY <1>1 DEF OwesReconcile, Idle

(* No write is forgotten: a handler that wrote reconciles before it ends,   *)
(* whoever runs in between, and the one that does not is an import that     *)
(* fails (server_methods.go, server_iface.go, server_backup.go:61-176).     *)
THEOREM WritesAreReconciled == Spec => []QuietIsReconciled
<1>1. Init => OwesReconcile
  BY OwesInit
<1>2. OwesReconcile /\ [Next]_entriesVars => OwesReconcile'
  BY OwesStep
<1>3. OwesReconcile => QuietIsReconciled
  BY DEF OwesReconcile, QuietIsReconciled, Idle, Owing
<1>4. QED
  BY <1>1, <1>2, <1>3, PTL DEF Spec

-----------------------------------------------------------------------------
(***************************************************************************)
(* That a rename moves nothing rests on names being of one row each: the   *)
(* references of others are to a name, and follow the row that had it.     *)
(***************************************************************************)
AnyRow == [name : Names, dialer : SUBSET Refs, kind : Kinds, mux : BOOLEAN]
OneName(rows) == \A id, other \in DOMAIN rows : rows[id].name = rows[other].name => id = other
AreRows(rows) == \A id \in DOMAIN rows : rows[id] \in AnyRow
AreTargets(f) == \A i \in DOMAIN f : f[i] \in Targets
IsBackup(b) == b.rows \subseteq AnyRow /\ AreTargets(b.ins)

(* What a call is about to write, by where it is. *)
MayWrite(k) ==
  /\ k.op \in {"add", "duplicate", "mux", "config"} /\ k.at = "write" => k.row \in AnyRow
  /\ k.op = "dialer" /\ k.at = "write" => \A id \in DOMAIN k.set : k.set[id] \subseteq Refs
  /\ k.op = "rename" /\ k.at = "write" => \E n \in Names : k.new = XrayRef(n)
  /\ k.op = "subrename" /\ k.at = "write" => \E n \in SubNames : k.new = SubRef(n)
  /\ k.op \in {"inbound", "target"} /\ k.at = "write" => k.target \in Targets
  /\ k.op = "export" /\ k.at = "export" => AreTargets(k.ins)
  /\ k.op = "import" /\ k.at \in {"wipe", "create"} =>
       /\ "todo" \in DOMAIN k
       /\ \A row \in k.todo : /\ row[1] = "inbound" => row[2][2] \in Targets
                              /\ row[1] = "entry" => row[2] \in AnyRow

Stock == AreRows(entries) /\ OneName(entries) /\ AreTargets(inbounds)
NamesInv ==
  /\ Stock
  /\ DOMAIN call = Clients /\ \A c \in Clients : MayWrite(call[c])
  /\ backup # NoBackup => IsBackup(backup)

LEMMA RowIsAny == Row \subseteq AnyRow
  BY DEF Row, AnyRow, Dialers

LEMMA IdleWrites == MayWrite(Idle)
  BY DEF MayWrite, Idle

(* A call goes on: what it may write now is all there is to see. *)
LEMMA NamesGoOn ==
  ASSUME NamesInv, NEW c \in Clients, NEW r, call' = [call EXCEPT ![c] = r], MayWrite(r), Stock', UNCHANGED backup
  PROVE  NamesInv'
<1>1. \A d \in Clients : call'[d] = IF d = c THEN r ELSE call[d]
  BY DEF NamesInv
<1>2. DOMAIN call' = Clients
  BY DEF NamesInv
<1>3. \A d \in Clients : MayWrite(call'[d])
  BY <1>1 DEF NamesInv
<1>4. backup' # NoBackup => IsBackup(backup')
  BY DEF NamesInv
<1>5. QED
  BY <1>2, <1>3, <1>4 DEF NamesInv

(* Rows are stored under a name that no other has. *)
LEMMA StoredRows ==
  ASSUME Stock, NEW id, NEW row \in AnyRow, \A i \in DOMAIN entries \ {id} : entries[i].name # row.name,
         entries' = Stored(entries, id, row), UNCHANGED inbounds
  PROVE  Stock'
<1>1. DOMAIN entries' = DOMAIN entries \cup {id}
  BY DEF Stored
<1>2. \A i \in DOMAIN entries' : entries'[i] = IF i = id THEN row ELSE entries[i]
  BY DEF Stored
<1>3. AreRows(entries')
  BY <1>1, <1>2 DEF Stock, AreRows
<1>4. OneName(entries')
  BY <1>1, <1>2 DEF Stock, OneName
<1>5. AreTargets(inbounds')
  BY DEF Stock
<1>6. QED
  BY <1>3, <1>4, <1>5 DEF Stock

(* The dialers change, the names do not. *)
LEMMA DialersChange ==
  ASSUME Stock, NEW D, \A id \in DOMAIN entries : D[id] \subseteq Refs, DOMAIN entries' = DOMAIN entries,
         \A id \in DOMAIN entries : entries'[id] = [entries[id] EXCEPT !.dialer = D[id]], AreTargets(inbounds')
  PROVE  Stock'
<1>1. \A id \in DOMAIN entries' : entries'[id] \in AnyRow /\ entries'[id].name = entries[id].name
  BY DEF Stock, AreRows, AnyRow
<1>2. AreRows(entries')
  BY <1>1 DEF AreRows
<1>3. OneName(entries')
  BY <1>1 DEF Stock, OneName
<1>4. QED
  BY <1>2, <1>3 DEF Stock

LEMMA RefsRenamed ==
  ASSUME NEW dialer \in SUBSET Refs, NEW old, NEW new \in Refs
  PROVE  RenameRef(dialer, old, new) \subseteq Refs
  BY DEF RenameRef

(* RenameEntry: the name moves from one row to none, the references along. *)
LEMMA EntryRenamed ==
  ASSUME Stock, NEW id \in DOMAIN entries, NEW n \in Names, ~Taken(n, id),
         entries' = Cascade([entries EXCEPT ![id].name = n], XrayRef(entries[id].name), XrayRef(n)),
         inbounds' = [i \in DOMAIN inbounds |-> RenameTarget(inbounds[i], entries[id].name, n)]
  PROVE  /\ Stock'
         /\ \A i \in DOMAIN entries : i \in DOMAIN entries' /\ DialsInto(i) \subseteq DialsInto(i)'
         /\ \A i \in DOMAIN inbounds : i \in DOMAIN inbounds' /\ EgressOf(i) \subseteq EgressOf(i)'
<1> DEFINE old == entries[id].name
           row == [entries[id] EXCEPT !.name = n]
           Dialer(i) == RenameRef(entries[i].dialer, XrayRef(old), XrayRef(n))
<1>1. /\ DOMAIN entries' = DOMAIN entries
      /\ \A i \in DOMAIN entries :
           entries'[i] = [(IF i = id THEN row ELSE entries[i]) EXCEPT !.dialer = RenameRef(@, XrayRef(old), XrayRef(n))]
  BY DEF Cascade
<1>2. \A i \in DOMAIN entries : entries[i] \in AnyRow
  BY DEF Stock, AreRows
<1>3. old \in Names /\ XrayRef(n) \in Refs /\ XrayRef(old) \in Refs
  BY <1>2 DEF AnyRow, Refs
<1>4. row \in AnyRow /\ row.name = n /\ row.dialer = entries[id].dialer
  BY <1>2 DEF AnyRow
<1>5. \A i \in DOMAIN entries :
        /\ Dialer(i) \subseteq Refs
        /\ entries'[i] \in AnyRow /\ entries'[i].dialer = Dialer(i)
        /\ entries'[i].name = IF i = id THEN n ELSE entries[i].name
  <2> TAKE i \in DOMAIN entries
  <2>1. Dialer(i) \subseteq Refs
    BY <1>2, <1>3, RefsRenamed DEF AnyRow
  <2>2. CASE i = id
    <3>1. entries'[i] = [row EXCEPT !.dialer = Dialer(i)]
      BY <1>1, <1>4, <2>2
    <3>2. QED
      BY <1>4, <2>1, <2>2, <3>1 DEF AnyRow
  <2>3. CASE i # id
    <3>1. entries'[i] = [entries[i] EXCEPT !.dialer = Dialer(i)]
      BY <1>1, <2>3
    <3>2. QED
      BY <1>2, <2>1, <2>3, <3>1 DEF AnyRow
  <2>4. QED
    BY <2>2, <2>3
<1>6. \A i \in DOMAIN entries \ {id} : entries[i].name # n /\ entries[i].name # old
  BY DEF Taken, Named, Stock, OneName
<1>7. AreRows(entries') /\ OneName(entries')
  <2>1. AreRows(entries')
    BY <1>1, <1>5 DEF AreRows
  <2>2. OneName(entries')
    <3> SUFFICES ASSUME NEW i \in DOMAIN entries, NEW j \in DOMAIN entries, entries'[i].name = entries'[j].name
                 PROVE  i = j
      BY <1>1 DEF OneName
    <3>1. /\ entries'[i].name = IF i = id THEN n ELSE entries[i].name
          /\ entries'[j].name = IF j = id THEN n ELSE entries[j].name
      BY <1>5
    <3>2. QED
      BY <1>6, <3>1 DEF Stock, OneName
  <2>3. QED
    BY <2>1, <2>2
<1>8. /\ DOMAIN inbounds' = DOMAIN inbounds
      /\ \A i \in DOMAIN inbounds : /\ inbounds'[i] = RenameTarget(inbounds[i], old, n) 
                                    /\ inbounds[i] \in Targets
  BY DEF Stock, AreTargets
<1>9. \A t \in Targets : RenameTarget(t, old, n) \in Targets
  BY DEF RenameTarget, Targets, Direct
<1>10. Stock'
  BY <1>7, <1>8, <1>9 DEF Stock, AreTargets
\* Who has a name keeps it, and who had the old one has the new.
<1>11. \A m \in Names : \A j \in Named(m) : j \in DOMAIN entries' /\ entries'[j].name = IF m = old THEN n ELSE m
  BY <1>1, <1>5, <1>6 DEF Named
<1>12. ASSUME NEW i \in DOMAIN entries
       PROVE  i \in DOMAIN entries' /\ DialsInto(i) \subseteq DialsInto(i)'
  <2>1. ASSUME NEW m \in Next1(entries[i].dialer)
        PROVE  (IF m = old THEN n ELSE m) \in Next1(entries'[i].dialer)
    <3>1. m \in Names /\ XrayRef(m) \in entries[i].dialer
      BY DEF Next1
    <3>2. CASE m = old
      BY <1>5, <3>1, <3>2 DEF RenameRef, Next1
    <3>3. CASE m # old
      <4>1. XrayRef(m) # XrayRef(old)
        BY <3>3 DEF XrayRef
      <4>2. XrayRef(m) \in Dialer(i)
        BY <3>1, <4>1 DEF RenameRef
      <4>3. QED
        BY <1>5, <3>1, <3>3, <4>2 DEF Next1
    <3>4. QED
      BY <3>2, <3>3
  <2>2. \A j \in DialsInto(i) : \E m \in Next1(entries[i].dialer) : m \in Names /\ j \in Named(m)
    BY DEF DialsInto, Next1
  <2>3. \A j \in DialsInto(i) : j \in DOMAIN entries' /\ entries'[j].name \in Next1(entries'[i].dialer)
    <3> TAKE j \in DialsInto(i)
    <3>1. PICK m \in Next1(entries[i].dialer) : m \in Names /\ j \in Named(m)
      BY <2>2
    <3>2. (IF m = old THEN n ELSE m) \in Next1(entries'[i].dialer)
      BY <2>1
    <3>3. QED
      BY <1>11, <3>1, <3>2
  <2>4. \A j \in DOMAIN entries' : entries'[j].name \in Next1(entries'[i].dialer) => j \in DialsInto(i)'
    BY DEF DialsInto, Next1, Named
  <2>5. QED
    BY <1>1, <2>3, <2>4
<1>13. ASSUME NEW i \in DOMAIN inbounds
       PROVE  i \in DOMAIN inbounds' /\ EgressOf(i) \subseteq EgressOf(i)'
  <2>1. CASE inbounds[i] = Direct
    BY <1>8, <2>1 DEF EgressOf
  <2>2. CASE inbounds[i] # Direct
    <3>1. inbounds[i][1] # "direct" /\ inbounds[i][2] \in Names /\ inbounds[i] = <<inbounds[i][1], inbounds[i][2]>>
      BY <1>8, <2>2 DEF Targets
    <3>2. inbounds'[i] # Direct /\ inbounds'[i][2] = IF inbounds[i][2] = old THEN n ELSE inbounds[i][2]
      BY <1>8, <3>1 DEF RenameTarget, Direct
    <3>3. /\ EgressOf(i) = Named(inbounds[i][2])
          /\ EgressOf(i)' = {j \in DOMAIN entries' : entries'[j].name = inbounds'[i][2]}
      BY <2>2, <3>2 DEF EgressOf, Named, Direct
    <3>4. \A j \in Named(inbounds[i][2]) : j \in DOMAIN entries' /\ entries'[j].name = inbounds'[i][2]
      BY <1>11, <3>1, <3>2
    <3>5. QED
      BY <1>8, <3>3, <3>4
  <2>3. QED
    BY <2>1, <2>2
<1>14. QED
  BY <1>10, <1>12, <1>13

(* RenameSubscription: references to entries are not of its kind. *)
LEMMA SubscriptionRenamed ==
  ASSUME Stock, NEW old, NEW n \in SubNames,
         entries' = Cascade(entries, SubRef(old), SubRef(n)), UNCHANGED inbounds
  PROVE  /\ Stock'
         /\ \A i \in DOMAIN entries : i \in DOMAIN entries' /\ DialsInto(i) \subseteq DialsInto(i)'
         /\ \A i \in DOMAIN inbounds : i \in DOMAIN inbounds' /\ EgressOf(i) \subseteq EgressOf(i)'
<1> DEFINE D == [i \in DOMAIN entries |-> RenameRef(entries[i].dialer, SubRef(old), SubRef(n))]
<1>1. /\ DOMAIN entries' = DOMAIN entries
      /\ \A i \in DOMAIN entries : entries'[i] = [entries[i] EXCEPT !.dialer = D[i]]
  BY DEF Cascade
<1>2. \A i \in DOMAIN entries : entries[i] \in AnyRow
  BY DEF Stock, AreRows
<1>3. \A i \in DOMAIN entries : D[i] \subseteq Refs
  <2>1. SubRef(n) \in Refs
    BY DEF Refs
  <2>2. QED
    BY <1>2, <2>1, RefsRenamed DEF AnyRow
<1>4. Stock'
  <2>1. AreTargets(inbounds')
    BY DEF Stock
  <2> HIDE DEF D
  <2>2. QED
    BY <1>1, <1>3, <2>1, DialersChange
<1>5. \A i \in DOMAIN entries : entries'[i].name = entries[i].name /\ entries'[i].dialer = D[i]
  BY <1>1, <1>2 DEF AnyRow
<1>6. \A i \in DOMAIN entries : Next1(entries[i].dialer) \subseteq Next1(entries'[i].dialer)
  <2> TAKE i \in DOMAIN entries
  <2>1. \A m \in Names : XrayRef(m) \in entries[i].dialer => XrayRef(m) \in D[i]
    <3>1. \A m \in Names : XrayRef(m) # SubRef(old)
      BY DEF XrayRef, SubRef
    <3>2. QED
      BY <3>1 DEF RenameRef
  <2>2. QED
    BY <1>5, <2>1 DEF Next1
<1>7. \A i \in DOMAIN entries : DialsInto(i) \subseteq DialsInto(i)'
  BY <1>1, <1>5, <1>6 DEF DialsInto, Named
<1>8. \A i \in DOMAIN inbounds : EgressOf(i) \subseteq EgressOf(i)'
  BY <1>1, <1>5 DEF EgressOf, Named
<1>9. QED
  BY <1>1, <1>4, <1>7, <1>8

(* A call is changed by the client that is in it. *)
LEMMA OwnCallOnly ==
  ASSUME NEW c \in Clients,
         EntryCall(c) \/ RenameCall(c) \/ InboundCall(c) \/ SubCall(c) \/ BackupCall(c) \/ Reconcile(c)
  PROVE  \E r : call' = [call EXCEPT ![c] = r]
<1> USE DEF Begin, Committed, CommitAtOnce, Refused
<1>1. CASE EntryCall(c)
  BY <1>1 DEF EntryCall, EntryAdd, EntryDuplicate, CreateEntry, EntryRemove, EntrySetMux, EntrySetConfig,
              UpdateEntry, EntryBulkDialer, SetEntryDialers
<1>2. CASE RenameCall(c)
  BY <1>2 DEF RenameCall, EntryRename, SubRename, RenameEntry, RenameSubscription, RenamedRef
<1>3. CASE InboundCall(c)
  BY <1>3 DEF InboundCall, InboundAdd, InboundDuplicate, InboundSetTarget, CreateInbound, UpdateInbound, InboundRemove
<1>4. CASE SubCall(c)
  BY <1>4 DEF SubCall, SubRemove, SubSetEnabled
<1>5. CASE BackupCall(c)
  BY <1>5 DEF BackupCall, ExportInbounds, ExportRest, ImportConfig, DeleteAllConfig, CreateRow, SkipRow,
              ImportFails, ImportDone
<1>6. CASE Reconcile(c)
  BY <1>6 DEF Reconcile
<1>7. QED
  BY <1>1, <1>2, <1>3, <1>4, <1>5, <1>6

LEMMA NamesStep ==
  ASSUME OwesReconcile, NamesInv, [Next]_entriesVars
  PROVE  NamesInv'
<1> USE DEF tables, history
<1>1. ASSUME NEW c \in Clients, NEW r, call' = [call EXCEPT ![c] = r], MayWrite(r), UNCHANGED <<tables, backup>>
      PROVE  NamesInv'
  <2>1. Stock'
    BY <1>1 DEF NamesInv, Stock
  <2>2. QED
    BY <1>1, <2>1, NamesGoOn
<1>2. ASSUME NEW c \in Clients, NEW at, at \in {"reconcile", "renamed"}, call' = [call EXCEPT ![c].at = at],
             Stock', UNCHANGED backup
      PROVE  NamesInv'
  <2>1. [call[c] EXCEPT !.at = at].at = at
    BY DEF OwesReconcile
  <2>2. MayWrite([call[c] EXCEPT !.at = at])
    BY <1>2, <2>1 DEF MayWrite
  <2>3. QED
    BY <1>2, <2>2, NamesGoOn
<1>3. ASSUME NEW c \in Clients, NEW op, CommitAtOnce(c, op), Stock'
      PROVE  NamesInv'
  <2>1. MayWrite([op |-> op, at |-> "reconcile"])
    BY DEF MayWrite
  <2>2. QED
    BY <1>3, <2>1, NamesGoOn DEF CommitAtOnce
<1>4. ASSUME NEW c \in Clients, Refused(c)
      PROVE  NamesInv'
  BY <1>1, <1>4, IdleWrites DEF Refused
<1>5. \A c \in Clients : MayWrite(call[c])
  BY DEF NamesInv
<1>6. \A id \in DOMAIN entries : entries[id] \in AnyRow
  BY DEF NamesInv, Stock, AreRows
\* The halves that read and check.
<1>7. ASSUME NEW c \in Clients, EntryAdd(c)
      PROVE  NamesInv'
  <2>1. PICK row \in [name : Names, dialer : Dialers, kind : Kinds, mux : {FALSE}] :
          Begin(c, [op |-> "add", at |-> "write", row |-> row]) /\ Only(tables)
    BY <1>7 DEF EntryAdd
  <2>2. row \in AnyRow
    BY DEF AnyRow, Dialers
  <2>3. MayWrite([op |-> "add", at |-> "write", row |-> row])
    BY <2>2 DEF MayWrite
  <2>4. QED
    BY <1>1, <2>1, <2>3 DEF Begin, Only
<1>8. ASSUME NEW c \in Clients, EntryDuplicate(c)
      PROVE  NamesInv'
  <2>1. PICK id \in DOMAIN entries, n \in Names :
          Begin(c, [op |-> "duplicate", at |-> "write", row |-> [entries[id] EXCEPT !.name = n]]) /\ Only(tables)
    BY <1>8 DEF EntryDuplicate
  <2>2. [entries[id] EXCEPT !.name = n] \in AnyRow
    BY <1>6 DEF AnyRow
  <2>3. MayWrite([op |-> "duplicate", at |-> "write", row |-> [entries[id] EXCEPT !.name = n]])
    BY <2>2 DEF MayWrite
  <2>4. QED
    BY <1>1, <2>1, <2>3 DEF Begin, Only
<1>9. ASSUME NEW c \in Clients, EntrySetMux(c)
      PROVE  NamesInv'
  <2>1. PICK id \in DOMAIN entries, on \in BOOLEAN :
          /\ Begin(c, [op |-> "mux", at |-> "write", id |-> id, row |-> [entries[id] EXCEPT !.mux = on]])
          /\ Only(tables)
    BY <1>9 DEF EntrySetMux
  <2>2. [entries[id] EXCEPT !.mux = on] \in AnyRow
    BY <1>6 DEF AnyRow
  <2>3. MayWrite([op |-> "mux", at |-> "write", id |-> id, row |-> [entries[id] EXCEPT !.mux = on]])
    BY <2>2 DEF MayWrite
  <2>4. QED
    BY <1>1, <2>1, <2>3 DEF Begin, Only
<1>10. ASSUME NEW c \in Clients, EntrySetConfig(c)
       PROVE  NamesInv'
  <2>1. PICK id \in DOMAIN entries, k \in Kinds :
          /\ Begin(c, [op |-> "config", at |-> "write", id |-> id, row |-> [entries[id] EXCEPT !.kind = k]])
          /\ Only(tables)
    BY <1>10 DEF EntrySetConfig
  <2>2. [entries[id] EXCEPT !.kind = k] \in AnyRow
    BY <1>6 DEF AnyRow
  <2>3. MayWrite([op |-> "config", at |-> "write", id |-> id, row |-> [entries[id] EXCEPT !.kind = k]])
    BY <2>2 DEF MayWrite
  <2>4. QED
    BY <1>1, <2>1, <2>3 DEF Begin, Only
<1>11. ASSUME NEW c \in Clients, EntryBulkDialer(c)
       PROVE  NamesInv'
  <2>1. PICK ids \in (SUBSET DOMAIN entries) \ {{}} : \E set \in [ids -> Dialers] :
          Begin(c, [op |-> "dialer", at |-> "write", set |-> set]) /\ Only(tables)
    BY <1>11 DEF EntryBulkDialer
  <2>2. PICK set \in [ids -> Dialers] : Begin(c, [op |-> "dialer", at |-> "write", set |-> set]) /\ Only(tables)
    BY <2>1
  <2>3. MayWrite([op |-> "dialer", at |-> "write", set |-> set])
    BY DEF MayWrite, Dialers
  <2>4. QED
    BY <1>1, <2>2, <2>3 DEF Begin, Only
<1>12. ASSUME NEW c \in Clients, EntryRename(c)
       PROVE  NamesInv'
  <2>1. PICK id \in DOMAIN entries, n \in Names :
          /\ Begin(c, [op |-> "rename", at |-> "write", id |-> id,
                       old |-> XrayRef(entries[id].name), new |-> XrayRef(n), slots |-> SlotsNow])
          /\ Only(tables)
    BY <1>12 DEF EntryRename
  <2>2. MayWrite([op |-> "rename", at |-> "write", id |-> id,
                  old |-> XrayRef(entries[id].name), new |-> XrayRef(n), slots |-> SlotsNow])
    BY DEF MayWrite
  <2>3. QED
    BY <1>1, <2>1, <2>2 DEF Begin, Only
<1>13. ASSUME NEW c \in Clients, SubRename(c)
       PROVE  NamesInv'
  <2>1. PICK s \in StoredSubs, n \in SubNames :
          /\ Begin(c, [op |-> "subrename", at |-> "write", old |-> SubRef(s), new |-> SubRef(n), slots |-> SlotsNow])
          /\ Only(tables)
    BY <1>13 DEF SubRename
  <2>2. MayWrite([op |-> "subrename", at |-> "write", old |-> SubRef(s), new |-> SubRef(n), slots |-> SlotsNow])
    BY DEF MayWrite
  <2>3. QED
    BY <1>1, <2>1, <2>2 DEF Begin, Only
<1>14. ASSUME NEW c \in Clients, InboundAdd(c)
       PROVE  NamesInv'
  <2>1. PICK i \in InNames, t \in Targets :
          Begin(c, [op |-> "inbound", at |-> "write", in |-> i, target |-> t]) /\ Only(tables)
    BY <1>14 DEF InboundAdd
  <2>2. MayWrite([op |-> "inbound", at |-> "write", in |-> i, target |-> t])
    BY DEF MayWrite
  <2>3. QED
    BY <1>1, <2>1, <2>2 DEF Begin, Only
<1>15. ASSUME NEW c \in Clients, InboundDuplicate(c)
       PROVE  NamesInv'
  <2>1. PICK i \in DOMAIN inbounds, j \in InNames :
          Begin(c, [op |-> "inbound", at |-> "write", in |-> j, target |-> inbounds[i]]) /\ Only(tables)
    BY <1>15 DEF InboundDuplicate
  <2>2. MayWrite([op |-> "inbound", at |-> "write", in |-> j, target |-> inbounds[i]])
    BY DEF MayWrite, NamesInv, Stock, AreTargets
  <2>3. QED
    BY <1>1, <2>1, <2>2 DEF Begin, Only
<1>16. ASSUME NEW c \in Clients, InboundSetTarget(c)
       PROVE  NamesInv'
  <2>1. PICK i \in DOMAIN inbounds, t \in Targets :
          Begin(c, [op |-> "target", at |-> "write", in |-> i, target |-> t]) /\ Only(tables)
    BY <1>16 DEF InboundSetTarget
  <2>2. MayWrite([op |-> "target", at |-> "write", in |-> i, target |-> t])
    BY DEF MayWrite
  <2>3. QED
    BY <1>1, <2>1, <2>2 DEF Begin, Only
<1>17. ASSUME NEW c \in Clients, ExportInbounds(c)
       PROVE  NamesInv'
  <2>1. Begin(c, [op |-> "export", at |-> "export", ins |-> inbounds]) /\ Only(tables)
    BY <1>17 DEF ExportInbounds
  <2>2. MayWrite([op |-> "export", at |-> "export", ins |-> inbounds])
    BY DEF MayWrite, NamesInv, Stock
  <2>3. QED
    BY <1>1, <2>1, <2>2 DEF Begin, Only
<1>18. ASSUME NEW c \in Clients, ImportConfig(c)
       PROVE  NamesInv'
  <2>1. PICK replace \in BOOLEAN :
          /\ Begin(c, [op |-> "import", at |-> IF replace THEN "wipe" ELSE "create", replace |-> replace,
                       of |-> backup, todo |-> ToCreate(backup)])
          /\ Only(tables) /\ backup # NoBackup
    BY <1>18 DEF ImportConfig
  <2>2. \A row \in ToCreate(backup) : /\ row[1] = "inbound" => row[2][2] \in Targets
                                      /\ row[1] = "entry" => row[2] \in AnyRow
    BY <2>1 DEF ToCreate, NamesInv, IsBackup, AreTargets
  <2>3. MayWrite([op |-> "import", at |-> IF replace THEN "wipe" ELSE "create", replace |-> replace,
                  of |-> backup, todo |-> ToCreate(backup)])
    BY <2>2 DEF MayWrite
  <2>4. QED
    BY <1>1, <2>1, <2>3 DEF Begin, Only
\* The halves that write, or are refused.
<1>19. ASSUME NEW c \in Clients, CreateEntry(c)
       PROVE  NamesInv'
  <2>1. CASE Named(call[c].row.name) # {}
    BY <1>4, <1>19, <2>1 DEF CreateEntry
  <2>2. CASE Named(call[c].row.name) = {}
    <3>1. call[c].row \in AnyRow
      BY <1>5, <1>19 DEF CreateEntry, At, MayWrite
    <3>2. entries' = Stored(entries, nextId, call[c].row) /\ UNCHANGED inbounds /\ Committed(c, "reconcile")
      BY <1>19, <2>2 DEF CreateEntry
    <3>3. \A i \in DOMAIN entries : entries[i].name # call[c].row.name
      BY <2>2 DEF Named
    <3>4. Stock'
      BY <3>1, <3>2, <3>3, StoredRows DEF NamesInv
    <3>5. QED
      BY <1>2, <3>2, <3>4 DEF Committed
  <2>3. QED
    BY <2>1, <2>2
<1>20. ASSUME NEW c \in Clients, UpdateEntry(c)
       PROVE  NamesInv'
  <2>1. CASE Taken(call[c].row.name, call[c].id)
    BY <1>4, <1>20, <2>1 DEF UpdateEntry
  <2>2. CASE ~Taken(call[c].row.name, call[c].id)
    <3>1. call[c].row \in AnyRow
      BY <1>5, <1>20 DEF UpdateEntry, At, MayWrite
    <3>2. entries' = Stored(entries, call[c].id, call[c].row) /\ UNCHANGED inbounds /\ Committed(c, "reconcile")
      BY <1>20, <2>2 DEF UpdateEntry
    <3>3. \A i \in DOMAIN entries \ {call[c].id} : entries[i].name # call[c].row.name
      BY <2>2 DEF Taken, Named
    <3>4. Stock'
      BY <3>1, <3>2, <3>3, StoredRows DEF NamesInv
    <3>5. QED
      BY <1>2, <3>2, <3>4 DEF Committed
  <2>3. QED
    BY <2>1, <2>2
<1>21. ASSUME NEW c \in Clients, SetEntryDialers(c)
       PROVE  NamesInv'
  <2> DEFINE set == call[c].set
             D == [id \in DOMAIN entries |-> IF id \in DOMAIN set THEN set[id] ELSE entries[id].dialer]
  <2>1. \A id \in DOMAIN set : set[id] \subseteq Refs
    BY <1>5, <1>21 DEF SetEntryDialers, At, MayWrite
  <2>2. \A id \in DOMAIN entries : D[id] \subseteq Refs
    BY <1>6, <2>1 DEF AnyRow
  <2>3. /\ DOMAIN entries' = DOMAIN entries
        /\ \A id \in DOMAIN entries :
             entries'[id] = IF id \in DOMAIN set THEN [entries[id] EXCEPT !.dialer = set[id]] ELSE entries[id]
    BY <1>21 DEF SetEntryDialers
  <2>4. \A id \in DOMAIN entries : entries'[id] = [entries[id] EXCEPT !.dialer = D[id]]
    BY <1>6, <2>3 DEF AnyRow
  <2>5. AreTargets(inbounds')
    BY <1>21 DEF SetEntryDialers, NamesInv, Stock
  <2>6. Stock'
    <3> HIDE DEF D
    <3>1. QED
      BY <2>2, <2>3, <2>4, <2>5, DialersChange DEF NamesInv
  <2>7. QED
    BY <1>2, <1>21, <2>6 DEF SetEntryDialers, Committed
<1>22. ASSUME NEW c \in Clients, RenameEntry(c)
       PROVE  NamesInv'
  <2>1. CASE Refused(c)
    BY <1>4, <2>1
  <2>2. CASE ~Refused(c)
    <3>1. PICK n \in Names : call[c].new = XrayRef(n)
      BY <1>5, <1>22 DEF RenameEntry, At, MayWrite
    <3>2. call[c].new[2] = n
      BY <3>1 DEF XrayRef
    <3>3. /\ call[c].id \in DOMAIN entries /\ ~Taken(n, call[c].id)
          /\ entries' = Cascade([entries EXCEPT ![call[c].id].name = n],
                                XrayRef(entries[call[c].id].name), XrayRef(n))
          /\ inbounds' = [i \in DOMAIN inbounds |-> RenameTarget(inbounds[i], entries[call[c].id].name, n)]
          /\ Committed(c, "renamed")
      BY <1>22, <2>2, <3>2 DEF RenameEntry
    <3>4. Stock'
      BY <3>3, EntryRenamed DEF NamesInv
    <3>5. QED
      BY <1>2, <3>3, <3>4 DEF Committed
  <2>3. QED
    BY <2>1, <2>2
<1>23. ASSUME NEW c \in Clients, RenameSubscription(c)
       PROVE  NamesInv'
  <2>1. CASE Refused(c)
    BY <1>4, <2>1
  <2>2. CASE ~Refused(c)
    <3>1. PICK n \in SubNames : call[c].new = SubRef(n)
      BY <1>5, <1>23 DEF RenameSubscription, At, MayWrite
    <3>2. call[c].new[2] = n
      BY <3>1 DEF SubRef
    <3>3. /\ entries' = Cascade(entries, SubRef(call[c].old[2]), SubRef(n)) /\ UNCHANGED inbounds
          /\ Committed(c, "renamed")
      BY <1>23, <2>2, <3>2 DEF RenameSubscription
    <3>4. Stock'
      BY <3>3, SubscriptionRenamed DEF NamesInv
    <3>5. QED
      BY <1>2, <3>3, <3>4 DEF Committed
  <2>3. QED
    BY <2>1, <2>2
<1>24. ASSUME NEW i, NEW t \in Targets, inbounds' = Stored(inbounds, i, t), UNCHANGED entries
       PROVE  Stock'
  BY <1>24 DEF NamesInv, Stock, Stored, AreTargets
<1>25. ASSUME NEW c \in Clients, CreateInbound(c) \/ UpdateInbound(c)
       PROVE  NamesInv'
  <2>1. CASE Refused(c)
    BY <1>4, <2>1
  <2>2. CASE ~Refused(c)
    <3>1. call[c].target \in Targets
      BY <1>5, <1>25 DEF CreateInbound, UpdateInbound, At, MayWrite
    <3>2. /\ inbounds' = Stored(inbounds, call[c].in, call[c].target) /\ UNCHANGED entries
          /\ Committed(c, "reconcile")
      BY <1>25, <2>2 DEF CreateInbound, UpdateInbound
    <3>3. Stock'
      BY <1>24, <3>1, <3>2
    <3>4. QED
      BY <1>2, <3>2, <3>3 DEF Committed
  <2>3. QED
    BY <2>1, <2>2
<1>26. ASSUME NEW c \in Clients, EntryRemove(c) \/ InboundRemove(c) \/ SubRemove(c) \/ SubSetEnabled(c)
       PROVE  NamesInv'
  <2>1. Stock'
    <3>1. CASE EntryRemove(c)
      BY <3>1 DEF EntryRemove, Without, NamesInv, Stock, AreRows, OneName, AreTargets
    <3>2. CASE InboundRemove(c)
      BY <3>2 DEF InboundRemove, Without, NamesInv, Stock, AreRows, OneName, AreTargets
    <3>3. CASE SubRemove(c) \/ SubSetEnabled(c)
      BY <3>3 DEF SubRemove, SubSetEnabled, NamesInv, Stock, AreRows, OneName, AreTargets
    <3>4. QED
      BY <1>26, <3>1, <3>2, <3>3
  <2>2. QED
    BY <1>3, <1>26, <2>1 DEF EntryRemove, InboundRemove, SubRemove, SubSetEnabled
<1>27. ASSUME NEW c \in Clients, RenamedRef(c) \/ ImportDone(c)
       PROVE  NamesInv'
  <2>1. Stock'
    BY <1>27 DEF RenamedRef, ImportDone, NamesInv, Stock
  <2>2. QED
    BY <1>2, <1>27, <2>1 DEF RenamedRef, ImportDone
\* A backup is read from the tables.
<1>28. ASSUME NEW c \in Clients, ExportRest(c)
       PROVE  NamesInv'
  <2>1. AreTargets(call[c].ins)
    BY <1>5, <1>28 DEF ExportRest, At, MayWrite
  <2>2. IsBackup(backup')
    BY <1>6, <1>28, <2>1 DEF ExportRest, IsBackup
  <2>3. Stock'
    BY <1>28 DEF ExportRest, NamesInv, Stock
  <2>4. \A d \in Clients : call'[d] = IF d = c THEN Idle ELSE call[d]
    BY <1>28 DEF ExportRest, NamesInv
  <2>5. DOMAIN call' = Clients
    BY <1>28 DEF ExportRest, NamesInv
  <2>6. \A d \in Clients : MayWrite(call'[d])
    BY <1>5, <2>4, IdleWrites
  <2>7. QED
    BY <2>2, <2>3, <2>5, <2>6 DEF NamesInv
<1>29. ASSUME NEW c \in Clients, DeleteAllConfig(c)
       PROVE  NamesInv'
  <2>1. Stock'
    BY <1>29 DEF DeleteAllConfig, Stock, AreRows, OneName, AreTargets
  <2>2. call[c].op = "import" /\ call[c].at = "wipe" /\ "at" \in DOMAIN call[c]
    BY <1>29 DEF DeleteAllConfig, At, OwesReconcile
  <2>3. MayWrite([call[c] EXCEPT !.at = "create"])
    BY <1>5, <2>2 DEF MayWrite
  <2>4. QED
    BY <1>29, <2>1, <2>3, NamesGoOn DEF DeleteAllConfig, Committed
\* What is left to create, when one row less is.
<1>30. ASSUME NEW c \in Clients, At(c, {"import"}, "create"), NEW row
       PROVE  MayWrite([call[c] EXCEPT !.todo = call[c].todo \ {row}])
  <2>1. call[c].op = "import" /\ call[c].at = "create" /\ "at" \in DOMAIN call[c]
    BY <1>30 DEF At, OwesReconcile
  <2>2. QED
    BY <1>5, <2>1 DEF MayWrite
<1>31. ASSUME NEW c \in Clients, CreateRow(c)
       PROVE  NamesInv'
  <2>1. PICK row \in MayBeNext(call[c].todo) :
          /\ ~Exists(row[1], row[2])
          /\ entries' = IF row[1] = "entry" THEN Stored(entries, nextId, row[2]) ELSE entries
          /\ inbounds' = IF row[1] = "inbound" THEN Stored(inbounds, row[2][1], row[2][2]) ELSE inbounds
          /\ call' = [call EXCEPT ![c].todo = call[c].todo \ {row}]
          /\ UNCHANGED backup
    BY <1>31 DEF CreateRow
  <2>2. row \in call[c].todo
    BY DEF MayBeNext
  <2>3. /\ row[1] = "inbound" => row[2][2] \in Targets
        /\ row[1] = "entry" => row[2] \in AnyRow
    BY <1>5, <1>31, <2>2 DEF CreateRow, At, MayWrite
  <2>4. Stock'
    <3>1. CASE row[1] = "entry"
      <4>1. \A i \in DOMAIN entries : entries[i].name # row[2].name
        BY <2>1, <3>1 DEF Exists, Named
      <4>2. entries' = Stored(entries, nextId, row[2]) /\ UNCHANGED inbounds
        BY <2>1, <3>1
      <4>3. QED
        BY <2>3, <3>1, <4>1, <4>2, StoredRows DEF NamesInv
    <3>2. CASE row[1] = "inbound"
      BY <1>24, <2>1, <2>3, <3>2
    <3>3. CASE row[1] # "entry" /\ row[1] # "inbound"
      BY <2>1, <3>3 DEF NamesInv, Stock
    <3>4. QED
      BY <3>1, <3>2, <3>3
  <2>5. MayWrite([call[c] EXCEPT !.todo = call[c].todo \ {row}])
    BY <1>30, <1>31 DEF CreateRow
  <2>6. QED
    BY <2>1, <2>4, <2>5, NamesGoOn
<1>32. ASSUME NEW c \in Clients, SkipRow(c)
       PROVE  NamesInv'
  <2>1. PICK row : call' = [call EXCEPT ![c].todo = call[c].todo \ {row}] /\ UNCHANGED <<tables, backup>>
    BY <1>32 DEF SkipRow
  <2>2. MayWrite([call[c] EXCEPT !.todo = call[c].todo \ {row}])
    BY <1>30, <1>32 DEF SkipRow
  <2>3. QED
    BY <1>1, <2>1, <2>2
<1>33. ASSUME NEW c \in Clients, ImportFails(c)
       PROVE  NamesInv'
  BY <1>1, <1>33, IdleWrites DEF ImportFails
<1>34. ASSUME NEW c \in Clients, Reconcile(c)
       PROVE  NamesInv'
  BY <1>1, <1>34, IdleWrites DEF Reconcile
<1>35. CASE UNCHANGED entriesVars
  BY <1>35 DEF entriesVars, NamesInv, Stock
<1>36. QED
  <2> SUFFICES ASSUME NEW c \in Clients,
                      EntryCall(c) \/ RenameCall(c) \/ InboundCall(c) \/ SubCall(c) \/ BackupCall(c) \/ Reconcile(c)
               PROVE  NamesInv'
    BY <1>35 DEF Next
  <2>1. CASE EntryCall(c)
    BY <1>7, <1>8, <1>9, <1>10, <1>11, <1>19, <1>20, <1>21, <1>26, <2>1 DEF EntryCall
  <2>2. CASE RenameCall(c)
    BY <1>12, <1>13, <1>22, <1>23, <1>27, <2>2 DEF RenameCall
  <2>3. CASE InboundCall(c)
    BY <1>14, <1>15, <1>16, <1>25, <1>26, <2>3 DEF InboundCall
  <2>4. CASE SubCall(c)
    BY <1>26, <2>4 DEF SubCall
  <2>5. CASE BackupCall(c)
    BY <1>17, <1>18, <1>27, <1>28, <1>29, <1>31, <1>32, <1>33, <2>5 DEF BackupCall
  <2>6. QED
    BY <1>34, <2>1, <2>2, <2>3, <2>4, <2>5

LEMMA NamesInit == Init => NamesInv
<1> SUFFICES ASSUME Init PROVE NamesInv
  OBVIOUS
<1>1. PICK s \in Stores : entries = s.entries /\ inbounds = s.inbounds /\ backup = s.backup
  BY DEF Init
<1>2. Stock
  BY <1>1, StoresAssumption, RowIsAny DEF Stock, AreRows, OneName, AreTargets
<1>3. backup # NoBackup => IsBackup(backup)
  BY <1>1, StoresAssumption, RowIsAny DEF IsBackup, AreTargets
<1>4. DOMAIN call = Clients /\ \A c \in Clients : MayWrite(call[c])
  BY IdleWrites DEF Init
<1>5. QED
  BY <1>2, <1>3, <1>4 DEF NamesInv

(* Of the calls a client may go on with, those that write a rename. *)
LEMMA RenamesOnly ==
  ASSUME NEW c \in Clients, At(c, {"rename", "subrename"}, "write"),
         EntryCall(c) \/ RenameCall(c) \/ InboundCall(c) \/ SubCall(c) \/ BackupCall(c) \/ Reconcile(c)
  PROVE  RenameEntry(c) \/ RenameSubscription(c)
<1>1. call[c].op \in {"rename", "subrename"} /\ call[c].at = "write" /\ ~Free(c)
  BY DEF At, Free, Idle
<1>2. ~EntryCall(c)
  BY <1>1 DEF EntryCall, EntryAdd, EntryDuplicate, CreateEntry, EntryRemove, EntrySetMux, EntrySetConfig,
              UpdateEntry, EntryBulkDialer, SetEntryDialers, At
<1>3. RenameCall(c) => RenameEntry(c) \/ RenameSubscription(c)
  BY <1>1 DEF RenameCall, EntryRename, SubRename, RenamedRef, At
<1>4. ~InboundCall(c)
  BY <1>1 DEF InboundCall, InboundAdd, InboundDuplicate, InboundSetTarget, CreateInbound, UpdateInbound,
              InboundRemove, At
<1>5. ~SubCall(c) /\ ~Reconcile(c)
  BY <1>1 DEF SubCall, SubRemove, SubSetEnabled, Reconcile
<1>6. ~BackupCall(c)
  BY <1>1 DEF BackupCall, ExportInbounds, ExportRest, ImportConfig, DeleteAllConfig, CreateRow, SkipRow,
              ImportFails, ImportDone, At
<1>7. QED
  BY <1>2, <1>3, <1>4, <1>5, <1>6

LEMMA RenameStep ==
  ASSUME NamesInv, [Next]_entriesVars, NEW c \in Clients, RenameWrites(c)
  PROVE  MovesNothing
<1>1. PICK d \in Clients :
        EntryCall(d) \/ RenameCall(d) \/ InboundCall(d) \/ SubCall(d) \/ BackupCall(d) \/ Reconcile(d)
  BY DEF Next, RenameWrites, entriesVars
<1>2. d = c
  <2>1. PICK r : call' = [call EXCEPT ![d] = r]
    BY <1>1, OwnCallOnly
  <2>2. QED
    BY <2>1 DEF RenameWrites, NamesInv
<1>3. RenameEntry(c) \/ RenameSubscription(c)
  BY <1>1, <1>2, RenamesOnly DEF RenameWrites
<1>4. MayWrite(call[c])
  BY DEF NamesInv
<1>5. CASE Refused(c)
  <2>1. UNCHANGED <<entries, inbounds>>
    BY <1>5 DEF Refused, tables
  <2>2. QED
    BY <2>1 DEF MovesNothing, DialsInto, EgressOf, Named, Next1
<1>6. CASE RenameEntry(c) /\ ~Refused(c)
  <2>1. PICK n \in Names : call[c].new = XrayRef(n)
    BY <1>4, <1>6 DEF RenameEntry, At, MayWrite
  <2>2. call[c].new[2] = n
    BY <2>1 DEF XrayRef
  <2>3. /\ call[c].id \in DOMAIN entries /\ ~Taken(n, call[c].id)
        /\ entries' = Cascade([entries EXCEPT ![call[c].id].name = n],
                              XrayRef(entries[call[c].id].name), XrayRef(n))
        /\ inbounds' = [i \in DOMAIN inbounds |-> RenameTarget(inbounds[i], entries[call[c].id].name, n)]
    BY <1>6, <2>2 DEF RenameEntry
  <2>4. QED
    BY <2>3, EntryRenamed DEF NamesInv, MovesNothing
<1>7. CASE RenameSubscription(c) /\ ~Refused(c)
  <2>1. PICK n \in SubNames : call[c].new = SubRef(n)
    BY <1>4, <1>7 DEF RenameSubscription, At, MayWrite
  <2>2. call[c].new[2] = n
    BY <2>1 DEF SubRef
  <2>3. entries' = Cascade(entries, SubRef(call[c].old[2]), SubRef(n)) /\ UNCHANGED inbounds
    BY <1>7, <2>2 DEF RenameSubscription
  <2>4. QED
    BY <2>3, SubscriptionRenamed DEF NamesInv, MovesNothing
<1>8. QED
  BY <1>3, <1>5, <1>6, <1>7

(* No two rows have one name, whichever calls overlap: a row that is saved   *)
(* or restored after a check of long ago still meets the store's own         *)
(* (core/xray/store.go: CreateEntry, UpdateEntry, RenameEntry).              *)
THEOREM NamesAreUnique == Spec => []OneName(entries)
<1>1. Init => OwesReconcile /\ NamesInv
  BY OwesInit, NamesInit
<1>2. OwesReconcile /\ NamesInv /\ [Next]_entriesVars => (OwesReconcile /\ NamesInv)'
  BY OwesStep, NamesStep
<1>3. OwesReconcile /\ NamesInv => OneName(entries)
  BY DEF NamesInv, Stock
<1>4. QED
  BY <1>1, <1>2, <1>3, PTL DEF Spec

(* A rename moves no traffic: when the store renames an entry or a          *)
(* subscription, every entry still dials through the rows it dialed through *)
(* and every inbound leaves through the row it left through, in whatever    *)
(* state other calls have left the tables (store.go: RenameEntry,           *)
(* RenameSubscription).                                                     *)
THEOREM RenamesMoveNothing == Spec => RenameMovesNothing
<1>1. Init => OwesReconcile /\ NamesInv
  BY OwesInit, NamesInit
<1>2. OwesReconcile /\ NamesInv /\ [Next]_entriesVars => (OwesReconcile /\ NamesInv)'
  BY OwesStep, NamesStep
<1>3. OwesReconcile /\ NamesInv /\ [Next]_entriesVars => [\A c \in Clients : RenameWrites(c) => MovesNothing]_entriesVars
  BY RenameStep
<1>4. QED
  BY <1>1, <1>2, <1>3, PTL DEF Spec, RenameMovesNothing

-----------------------------------------------------------------------------
(***************************************************************************)
(* That a checked call keeps the tables sound.  Soundness is restated of   *)
(* rows that are given (IsSound), so that one lemma serves the tables      *)
(* before and after a step.  Then: what keeps a graph of names without a   *)
(* ring that can be walked to; each write, of sound rows, makes sound      *)
(* ones; and while nobody disturbs a call, what it has checked is still    *)
(* so (CheckedInv), so that its write is one of those.                     *)
(***************************************************************************)
NamedIn(rows, n) == {id \in DOMAIN rows : rows[id].name = n}
NamesOf(rows) == {rows[id].name : id \in DOMAIN rows}
GraphOf(rows) ==
  [n \in Names |-> Next1(IF NamedIn(rows, n) = {} THEN {} ELSE rows[CHOOSE id \in NamedIn(rows, n) : TRUE].dialer)]
TargetIn(rows, t) == t # Direct => \E id \in NamedIn(rows, t[2]) : t[1] = "master" => IsMaster(rows[id])
RowIsSound(rows, names, row) ==
  /\ MasterAllowed(row)
  /\ Next1(row.dialer) \subseteq NamesOf(rows)
  /\ \A s \in SubNames : SubRef(s) \in row.dialer => s \in names
  /\ ~CycleFrom(GraphOf(rows), row.name)
IsSound(rows, names, ins) ==
  /\ \A id \in DOMAIN rows : RowIsSound(rows, names, rows[id])
  /\ \A i \in DOMAIN ins : TargetIn(rows, ins[i])

LEMMA SoundIs == Sound <=> IsSound(entries, StoredSubs, inbounds)
<1>1. [n \in Names |-> Next1(DialerOf(n, <<>>))] = GraphOf(entries)
  BY DEF GraphOf, DialerOf, Named, NamedIn
<1>2. EntryNames = NamesOf(entries)
  BY DEF EntryNames, NamesOf
<1>3. \A t : TargetAllowed(t) <=> TargetIn(entries, t)
  BY DEF TargetAllowed, TargetIn, Named, NamedIn
<1>4. QED
  BY <1>1, <1>2, <1>3 DEF Sound, IsSound, RowIsSound

LEMMA SoundIsThen == Sound' <=> IsSound(entries', StoredSubs', inbounds')
<1>1. [n \in Names |-> Next1(DialerOf(n, <<>>))]' = GraphOf(entries')
  BY DEF GraphOf, DialerOf, Named, NamedIn
<1>2. EntryNames' = NamesOf(entries')
  BY DEF EntryNames, NamesOf
<1>3. \A t : TargetAllowed(t)' <=> TargetIn(entries', t)
  BY DEF TargetAllowed, TargetIn, Named, NamedIn
<1>4. QED
  BY <1>1, <1>2, <1>3 DEF Sound, IsSound, RowIsSound

LEMMA NextIsNames == \A d : Next1(d) \in SUBSET Names
BY DEF Next1

LEMMA GraphAt ==
  ASSUME NEW rows, OneName(rows), AreRows(rows)
  PROVE  /\ GraphOf(rows) \in [Names -> SUBSET Names]
         /\ \A id \in DOMAIN rows : GraphOf(rows)[rows[id].name] = Next1(rows[id].dialer)
         /\ \A n \in Names \ NamesOf(rows) : GraphOf(rows)[n] = {}
<1>1. \A n \in Names : GraphOf(rows)[n] =
        Next1(IF NamedIn(rows, n) = {} THEN {} ELSE rows[CHOOSE id \in NamedIn(rows, n) : TRUE].dialer)
  BY DEF GraphOf
<1>2. GraphOf(rows) \in [Names -> SUBSET Names]
  BY NextIsNames DEF GraphOf
<1>3. ASSUME NEW id \in DOMAIN rows PROVE GraphOf(rows)[rows[id].name] = Next1(rows[id].dialer)
  <2>1. rows[id].name \in Names
    BY DEF AreRows, AnyRow
  <2>2. NamedIn(rows, rows[id].name) = {id}
    BY DEF OneName, NamedIn
  <2>3. QED
    BY <1>1, <2>1, <2>2
<1>4. ASSUME NEW n \in Names \ NamesOf(rows) PROVE GraphOf(rows)[n] = {}
  <2>1. NamedIn(rows, n) = {}
    BY DEF NamedIn, NamesOf
  <2>2. Next1({}) = {}
    BY DEF Next1
  <2>3. QED
    BY <1>1, <2>1, <2>2
<1>5. QED
  BY <1>2, <1>3, <1>4

(* A set of names that n is in, that nothing leads out of, and that has no  *)
(* ring: no cycle can be walked to from n.                                  *)
Tame(succ, n, S) ==
  /\ S \in SUBSET Names /\ n \in S
  /\ \A m \in S : succ[m] \subseteq S
  /\ \A ring \in SUBSET S : ring # {} => \E m \in ring : succ[m] \cap ring = {}

LEMMA TameIs == \A succ, n : ~CycleFrom(succ, n) <=> \E S : Tame(succ, n, S)
BY DEF CycleFrom, Tame

\* Some names get new successors.
LEMMA Merges ==
  ASSUME NEW old, NEW new, NEW C \in SUBSET Names, \A m \in Names \ C : new[m] = old[m],
         \A m \in C : ~CycleFrom(new, m), NEW n \in Names, ~CycleFrom(old, n)
  PROVE  ~CycleFrom(new, n)
<1>1. PICK S : Tame(old, n, S)
  BY TameIs
<1> DEFINE of == [m \in C |-> CHOOSE T : Tame(new, m, T)]
           all == S \cup UNION {of[m] : m \in C}
<1>2. \A m \in C : Tame(new, m, of[m])
  BY TameIs
<1> HIDE DEF of
<1>3. all \in SUBSET Names /\ n \in all
  BY <1>1, <1>2 DEF Tame
<1>4. ASSUME NEW m \in all PROVE new[m] \subseteq all
  <2>1. CASE \E k \in C : m \in of[k]
    BY <1>2, <2>1 DEF Tame
  <2>2. CASE m \in S /\ m \notin C
    BY <1>1, <2>2 DEF Tame
  <2>3. CASE m \in C
    BY <1>2, <2>3 DEF Tame
  <2>4. QED
    BY <2>1, <2>2, <2>3
<1>5. ASSUME NEW ring \in SUBSET all, ring # {} PROVE \E m \in ring : new[m] \cap ring = {}
  <2>1. CASE \E k \in C : ring \cap of[k] # {}
    <3>1. PICK k \in C : ring \cap of[k] # {}
      BY <2>1
    <3>2. PICK m \in ring \cap of[k] : new[m] \cap (ring \cap of[k]) = {}
      BY <1>2, <3>1 DEF Tame
    <3>3. new[m] \subseteq of[k]
      BY <1>2, <3>2 DEF Tame
    <3>4. QED
      BY <3>2, <3>3
  <2>2. CASE \A k \in C : ring \cap of[k] = {}
    <3>1. ring \in SUBSET S /\ ring \cap C = {}
      BY <1>2, <1>5, <2>2 DEF Tame
    <3>2. PICK m \in ring : old[m] \cap ring = {}
      BY <1>1, <1>5, <3>1 DEF Tame
    <3>3. new[m] = old[m]
      BY <1>3, <3>1, <3>2
    <3>4. QED
      BY <3>2, <3>3
  <2>3. QED
    BY <2>1, <2>2
<1> HIDE DEF all
<1>6. Tame(new, n, all)
  BY <1>3, <1>4, <1>5 DEF Tame
<1>7. QED
  BY <1>6, TameIs

\* A name that nothing leads to leads where another does.
LEMMA Copied ==
  ASSUME NEW old, NEW new, NEW src \in Names, NEW n \in Names, n # src, \A m \in Names : n \notin old[m],
         new[n] = old[src], \A m \in Names \ {n} : new[m] = old[m], ~CycleFrom(old, src)
  PROVE  ~CycleFrom(new, n)
<1>1. PICK S : Tame(old, src, S)
  BY TameIs
<1> DEFINE all == S \cup {n}
<1>2. all \in SUBSET Names
  BY <1>1 DEF Tame
<1>3. \A m \in all : new[m] \subseteq all
  BY <1>1 DEF Tame
<1>4. ASSUME NEW ring \in SUBSET all, ring # {} PROVE \E m \in ring : new[m] \cap ring = {}
  <2>1. CASE ring = {n}
    BY <2>1
  <2>2. CASE ring # {n}
    <3>1. ring \ {n} \in SUBSET S /\ ring \ {n} # {}
      BY <1>4, <2>2
    <3>2. PICK m \in ring \ {n} : old[m] \cap (ring \ {n}) = {}
      BY <1>1, <3>1 DEF Tame
    <3>3. m \in Names /\ new[m] = old[m] /\ n \notin old[m]
      BY <1>2, <3>2
    <3>4. QED
      BY <3>2, <3>3
  <2>3. QED
    BY <2>1, <2>2
<1> HIDE DEF all
<1>5. Tame(new, n, all)
  BY <1>2, <1>3, <1>4 DEF Tame, all
<1>6. QED
  BY <1>5, TameIs

\* A name that nothing leads to takes the place of another.
Moved(n, from, to) == IF n = from THEN to ELSE n
LEMMA Renamed ==
  ASSUME NEW old, NEW new, NEW from \in Names, NEW to \in Names, from # to, \A m \in Names : to \notin old[m],
         \A m \in Names \ {to} : new[Moved(m, from, to)] = {Moved(k, from, to) : k \in old[m]},
         NEW n \in Names \ {to}, ~CycleFrom(old, n)
  PROVE  ~CycleFrom(new, Moved(n, from, to))
<1> DEFINE At2(m) == Moved(m, from, to)
<1>1. PICK S : Tame(old, n, S)
  BY TameIs
<1> DEFINE T == S \ {to}
           all == {At2(m) : m \in T}
<1>2. T \in SUBSET Names /\ n \in T /\ (\A m \in T : old[m] \subseteq T)
      /\ \A ring \in SUBSET T : ring # {} => \E m \in ring : old[m] \cap ring = {}
  BY <1>1 DEF Tame
<1>3. \A m \in T : new[At2(m)] = {At2(k) : k \in old[m]}
  BY <1>2
<1>4. all \in SUBSET Names /\ At2(n) \in all
  BY <1>2 DEF Moved
<1> HIDE DEF T
<1>5. \A x \in all : new[x] \subseteq all
  BY <1>2, <1>3
<1>6. ASSUME NEW ring \in SUBSET all, ring # {} PROVE \E x \in ring : new[x] \cap ring = {}
  <2> DEFINE back == {m \in T : At2(m) \in ring}
  <2>1. back \in SUBSET T /\ back # {}
    BY <1>6
  <2>2. PICK m \in back : old[m] \cap back = {}
    BY <1>2, <2>1
  <2>3. ASSUME NEW x \in new[At2(m)], x \in ring PROVE FALSE
    <3>1. PICK k \in old[m] : x = At2(k)
      BY <1>3, <2>2, <2>3
    <3>2. k \in T
      BY <1>2, <2>2, <3>1
    <3>3. QED
      BY <2>2, <2>3, <3>1, <3>2
  <2>4. QED
    BY <2>2, <2>3
<1>7. Tame(new, At2(n), all)
  <2> HIDE DEF all
  <2>1. QED
    BY <1>4, <1>5, <1>6 DEF Tame
<1>8. QED
  BY <1>7, TameIs

(* A row that is sound is added.                                            *)
LEMMA AddedIsSound ==
  ASSUME NEW rows, OneName(rows), AreRows(rows), NEW names, NEW ins, IsSound(rows, names, ins),
         NEW id, NEW row \in AnyRow, id \notin DOMAIN rows, row.name \notin NamesOf(rows),
         MasterAllowed(row), Next1(row.dialer) \subseteq NamesOf(rows),
         \A s \in SubNames : SubRef(s) \in row.dialer => s \in names,
         ~CycleFrom([GraphOf(rows) EXCEPT ![row.name] = Next1(row.dialer)], row.name)
  PROVE  IsSound(Stored(rows, id, row), names, ins)
<1> DEFINE new == Stored(rows, id, row)
<1>1. /\ DOMAIN new = DOMAIN rows \cup {id} /\ new[id] = row
      /\ \A i \in DOMAIN rows : i # id /\ new[i] = rows[i]
  BY DEF Stored
<1> HIDE DEF new
<1>2. OneName(new) /\ AreRows(new)
  <2>1. \A i \in DOMAIN rows : rows[i].name # row.name
    BY DEF NamesOf
  <2>2. QED
    BY <1>1, <2>1 DEF OneName, AreRows
<1>3. NamesOf(rows) \subseteq NamesOf(new)
  BY <1>1 DEF NamesOf
<1>4. row.name \in Names
  BY DEF AnyRow
<1>5. GraphOf(new) = [GraphOf(rows) EXCEPT ![row.name] = Next1(row.dialer)]
  <2>1. GraphOf(rows) \in [Names -> SUBSET Names] /\ GraphOf(new) \in [Names -> SUBSET Names]
    BY <1>2, GraphAt
  <2>2. GraphOf(new)[row.name] = Next1(row.dialer)
    BY <1>1, <1>2, GraphAt
  <2>3. ASSUME NEW n \in Names \ {row.name} PROVE GraphOf(new)[n] = GraphOf(rows)[n]
    <3>1. CASE n \in NamesOf(rows)
      <4>1. PICK i \in DOMAIN rows : rows[i].name = n
        BY <3>1 DEF NamesOf
      <4>2. QED
        BY <1>1, <1>2, <4>1, GraphAt
    <3>2. CASE n \notin NamesOf(rows)
      <4>1. n \notin NamesOf(new)
        BY <1>1, <3>2 DEF NamesOf
      <4>2. QED
        BY <1>2, <3>2, <4>1, GraphAt
    <3>3. QED
      BY <3>1, <3>2
  <2>4. QED
    BY <1>4, <2>1, <2>2, <2>3
<1>6. ASSUME NEW n \in Names, ~CycleFrom(GraphOf(rows), n)
      PROVE  ~CycleFrom(GraphOf(new), n)
  <2> DEFINE C == {row.name}
             G == GraphOf(rows)
             H == GraphOf(new)
  <2>1. G \in [Names -> SUBSET Names]
    BY GraphAt
  <2>2. \A m \in Names \ C : H[m] = G[m]
    BY <1>5, <2>1
  <2>3. \A m \in C : ~CycleFrom(H, m)
    BY <1>5
  <2>4. C \in SUBSET Names /\ ~CycleFrom(G, n)
    BY <1>4, <1>6
  <2> HIDE DEF C, G, H
  <2>5. ~CycleFrom(H, n)
    BY <2>2, <2>3, <2>4, Merges
  <2>6. QED
    BY <2>5 DEF H
<1>7. ASSUME NEW i \in DOMAIN new PROVE RowIsSound(new, names, new[i])
  <2>1. CASE i = id
    BY <1>1, <1>3, <1>5, <2>1 DEF RowIsSound
  <2>2. CASE i # id
    <3>1. i \in DOMAIN rows /\ new[i] = rows[i] /\ RowIsSound(rows, names, rows[i]) /\ rows[i].name \in Names
      BY <1>1, <1>7, <2>2 DEF IsSound, AreRows, AnyRow
    <3>2. QED
      BY <1>3, <1>6, <3>1 DEF RowIsSound
  <2>3. QED
    BY <2>1, <2>2
<1>8. ASSUME NEW i \in DOMAIN ins PROVE TargetIn(new, ins[i])
  <2>1. TargetIn(rows, ins[i])
    BY DEF IsSound
  <2>2. QED
    BY <1>1, <2>1 DEF TargetIn, NamedIn
<1>9. QED
  BY <1>7, <1>8 DEF IsSound, new

(* A copy of a row under a name that no other has.                          *)
LEMMA CopyIsSound ==
  ASSUME NEW rows, OneName(rows), AreRows(rows), NEW names, NEW ins, IsSound(rows, names, ins),
         NEW id, id \notin DOMAIN rows, NEW src \in DOMAIN rows, NEW n \in Names, n \notin NamesOf(rows)
  PROVE  IsSound(Stored(rows, id, [rows[src] EXCEPT !.name = n]), names, ins)
<1> DEFINE row == [rows[src] EXCEPT !.name = n]
           G == GraphOf(rows)
           H == [G EXCEPT ![n] = Next1(row.dialer)]
<1>1. rows[src] \in AnyRow /\ RowIsSound(rows, names, rows[src])
  BY DEF AreRows, IsSound
<1>2. row \in AnyRow /\ row.name = n /\ row.dialer = rows[src].dialer /\ row.kind = rows[src].kind
  BY <1>1 DEF AnyRow
<1> HIDE DEF row
<1>3. G \in [Names -> SUBSET Names] /\ G[rows[src].name] = Next1(row.dialer)
  BY <1>2, GraphAt
<1>4. ASSUME NEW m \in Names PROVE n \notin G[m]
  <2>1. CASE m \in NamesOf(rows)
    <3>1. PICK i \in DOMAIN rows : rows[i].name = m
      BY <2>1 DEF NamesOf
    <3>2. G[m] \subseteq NamesOf(rows)
      BY <3>1, GraphAt DEF IsSound, RowIsSound
    <3>3. QED
      BY <3>2
  <2>2. CASE m \notin NamesOf(rows)
    BY <2>2, GraphAt
  <2>3. QED
    BY <2>1, <2>2
<1>5. rows[src].name \in Names /\ rows[src].name # n /\ ~CycleFrom(G, rows[src].name)
  BY <1>1 DEF AnyRow, RowIsSound, NamesOf
<1> HIDE DEF G
<1>6. H[n] = G[rows[src].name] /\ \A m \in Names \ {n} : H[m] = G[m]
  BY <1>3
<1> HIDE DEF H
<1>7. ~CycleFrom(H, n)
  BY <1>4, <1>5, <1>6, Copied
<1>8. MasterAllowed(row)
  BY <1>1, <1>2 DEF RowIsSound, MasterAllowed, IsMaster
<1>9. Next1(row.dialer) \subseteq NamesOf(rows) /\ \A s \in SubNames : SubRef(s) \in row.dialer => s \in names
  BY <1>1, <1>2 DEF RowIsSound
<1>10. IsSound(Stored(rows, id, row), names, ins)
  BY <1>2, <1>7, <1>8, <1>9, AddedIsSound DEF H, G
<1>11. QED
  BY <1>10 DEF row

(* A row keeps its name and its dialer.                                     *)
LEMMA EditIsSound ==
  ASSUME NEW rows, OneName(rows), AreRows(rows), NEW names, NEW ins, IsSound(rows, names, ins),
         NEW id \in DOMAIN rows, NEW row \in AnyRow, row.name = rows[id].name, row.dialer = rows[id].dialer,
         MasterAllowed(row)
  PROVE  IsSound(Stored(rows, id, row), names, ins)
<1> DEFINE new == Stored(rows, id, row)
<1>1. /\ DOMAIN new = DOMAIN rows
      /\ \A i \in DOMAIN rows : new[i].name = rows[i].name /\ new[i].dialer = rows[i].dialer
      /\ \A i \in DOMAIN rows : new[i] \in AnyRow
  BY DEF Stored, AreRows
<1>2. \A i \in DOMAIN rows : new[i] = IF i = id THEN row ELSE rows[i]
  BY DEF Stored
<1> HIDE DEF new
<1>3. OneName(new) /\ AreRows(new) /\ NamesOf(new) = NamesOf(rows)
  BY <1>1 DEF OneName, AreRows, NamesOf
<1>4. GraphOf(new) = GraphOf(rows)
  <2>1. GraphOf(rows) \in [Names -> SUBSET Names] /\ GraphOf(new) \in [Names -> SUBSET Names]
    BY <1>3, GraphAt
  <2>2. ASSUME NEW n \in Names PROVE GraphOf(new)[n] = GraphOf(rows)[n]
    <3>1. CASE n \in NamesOf(rows)
      <4>1. PICK i \in DOMAIN rows : rows[i].name = n
        BY <3>1 DEF NamesOf
      <4>2. QED
        BY <1>1, <1>3, <4>1, GraphAt
    <3>2. CASE n \notin NamesOf(rows)
      BY <1>3, <3>2, GraphAt
    <3>3. QED
      BY <3>1, <3>2
  <2>3. QED
    BY <2>1, <2>2
<1>5. ASSUME NEW i \in DOMAIN rows PROVE RowIsSound(new, names, new[i])
  <2>1. RowIsSound(rows, names, rows[i])
    BY DEF IsSound
  <2>2. MasterAllowed(new[i])
    BY <1>2, <2>1 DEF RowIsSound
  <2>3. QED
    BY <1>1, <1>3, <1>4, <2>1, <2>2 DEF RowIsSound
<1>6. ASSUME NEW i \in DOMAIN ins PROVE TargetIn(new, ins[i])
  <2>1. TargetIn(rows, ins[i])
    BY DEF IsSound
  <2>2. \A k \in DOMAIN rows : IsMaster(new[k]) <=> IsMaster(rows[k])
    BY <1>1 DEF IsMaster
  <2>3. \A m : NamedIn(new, m) = NamedIn(rows, m)
    BY <1>1 DEF NamedIn
  <2>4. \A m : NamedIn(rows, m) \subseteq DOMAIN rows
    BY DEF NamedIn
  <2>5. QED
    BY <2>1, <2>2, <2>3, <2>4 DEF TargetIn
<1>7. QED
  BY <1>1, <1>5, <1>6 DEF IsSound, new

(* Dialers that were checked together are set together.                     *)
LEMMA DialersAreSound ==
  ASSUME NEW rows, OneName(rows), AreRows(rows), NEW names, NEW ins, IsSound(rows, names, ins),
         NEW D, NEW new, DOMAIN new = DOMAIN rows,
         \A i \in DOMAIN rows : new[i] \in AnyRow /\ new[i].name = rows[i].name,
         \A i \in DOMAIN rows \ D : new[i] = rows[i], D \in SUBSET DOMAIN rows,
         \A i \in D : /\ MasterAllowed(new[i]) /\ Next1(new[i].dialer) \subseteq NamesOf(rows)
                      /\ \A s \in SubNames : SubRef(s) \in new[i].dialer => s \in names
                      /\ ~CycleFrom(GraphOf(new), new[i].name)
                      /\ new[i].dialer = {} => \A k \in DOMAIN ins : ins[k] # <<"master", new[i].name>>,
         AreTargets(ins)
  PROVE  IsSound(new, names, ins)
<1>1. OneName(new) /\ AreRows(new) /\ NamesOf(new) = NamesOf(rows)
  BY DEF OneName, AreRows, NamesOf
<1> DEFINE C == {new[i].name : i \in D}
<1>2. C \in SUBSET Names
  BY DEF AnyRow
<1>3. \A m \in C : ~CycleFrom(GraphOf(new), m)
  OBVIOUS
<1>4. ASSUME NEW m \in Names \ C PROVE GraphOf(new)[m] = GraphOf(rows)[m]
  <2>1. CASE m \in NamesOf(rows)
    <3>1. PICK i \in DOMAIN rows : rows[i].name = m
      BY <2>1 DEF NamesOf
    <3>2. new[i] = rows[i]
      BY <3>1
    <3>3. QED
      BY <1>1, <3>1, <3>2, GraphAt
  <2>2. CASE m \notin NamesOf(rows)
    BY <1>1, <2>2, GraphAt
  <2>3. QED
    BY <2>1, <2>2
<1> HIDE DEF C
<1>5. ASSUME NEW n \in Names, ~CycleFrom(GraphOf(rows), n) PROVE ~CycleFrom(GraphOf(new), n)
  BY <1>2, <1>3, <1>4, <1>5, Merges
<1>6. ASSUME NEW i \in DOMAIN rows PROVE RowIsSound(new, names, new[i])
  <2>1. CASE i \in D
    BY <1>1, <2>1 DEF RowIsSound
  <2>2. CASE i \notin D
    <3>1. new[i] = rows[i] /\ RowIsSound(rows, names, rows[i]) /\ rows[i].name \in Names
      BY <2>2 DEF IsSound, AreRows, AnyRow
    <3>2. QED
      BY <1>1, <1>5, <3>1 DEF RowIsSound
  <2>3. QED
    BY <2>1, <2>2
<1>7. ASSUME NEW k \in DOMAIN ins, ins[k] # Direct PROVE TargetIn(new, ins[k])
  <2>1. TargetIn(rows, ins[k]) /\ ins[k] \in {"master", "xray"} \X Names
    BY <1>7 DEF IsSound, AreTargets, Targets
  <2>2. PICK i \in NamedIn(rows, ins[k][2]) : ins[k][1] = "master" => IsMaster(rows[i])
    BY <1>7, <2>1 DEF TargetIn
  <2>3. i \in DOMAIN rows /\ new[i].name = ins[k][2]
    BY <2>2 DEF NamedIn
  <2>4. ins[k][1] = "master" => IsMaster(new[i])
    <3>1. CASE i \in D
      <4>1. ins[k][1] = "master" => ins[k] = <<"master", new[i].name>>
        BY <2>1, <2>3
      <4>2. QED
        BY <3>1, <4>1 DEF IsMaster
    <3>2. CASE i \notin D
      BY <2>2, <2>3, <3>2
    <3>3. QED
      BY <3>1, <3>2
  <2>5. QED
    BY <2>3, <2>4 DEF TargetIn, NamedIn
<1>8. QED
  BY <1>6, <1>7 DEF IsSound, TargetIn

(* What a cascade makes of one dialer.                                      *)
LEMMA RenamedEmpty == \A d, old, new : RenameRef(d, old, new) = {} <=> d = {}
BY DEF RenameRef

LEMMA RefsDiffer ==
  /\ \A m, k : XrayRef(m) = XrayRef(k) <=> m = k
  /\ \A s, t : SubRef(s) = SubRef(t) <=> s = t
  /\ \A m, s : XrayRef(m) # SubRef(s)
BY DEF XrayRef, SubRef

LEMMA RenamedSubs ==
  \A d, from, to, s : SubRef(s) \in RenameRef(d, XrayRef(from), XrayRef(to)) <=> SubRef(s) \in d
BY RefsDiffer DEF RenameRef

AllMoved(S, from, to) == {Moved(m, from, to) : m \in S}

LEMMA RenamedNext ==
  ASSUME NEW d, NEW from \in Names, NEW to \in Names
  PROVE  Next1(RenameRef(d, XrayRef(from), XrayRef(to))) = AllMoved(Next1(d), from, to)
<1> DEFINE e == RenameRef(d, XrayRef(from), XrayRef(to))
<1>1. \A r : r \in e <=> \E x \in d : r = IF x = XrayRef(from) THEN XrayRef(to) ELSE x
  BY DEF RenameRef
<1> HIDE DEF e
<1>2. \A m : m \in Next1(e) <=> m \in Names /\ XrayRef(m) \in e
  BY DEF Next1
<1>3. \A m : m \in Next1(d) <=> m \in Names /\ XrayRef(m) \in d
  BY DEF Next1
<1>4. ASSUME NEW m \in Next1(e) PROVE m \in AllMoved(Next1(d), from, to)
  <2>1. PICK x \in d : XrayRef(m) = IF x = XrayRef(from) THEN XrayRef(to) ELSE x
    BY <1>1, <1>2
  <2>2. m \in Names
    BY <1>2
  <2>3. CASE x = XrayRef(from)
    <3>1. m = to /\ from \in Next1(d)
      BY <1>3, <2>1, <2>3, RefsDiffer
    <3>2. Moved(from, from, to) = to
      BY DEF Moved
    <3>3. QED
      BY <3>1, <3>2 DEF AllMoved
  <2>4. CASE x # XrayRef(from)
    <3>1. m \in Next1(d) /\ m # from
      BY <1>3, <2>1, <2>2, <2>4
    <3>2. Moved(m, from, to) = m
      BY <3>1 DEF Moved
    <3>3. QED
      BY <3>1, <3>2 DEF AllMoved
  <2>5. QED
    BY <2>3, <2>4
<1>5. ASSUME NEW k \in Next1(d) PROVE Moved(k, from, to) \in Next1(e)
  <2>1. k \in Names /\ XrayRef(k) \in d
    BY <1>3
  <2>2. CASE k = from
    BY <1>1, <1>2, <2>1, <2>2 DEF Moved
  <2>3. CASE k # from
    BY <1>1, <1>2, <2>1, <2>3, RefsDiffer DEF Moved
  <2>4. QED
    BY <2>2, <2>3
<1>6. QED
  BY <1>4, <1>5 DEF AllMoved, e

\* The rows after an entry's rename.
IsRenamed(r, after, old, n) ==
  /\ after.name = Moved(r.name, old, n)
  /\ after.dialer = RenameRef(r.dialer, XrayRef(old), XrayRef(n))
  /\ after.kind = r.kind

Cascaded(rows, id, n) == Cascade([rows EXCEPT ![id].name = n], XrayRef(rows[id].name), XrayRef(n))

LEMMA RowsRenamed ==
  ASSUME NEW rows, OneName(rows), AreRows(rows), NEW id \in DOMAIN rows, NEW n \in Names, NEW old, old = rows[id].name,
         NEW new, new = Cascaded(rows, id, n)
  PROVE  /\ DOMAIN new = DOMAIN rows
         /\ \A i \in DOMAIN rows : IsRenamed(rows[i], new[i], old, n)
<1>1. DOMAIN new = DOMAIN rows
  BY DEF Cascade, Cascaded
<1>2. \A i \in DOMAIN rows : new[i] = [[rows EXCEPT ![id].name = n][i] EXCEPT
                                         !.dialer = RenameRef(@, XrayRef(old), XrayRef(n))]
  BY DEF Cascade, Cascaded
<1>3. \A i \in DOMAIN rows : rows[i] \in AnyRow
  BY DEF AreRows
<1>4. ASSUME NEW i \in DOMAIN rows
      PROVE  IsRenamed(rows[i], new[i], old, n)
  <2>1. CASE i = id
    BY <1>2, <1>3, <2>1 DEF AnyRow, Moved, IsRenamed
  <2>2. CASE i # id
    <3>1. rows[i].name # old
      BY <2>2 DEF OneName
    <3>2. QED
      BY <1>2, <1>3, <2>2, <3>1 DEF AnyRow, Moved, IsRenamed
  <2>3. QED
    BY <2>1, <2>2
<1>5. QED
  BY <1>1, <1>4

\* Who names whom goes along.
LEMMA GraphRenamed ==
  ASSUME NEW rows, OneName(rows), AreRows(rows), NEW old \in NamesOf(rows), NEW n \in Names,
         n = old \/ n \notin NamesOf(rows),
         \A i \in DOMAIN rows : Next1(rows[i].dialer) \subseteq NamesOf(rows),
         NEW new, OneName(new), AreRows(new), DOMAIN new = DOMAIN rows,
         \A i \in DOMAIN rows : /\ new[i].name = Moved(rows[i].name, old, n)
                                /\ Next1(new[i].dialer) = AllMoved(Next1(rows[i].dialer), old, n),
         NEW m \in NamesOf(rows), ~CycleFrom(GraphOf(rows), m)
  PROVE  ~CycleFrom(GraphOf(new), Moved(m, old, n))
<1> DEFINE G == GraphOf(rows)
           H == GraphOf(new)
<1>0. NamesOf(rows) \subseteq Names
  BY DEF NamesOf, AreRows, AnyRow
<1>1. /\ G \in [Names -> SUBSET Names] /\ H \in [Names -> SUBSET Names]
      /\ \A k \in DOMAIN rows : G[rows[k].name] = Next1(rows[k].dialer)
      /\ \A k \in DOMAIN new : H[new[k].name] = Next1(new[k].dialer)
      /\ \A x \in Names \ NamesOf(rows) : G[x] = {}
      /\ \A x \in Names \ NamesOf(new) : H[x] = {}
  BY GraphAt
<1> HIDE DEF G, H
<1>2. \A x \in NamesOf(rows) : \E k \in DOMAIN rows : rows[k].name = x
  BY DEF NamesOf
<1>3. \A x \in Names : G[x] \subseteq NamesOf(rows)
  <2>1. ASSUME NEW x \in NamesOf(rows) PROVE G[x] \subseteq NamesOf(rows)
    <3>1. PICK k \in DOMAIN rows : rows[k].name = x
      BY <1>2
    <3>2. QED
      BY <1>1, <3>1
  <2>2. QED
    BY <1>1, <2>1
<1>4. ASSUME NEW x \in NamesOf(rows) PROVE H[Moved(x, old, n)] = AllMoved(G[x], old, n)
  <2>1. PICK k \in DOMAIN rows : rows[k].name = x
    BY <1>2
  <2>2. H[Moved(x, old, n)] = Next1(new[k].dialer) /\ G[x] = Next1(rows[k].dialer)
    BY <1>1, <2>1
  <2>3. QED
    BY <2>2
<1>5. ASSUME NEW x \in Names \ NamesOf(rows), x # n PROVE H[Moved(x, old, n)] = AllMoved(G[x], old, n)
  <2>1. Moved(x, old, n) = x
    BY DEF Moved
  <2>2. x \notin NamesOf(new)
    <3>1. ASSUME NEW k \in DOMAIN new, new[k].name = x PROVE FALSE
      <4>1. x = Moved(rows[k].name, old, n) /\ rows[k].name \in NamesOf(rows)
        BY <3>1 DEF NamesOf
      <4>2. QED
        BY <1>5, <4>1 DEF Moved
    <3>2. QED
      BY <3>1 DEF NamesOf
  <2>3. H[x] = {} /\ G[x] = {}
    BY <1>1, <2>2
  <2>4. QED
    BY <2>1, <2>3 DEF AllMoved
<1>6. CASE n = old
  <2>1. \A x : Moved(x, old, n) = x
    BY <1>6 DEF Moved
  <2>2. \A S : AllMoved(S, old, n) = S
    BY <2>1 DEF AllMoved
  <2>3. \A x \in Names : H[x] = G[x]
    BY <1>4, <1>5, <1>6, <2>1, <2>2
  <2> DEFINE C == {}
  <2>4. C \in SUBSET Names /\ (\A x \in Names \ C : H[x] = G[x]) /\ \A x \in C : ~CycleFrom(H, x)
    BY <2>3
  <2>5. m \in Names /\ ~CycleFrom(G, m)
    BY <1>0 DEF G
  <2> HIDE DEF C
  <2>6. ~CycleFrom(H, m)
    BY <2>4, <2>5, Merges
  <2>7. QED
    BY <2>1, <2>6 DEF H
<1>7. CASE n # old
  <2>1. \A x \in Names : n \notin G[x]
    BY <1>3, <1>7
  <2>2. \A x \in Names \ {n} : H[Moved(x, old, n)] = {Moved(k, old, n) : k \in G[x]}
    BY <1>4, <1>5 DEF AllMoved
  <2>3. m \in Names \ {n} /\ old \in Names /\ ~CycleFrom(G, m)
    BY <1>0, <1>7 DEF G
  <2>4. ~CycleFrom(H, Moved(m, old, n))
    BY <1>7, <2>1, <2>2, <2>3, Renamed
  <2>5. QED
    BY <2>4 DEF H
<1>8. QED
  BY <1>6, <1>7

LEMMA EntryRenameIsSound ==
  ASSUME NEW rows, OneName(rows), AreRows(rows), NEW names, NEW ins, AreTargets(ins), IsSound(rows, names, ins),
         NEW id \in DOMAIN rows, NEW n \in Names, \A i \in DOMAIN rows \ {id} : rows[i].name # n,
         NEW old, old = rows[id].name,
         NEW new, DOMAIN new = DOMAIN rows, \A i \in DOMAIN rows : IsRenamed(rows[i], new[i], old, n),
         OneName(new), AreRows(new)
  PROVE  IsSound(new, names, [i \in DOMAIN ins |-> RenameTarget(ins[i], old, n)])
<1> DEFINE tgt == [i \in DOMAIN ins |-> RenameTarget(ins[i], old, n)]
<1>1. old \in Names /\ \A i \in DOMAIN rows : rows[i] \in AnyRow /\ RowIsSound(rows, names, rows[i])
  BY DEF AreRows, AnyRow, IsSound
<1>2. \A i \in DOMAIN rows : /\ new[i].name = Moved(rows[i].name, old, n)
                             /\ new[i].dialer = RenameRef(rows[i].dialer, XrayRef(old), XrayRef(n))
                             /\ new[i].kind = rows[i].kind
  BY DEF IsRenamed
<1>3. \A i \in DOMAIN rows : Next1(new[i].dialer) = AllMoved(Next1(rows[i].dialer), old, n)
  BY <1>1, <1>2, RenamedNext
<1>4. \A x \in NamesOf(rows) : Moved(x, old, n) \in NamesOf(new)
  BY <1>2 DEF NamesOf
<1>5. old \in NamesOf(rows) /\ (n = old \/ n \notin NamesOf(rows))
  BY DEF NamesOf
<1>6. \A i \in DOMAIN rows : Next1(rows[i].dialer) \subseteq NamesOf(rows)
  BY <1>1 DEF RowIsSound
<1>7. ASSUME NEW i \in DOMAIN new PROVE RowIsSound(new, names, new[i])
  <2>1. RowIsSound(rows, names, rows[i]) /\ i \in DOMAIN rows /\ rows[i].name \in NamesOf(rows)
    BY <1>1, <1>2 DEF NamesOf
  <2>2. Next1(new[i].dialer) \subseteq NamesOf(new)
    <3>1. Next1(rows[i].dialer) \subseteq NamesOf(rows) /\ Next1(new[i].dialer) = AllMoved(Next1(rows[i].dialer), old, n)
      BY <1>3, <1>6, <2>1
    <3>2. \A x \in Next1(rows[i].dialer) : Moved(x, old, n) \in NamesOf(new)
      BY <1>4, <3>1
    <3>3. QED
      BY <3>1, <3>2 DEF AllMoved
  <2>3. new[i].dialer = {} <=> rows[i].dialer = {}
    BY <1>2, <2>1, RenamedEmpty
  <2>4. MasterAllowed(new[i])
    BY <1>2, <2>1, <2>3 DEF RowIsSound, MasterAllowed, IsMaster
  <2>5. \A s \in SubNames : SubRef(s) \in new[i].dialer => SubRef(s) \in rows[i].dialer
    BY <1>2, <2>1, RenamedSubs
  <2>6. ~CycleFrom(GraphOf(rows), rows[i].name)
    BY <2>1 DEF RowIsSound
  <2>7. ~CycleFrom(GraphOf(new), Moved(rows[i].name, old, n))
    BY <1>2, <1>3, <1>5, <1>6, <2>1, <2>6, GraphRenamed
  <2>8. ~CycleFrom(GraphOf(new), new[i].name)
    BY <1>2, <2>1, <2>7
  <2>9. QED
    BY <2>1, <2>2, <2>4, <2>5, <2>8 DEF RowIsSound
<1>8. ASSUME NEW k \in DOMAIN ins, tgt[k] # Direct PROVE TargetIn(new, tgt[k])
  <2>1. ins[k] \in Targets /\ TargetIn(rows, ins[k]) /\ tgt[k] = RenameTarget(ins[k], old, n)
    BY DEF IsSound, AreTargets
  <2>2. ins[k] # Direct
    BY <1>8, <2>1 DEF RenameTarget, Direct
  <2>3. ins[k] \in {"master", "xray"} \X Names /\ ins[k] = <<ins[k][1], ins[k][2]>>
    BY <2>1, <2>2 DEF Targets
  <2>4. tgt[k][1] = ins[k][1] /\ tgt[k][2] = Moved(ins[k][2], old, n)
    BY <2>1, <2>3 DEF RenameTarget, Moved
  <2>5. PICK i \in DOMAIN rows : rows[i].name = ins[k][2] /\ (ins[k][1] = "master" => IsMaster(rows[i]))
    BY <2>1, <2>2 DEF TargetIn, NamedIn
  <2>6. i \in DOMAIN new /\ new[i].name = tgt[k][2]
    BY <1>2, <2>4, <2>5
  <2>7. IsMaster(new[i]) <=> IsMaster(rows[i])
    BY <1>2, <2>5, RenamedEmpty DEF IsMaster
  <2>8. i \in NamedIn(new, tgt[k][2]) /\ (tgt[k][1] = "master" => IsMaster(new[i]))
    BY <2>4, <2>5, <2>6, <2>7 DEF NamedIn
  <2>9. QED
    BY <2>8 DEF TargetIn
<1>9. \A k \in DOMAIN tgt : TargetIn(new, tgt[k])
  BY <1>8 DEF TargetIn
<1>10. QED
  BY <1>7, <1>9 DEF IsSound

LEMMA SameGraph ==
  ASSUME NEW rows, OneName(rows), AreRows(rows), NEW new, OneName(new), AreRows(new), DOMAIN new = DOMAIN rows,
         \A i \in DOMAIN rows : new[i].name = rows[i].name /\ Next1(new[i].dialer) = Next1(rows[i].dialer)
  PROVE  GraphOf(new) = GraphOf(rows) /\ NamesOf(new) = NamesOf(rows)
<1>1. GraphOf(rows) \in [Names -> SUBSET Names] /\ GraphOf(new) \in [Names -> SUBSET Names]
  BY GraphAt
<1>2. NamesOf(new) = NamesOf(rows)
  BY DEF NamesOf
<1>3. ASSUME NEW n \in Names PROVE GraphOf(new)[n] = GraphOf(rows)[n]
  <2>1. CASE n \in NamesOf(rows)
    <3>1. PICK i \in DOMAIN rows : rows[i].name = n
      BY <2>1 DEF NamesOf
    <3>2. QED
      BY <3>1, GraphAt
  <2>2. CASE n \notin NamesOf(rows)
    BY <1>2, <2>2, GraphAt
  <2>3. QED
    BY <2>1, <2>2
<1>4. QED
  BY <1>1, <1>2, <1>3

LEMMA SubRenameIsSound ==
  ASSUME NEW rows, OneName(rows), AreRows(rows), NEW names, NEW ins, IsSound(rows, names, ins),
         NEW from \in names, NEW to \in SubNames, NEW later, \A s \in names : Moved(s, from, to) \in later,
         NEW new, new = Cascade(rows, SubRef(from), SubRef(to)), OneName(new), AreRows(new)
  PROVE  IsSound(new, later, ins)
<1>1. \A i \in DOMAIN rows : rows[i] \in AnyRow /\ RowIsSound(rows, names, rows[i])
  BY DEF AreRows, IsSound
<1>2. /\ DOMAIN new = DOMAIN rows
      /\ \A i \in DOMAIN rows : /\ new[i].name = rows[i].name /\ new[i].kind = rows[i].kind
                                /\ new[i].dialer = RenameRef(rows[i].dialer, SubRef(from), SubRef(to))
  BY <1>1 DEF Cascade, AnyRow
<1>3. \A d, r : r \in RenameRef(d, SubRef(from), SubRef(to)) <=>
                  \E x \in d : r = IF x = SubRef(from) THEN SubRef(to) ELSE x
  BY DEF RenameRef
<1>4. (\A m, s : XrayRef(m) # SubRef(s)) /\ \A s, t : SubRef(s) = SubRef(t) <=> s = t
  BY RefsDiffer
<1>5. \A d : Next1(RenameRef(d, SubRef(from), SubRef(to))) = Next1(d)
  <2> TAKE d
  <2>1. \A m \in Names : XrayRef(m) \in RenameRef(d, SubRef(from), SubRef(to)) <=> XrayRef(m) \in d
    BY <1>3, <1>4
  <2>2. QED
    BY <2>1 DEF Next1
<1>6. GraphOf(new) = GraphOf(rows) /\ NamesOf(new) = NamesOf(rows)
  BY <1>2, <1>5, SameGraph
<1>7. ASSUME NEW i \in DOMAIN rows PROVE RowIsSound(new, later, new[i])
  <2>1. new[i].dialer = {} <=> rows[i].dialer = {}
    BY <1>2, RenamedEmpty
  <2>2. MasterAllowed(new[i])
    BY <1>1, <1>2, <2>1 DEF RowIsSound, MasterAllowed, IsMaster
  <2>3. ASSUME NEW s \in SubNames, SubRef(s) \in new[i].dialer PROVE s \in later
    <3>1. PICK x \in rows[i].dialer : SubRef(s) = IF x = SubRef(from) THEN SubRef(to) ELSE x
      BY <1>2, <1>3, <2>3
    <3>2. CASE x = SubRef(from)
      BY <1>4, <3>1, <3>2 DEF Moved
    <3>3. CASE x # SubRef(from)
      <4>1. SubRef(s) \in rows[i].dialer /\ s # from
        BY <3>1, <3>3
      <4>2. s \in names
        BY <1>1, <4>1 DEF RowIsSound
      <4>3. QED
        BY <4>1, <4>2 DEF Moved
    <3>4. QED
      BY <3>2, <3>3
  <2>4. QED
    BY <1>1, <1>2, <1>5, <1>6, <2>2, <2>3 DEF RowIsSound
<1>8. ASSUME NEW k \in DOMAIN ins PROVE TargetIn(new, ins[k])
  <2>1. TargetIn(rows, ins[k])
    BY DEF IsSound
  <2>2. \A i \in DOMAIN rows : IsMaster(new[i]) <=> IsMaster(rows[i])
    BY <1>2, RenamedEmpty DEF IsMaster
  <2>3. QED
    BY <1>2, <2>1, <2>2 DEF TargetIn, NamedIn
<1>9. QED
  BY <1>2, <1>7, <1>8 DEF IsSound

(* What a call has checked, of the tables as they are.                      *)
MayAdd(rows, names, row) ==
  /\ MasterAllowed(row)
  /\ Next1(row.dialer) \subseteq NamesOf(rows)
  /\ \A s \in SubNames : SubRef(s) \in row.dialer => s \in names
  /\ ~CycleFrom([GraphOf(rows) EXCEPT ![row.name] = Next1(row.dialer)], row.name)

WithDialers(rows, set) ==
  [id \in DOMAIN rows |-> IF id \in DOMAIN set THEN [rows[id] EXCEPT !.dialer = set[id]] ELSE rows[id]]

MaySet(rows, names, ins, set, id) ==
  /\ MasterAllowed([rows[id] EXCEPT !.dialer = set[id]])
  /\ Next1(set[id]) \subseteq NamesOf(rows)
  /\ \A s \in SubNames : SubRef(s) \in set[id] => s \in names
  /\ ~CycleFrom(GraphOf(WithDialers(rows, set)), rows[id].name)
  /\ set[id] = {} => \A i \in DOMAIN ins : ins[i] # <<"master", rows[id].name>>

MayEdit(rows, id, row) ==
  /\ id \in DOMAIN rows
  /\ row.name = rows[id].name /\ row.dialer = rows[id].dialer
  /\ MasterAllowed(rows[id]) => MasterAllowed(row)

ChecksOn(k, rows, names, ins) ==
  /\ k.op = "add" => MayAdd(rows, names, k.row)
  /\ k.op = "duplicate" => \E id \in DOMAIN rows, n \in Names : k.row = [rows[id] EXCEPT !.name = n]
  /\ k.op \in {"mux", "config"} => MayEdit(rows, k.id, k.row)
  /\ k.op = "dialer" => DOMAIN k.set \subseteq DOMAIN rows /\ \A id \in DOMAIN k.set : MaySet(rows, names, ins, k.set, id)
  /\ k.op \in {"inbound", "target"} => TargetIn(rows, k.target) \/ \E i \in DOMAIN ins : k.target = ins[i]

StillChecked ==
  /\ DOMAIN undisturbed = Clients
  /\ \A c \in Clients : undisturbed[c] /\ call[c].at = "write" => ChecksOn(call[c], entries, StoredSubs, inbounds)

LEMMA AddChecks ==
  ASSUME NEW row, DialerAllowed(row.name, row.dialer, <<>>), MasterAllowed(row)
  PROVE  MayAdd(entries, StoredSubs, row)
<1>1. \A m \in Next1(row.dialer) : m \in NamesOf(entries)
  BY DEF DialerAllowed, Named, NamesOf
<1>2. \A m \in Names : DialerOf(m, <<>>) =
         IF NamedIn(entries, m) = {} THEN {} ELSE entries[CHOOSE id \in NamedIn(entries, m) : TRUE].dialer
  BY DEF DialerOf, Named, NamedIn
<1>3. [m \in Names |-> Next1(IF m = row.name THEN row.dialer ELSE DialerOf(m, <<>>))]
        = [GraphOf(entries) EXCEPT ![row.name] = Next1(row.dialer)]
  BY <1>2 DEF GraphOf
<1>4. QED
  BY <1>1, <1>3 DEF MayAdd, DialerAllowed

\* The dialers as they will be, of the names as they are.
LEMMA ProposedIs ==
  ASSUME OneName(entries), AreRows(entries), NEW set, DOMAIN set \subseteq DOMAIN entries
  PROVE  /\ \A id \in DOMAIN set : entries[id].name \in DOMAIN Proposed(set) /\ Proposed(set)[entries[id].name] = set[id]
         /\ \A n \in DOMAIN Proposed(set) : \E id \in DOMAIN set : entries[id].name = n
<1>1. DOMAIN Proposed(set) = {entries[id].name : id \in DOMAIN set}
  BY DEF Proposed
<1>2. ASSUME NEW id \in DOMAIN set PROVE Proposed(set)[entries[id].name] = set[id]
  <2>1. (CHOOSE i \in DOMAIN set : entries[i].name = entries[id].name) = id
    BY DEF OneName
  <2>2. Proposed(set)[entries[id].name] = set[CHOOSE i \in DOMAIN set : entries[i].name = entries[id].name]
    BY DEF Proposed
  <2>3. QED
    BY <2>1, <2>2
<1>3. QED
  BY <1>1, <1>2

LEMMA RowsWithDialers ==
  ASSUME NEW rows, OneName(rows), AreRows(rows), NEW set, DOMAIN set \subseteq DOMAIN rows,
         \A id \in DOMAIN set : set[id] \subseteq Refs
  PROVE  /\ DOMAIN WithDialers(rows, set) = DOMAIN rows
         /\ \A i \in DOMAIN rows : WithDialers(rows, set)[i] \in AnyRow /\ WithDialers(rows, set)[i].name = rows[i].name
         /\ \A i \in DOMAIN rows \ DOMAIN set : WithDialers(rows, set)[i] = rows[i]
         /\ \A i \in DOMAIN set : /\ WithDialers(rows, set)[i] = [rows[i] EXCEPT !.dialer = set[i]]
                                  /\ WithDialers(rows, set)[i].dialer = set[i]
         /\ OneName(WithDialers(rows, set)) /\ AreRows(WithDialers(rows, set))
<1> DEFINE new == WithDialers(rows, set)
<1>1. DOMAIN new = DOMAIN rows /\ \A i \in DOMAIN rows : rows[i] \in AnyRow
  BY DEF WithDialers, AreRows
<1>2. \A i \in DOMAIN rows : new[i] = IF i \in DOMAIN set THEN [rows[i] EXCEPT !.dialer = set[i]] ELSE rows[i]
  BY DEF WithDialers
<1> HIDE DEF new
<1>3. \A i \in DOMAIN set : new[i] = [rows[i] EXCEPT !.dialer = set[i]] /\ new[i].dialer = set[i]
                            /\ new[i].name = rows[i].name /\ new[i] \in AnyRow
  BY <1>1, <1>2 DEF AnyRow
<1>4. \A i \in DOMAIN rows : new[i] \in AnyRow /\ new[i].name = rows[i].name
  BY <1>1, <1>2, <1>3
<1>5. OneName(new) /\ AreRows(new)
  BY <1>1, <1>4 DEF OneName, AreRows
<1>6. QED
  BY <1>1, <1>2, <1>3, <1>4, <1>5 DEF new

LEMMA DialerChecks ==
  ASSUME OneName(entries), AreRows(entries), NEW set, DOMAIN set \subseteq DOMAIN entries,
         \A id \in DOMAIN set : set[id] \subseteq Refs,
         NEW id \in DOMAIN set, ChangeAllowed(id, set[id], Proposed(set))
  PROVE  MaySet(entries, StoredSubs, inbounds, set, id)
<1>a. /\ DOMAIN WithDialers(entries, set) = DOMAIN entries
      /\ \A i \in DOMAIN entries : WithDialers(entries, set)[i] \in AnyRow /\ WithDialers(entries, set)[i].name = entries[i].name
      /\ \A i \in DOMAIN entries \ DOMAIN set : WithDialers(entries, set)[i] = entries[i]
      /\ \A i \in DOMAIN set : /\ WithDialers(entries, set)[i] = [entries[i] EXCEPT !.dialer = set[i]]
                               /\ WithDialers(entries, set)[i].dialer = set[i]
      /\ OneName(WithDialers(entries, set)) /\ AreRows(WithDialers(entries, set))
  BY RowsWithDialers
<1> DEFINE P == Proposed(set)
           new == WithDialers(entries, set)
           n == entries[id].name
<1>1. DialerAllowed(n, set[id], P) /\ MasterAllowed([entries[id] EXCEPT !.dialer = set[id]])
      /\ (set[id] = {} => \A i \in DOMAIN inbounds : inbounds[i] # <<"master", n>>)
  BY DEF ChangeAllowed
<1>2. /\ \A i \in DOMAIN set : entries[i].name \in DOMAIN P /\ P[entries[i].name] = set[i]
      /\ \A m \in DOMAIN P : \E i \in DOMAIN set : entries[i].name = m
  BY ProposedIs
<1>3. /\ DOMAIN new = DOMAIN entries
      /\ \A i \in DOMAIN entries : new[i].name = entries[i].name
      /\ \A i \in DOMAIN entries \ DOMAIN set : new[i] = entries[i]
      /\ \A i \in DOMAIN set : new[i].dialer = set[i]
      /\ OneName(new) /\ AreRows(new)
  BY <1>a
<1>4. GraphOf(new) \in [Names -> SUBSET Names] /\ GraphOf(entries) \in [Names -> SUBSET Names]
  BY <1>3, GraphAt
<1> HIDE DEF P, new
<1>5. ASSUME NEW m \in Names PROVE Next1(IF m = n THEN set[id] ELSE DialerOf(m, P)) = GraphOf(new)[m]
  <2>1. CASE m \in DOMAIN P
    <3>1. PICK i \in DOMAIN set : entries[i].name = m
      BY <1>2, <2>1
    <3>2. DialerOf(m, P) = set[i]
      BY <1>2, <2>1, <3>1 DEF DialerOf
    <3>3. m = n => set[i] = set[id]
      BY <1>2, <3>1
    <3>4. GraphOf(new)[new[i].name] = Next1(new[i].dialer)
      BY <1>3, GraphAt
    <3>5. QED
      BY <1>3, <3>1, <3>2, <3>3, <3>4
  <2>2. CASE m \notin DOMAIN P /\ m \in NamesOf(entries)
    <3>1. PICK i \in DOMAIN entries : entries[i].name = m
      BY <2>2 DEF NamesOf
    <3>2. m # n /\ i \notin DOMAIN set
      BY <1>2, <2>2, <3>1
    <3>3. Named(m) = {i}
      BY <3>1 DEF Named, OneName
    <3>4. DialerOf(m, P) = entries[i].dialer
      BY <2>2, <3>3 DEF DialerOf
    <3>5. GraphOf(new)[new[i].name] = Next1(new[i].dialer)
      BY <1>3, GraphAt
    <3>6. QED
      BY <1>3, <3>1, <3>2, <3>4, <3>5
  <2>3. CASE m \notin DOMAIN P /\ m \notin NamesOf(entries)
    <3>1. m # n
      BY <2>3 DEF NamesOf
    <3>2. Named(m) = {}
      BY <2>3 DEF Named, NamesOf
    <3>3. DialerOf(m, P) = {}
      BY <2>3, <3>2 DEF DialerOf
    <3>4. m \in Names \ NamesOf(new)
      BY <1>3, <2>3 DEF NamesOf
    <3>5. GraphOf(new)[m] = {}
      BY <1>3, <3>4, GraphAt
    <3>6. QED
      BY <3>1, <3>3, <3>5 DEF Next1
  <2>4. QED
    BY <2>1, <2>2, <2>3
<1>6. [m \in Names |-> Next1(IF m = n THEN set[id] ELSE DialerOf(m, P))] = GraphOf(new)
  BY <1>4, <1>5
<1>7. /\ Next1(set[id]) \subseteq NamesOf(entries)
      /\ \A s \in SubNames : SubRef(s) \in set[id] => s \in StoredSubs
      /\ ~CycleFrom(GraphOf(new), n)
  BY <1>1, <1>6 DEF DialerAllowed, NamesOf, Named
<1>8. QED
  BY <1>1, <1>7 DEF MaySet, new

\* Ids are not used twice.
IdsBelow(rows, next) == next \in Nat /\ \A id \in DOMAIN rows : id \in Nat /\ id < next
IdOf(k, next) == k.op \in {"mux", "config"} /\ k.at = "write" => k.id \in Nat /\ k.id < next
IdsInv == IdsBelow(entries, nextId) /\ \A c \in Clients : IdOf(call[c], nextId)

CheckedInv == StillChecked /\ IdsInv

\* What a step of client c leaves to the others.
Leaves(c) ==
  /\ DOMAIN undisturbed' = Clients
  /\ \A d \in Clients \ {c} : undisturbed'[d] => undisturbed[d] /\ UNCHANGED <<tables, slotIdx>>

LEMMA CheckedGoOn ==
  ASSUME NamesInv, CheckedInv, NEW c \in Clients, NEW r, call' = [call EXCEPT ![c] = r], Leaves(c),
         r.at = "write" => ChecksOn(r, entries', StoredSubs', inbounds'), IdOf(r, nextId'),
         IdsBelow(entries', nextId'), nextId \in Nat, nextId' \in Nat, nextId' >= nextId
  PROVE  CheckedInv'
<1>1. \A d \in Clients : call'[d] = IF d = c THEN r ELSE call[d]
  BY DEF NamesInv
<1>2. ASSUME NEW d \in Clients, undisturbed'[d], call'[d].at = "write"
      PROVE  ChecksOn(call'[d], entries', StoredSubs', inbounds')
  <2>1. CASE d = c
    BY <1>1, <1>2, <2>1
  <2>2. CASE d # c
    <3>1. undisturbed[d] /\ UNCHANGED tables /\ call'[d] = call[d]
      BY <1>1, <1>2, <2>2 DEF Leaves
    <3>2. ChecksOn(call[d], entries, StoredSubs, inbounds)
      BY <1>2, <3>1 DEF CheckedInv, StillChecked
    <3>3. entries' = entries /\ inbounds' = inbounds /\ StoredSubs' = StoredSubs
      BY <3>1 DEF tables, StoredSubs
    <3>4. QED
      BY <3>1, <3>2, <3>3
  <2>3. QED
    BY <2>1, <2>2
<1>3. StillChecked'
  BY <1>2 DEF StillChecked, Leaves
<1>4. ASSUME NEW d \in Clients PROVE IdOf(call'[d], nextId')
  <2>1. IdOf(call[d], nextId)
    BY DEF CheckedInv, IdsInv
  <2>2. IdOf(call[d], nextId')
    BY <2>1 DEF IdOf
  <2>3. QED
    BY <1>1, <2>2
<1>5. IdsInv'
  BY <1>4 DEF IdsInv
<1>6. QED
  BY <1>3, <1>5 DEF CheckedInv

\* The halves that read and check, and the rest of the calls.
Reads(c) ==
  \/ EntryAdd(c) \/ EntryDuplicate(c) \/ EntrySetMux(c) \/ EntrySetConfig(c) \/ EntryBulkDialer(c)
  \/ EntryRename(c) \/ SubRename(c) \/ InboundAdd(c) \/ InboundDuplicate(c) \/ InboundSetTarget(c)
  \/ ExportInbounds(c) \/ ImportConfig(c)
GoesOn(c) ==
  \/ CreateEntry(c) \/ EntryRemove(c) \/ UpdateEntry(c) \/ SetEntryDialers(c)
  \/ RenameEntry(c) \/ RenameSubscription(c) \/ RenamedRef(c)
  \/ CreateInbound(c) \/ UpdateInbound(c) \/ InboundRemove(c) \/ SubRemove(c) \/ SubSetEnabled(c)
  \/ ExportRest(c) \/ DeleteAllConfig(c) \/ CreateRow(c) \/ SkipRow(c) \/ ImportFails(c) \/ ImportDone(c)
  \/ Reconcile(c)

LEMMA StepsAre == Next <=> \E c \in Clients : Reads(c) \/ GoesOn(c)
BY DEF Next, Reads, GoesOn, EntryCall, RenameCall, InboundCall, SubCall, BackupCall

\* Other calls are disturbed, or nothing is written.
LEMMA StepLeaves ==
  ASSUME StillChecked, NEW c \in Clients, Reads(c) \/ GoesOn(c)
  PROVE  Leaves(c)
<1>1. DOMAIN undisturbed = Clients
  BY DEF StillChecked
<1>2. ASSUME UNCHANGED <<tables, slotIdx>>, undisturbed' = [undisturbed EXCEPT ![c] = TRUE] \/ UNCHANGED undisturbed PROVE Leaves(c)
  BY <1>1, <1>2 DEF Leaves
<1>3. ASSUME NEW mine, undisturbed' = [d \in Clients |-> d = c /\ mine] PROVE Leaves(c)
  BY <1>3 DEF Leaves
<1>4. ASSUME undisturbed' = [d \in Clients |-> d = c] PROVE Leaves(c)
  BY <1>4 DEF Leaves
<1>5. Disturb(c) => Leaves(c)
  BY <1>3 DEF Disturb
<1>6. Refused(c) => Leaves(c)
  BY <1>2 DEF Refused, history
<1>7. \A at : Committed(c, at) => Leaves(c)
  BY <1>5 DEF Committed
<1>8. \A op : CommitAtOnce(c, op) => Leaves(c)
  BY <1>4 DEF CommitAtOnce
<1>9. Reads(c) => Leaves(c)
  BY <1>2 DEF Reads, EntryAdd, EntryDuplicate, EntrySetMux, EntrySetConfig, EntryBulkDialer, EntryRename, SubRename,
              InboundAdd, InboundDuplicate, InboundSetTarget, ExportInbounds, ImportConfig, Begin, Only
<1>10. EntryRemove(c) \/ InboundRemove(c) \/ SubRemove(c) \/ SubSetEnabled(c) => Leaves(c)
  BY <1>8 DEF EntryRemove, InboundRemove, SubRemove, SubSetEnabled
<1>11. CreateEntry(c) \/ UpdateEntry(c) \/ SetEntryDialers(c) \/ RenameEntry(c) \/ RenameSubscription(c)
       \/ CreateInbound(c) \/ UpdateInbound(c) \/ DeleteAllConfig(c) => Leaves(c)
  BY <1>6, <1>7 DEF CreateEntry, UpdateEntry, SetEntryDialers, RenameEntry, RenameSubscription, CreateInbound,
                    UpdateInbound, DeleteAllConfig
<1>12. RenamedRef(c) \/ CreateRow(c) \/ Reconcile(c) => Leaves(c)
  BY <1>5 DEF RenamedRef, CreateRow, Reconcile
<1>13. ExportRest(c) \/ SkipRow(c) \/ ImportFails(c) \/ ImportDone(c) => Leaves(c)
  BY <1>2 DEF ExportRest, SkipRow, ImportFails, ImportDone, history
<1>14. QED
  BY <1>9, <1>10, <1>11, <1>12, <1>13 DEF GoesOn

\* A call that goes on is not about to write.
LEMMA StepWroteAll ==
  ASSUME OwesReconcile, NEW c \in Clients, GoesOn(c)
  PROVE  \E r : call' = [call EXCEPT ![c] = r] /\ r.at # "write"
<1> DEFINE Went == \E r : call' = [call EXCEPT ![c] = r] /\ r.at # "write"
<1>1. ASSUME NEW at, at # "write", call' = [call EXCEPT ![c].at = at] PROVE Went
  <2>1. [call[c] EXCEPT !.at = at].at = at
    BY DEF OwesReconcile
  <2>2. call' = [call EXCEPT ![c] = [call[c] EXCEPT !.at = at]]
    BY <1>1
  <2>3. QED
    BY <1>1, <2>1, <2>2
<1>2. ASSUME call' = [call EXCEPT ![c] = Idle] PROVE Went
  <2>1. Idle.at # "write"
    BY DEF Idle
  <2>2. QED
    BY <1>2, <2>1
<1>3. ASSUME NEW op, call' = [call EXCEPT ![c] = [op |-> op, at |-> "reconcile"]] PROVE Went
  <2>1. [op |-> op, at |-> "reconcile"].at # "write"
    OBVIOUS
  <2>2. QED
    BY <1>3, <2>1
<1>4. ASSUME NEW todo, call' = [call EXCEPT ![c].todo = todo], call[c].at = "create" PROVE Went
  <2>1. [call[c] EXCEPT !.todo = todo].at = "create"
    BY <1>4 DEF OwesReconcile
  <2>2. call' = [call EXCEPT ![c] = [call[c] EXCEPT !.todo = todo]]
    BY <1>4
  <2>3. QED
    BY <2>1, <2>2
<1> HIDE DEF Went
<1>5. Refused(c) => Went
  BY <1>2 DEF Refused
<1>6. \A at : at # "write" /\ Committed(c, at) => Went
  BY <1>1 DEF Committed
<1>7. EntryRemove(c) \/ InboundRemove(c) \/ SubRemove(c) \/ SubSetEnabled(c) => Went
  BY <1>3 DEF EntryRemove, InboundRemove, SubRemove, SubSetEnabled, CommitAtOnce
<1>8. CreateEntry(c) \/ UpdateEntry(c) \/ SetEntryDialers(c) \/ RenameEntry(c) \/ RenameSubscription(c)
      \/ CreateInbound(c) \/ UpdateInbound(c) \/ DeleteAllConfig(c) => Went
  BY <1>5, <1>6 DEF CreateEntry, UpdateEntry, SetEntryDialers, RenameEntry, RenameSubscription, CreateInbound,
                    UpdateInbound, DeleteAllConfig
<1>9. RenamedRef(c) \/ ImportDone(c) => Went
  BY <1>1 DEF RenamedRef, ImportDone
<1>10. ASSUME CreateRow(c) \/ SkipRow(c) PROVE Went
  <2>1. call[c].at = "create" /\ \E row : call' = [call EXCEPT ![c].todo = call[c].todo \ {row}]
    BY <1>10 DEF CreateRow, SkipRow, At
  <2>2. QED
    BY <1>4, <2>1
<1>11. ExportRest(c) \/ ImportFails(c) \/ Reconcile(c) => Went
  BY <1>2 DEF ExportRest, ImportFails, Reconcile
<1>12. QED
  BY <1>7, <1>8, <1>9, <1>10, <1>11 DEF GoesOn, Went

\* No id is given twice.
LEMMA StepIds ==
  ASSUME IdsInv, NEW c \in Clients, Reads(c) \/ GoesOn(c)
  PROVE  IdsBelow(entries', nextId') /\ nextId' \in Nat /\ nextId' >= nextId
<1> DEFINE Ok == IdsBelow(entries', nextId') /\ nextId' \in Nat /\ nextId' >= nextId
<1>1. IdsBelow(entries, nextId) /\ nextId \in Nat
  BY DEF IdsInv, IdsBelow
<1>2. ASSUME UNCHANGED nextId, DOMAIN entries' \subseteq DOMAIN entries PROVE Ok
  BY <1>1, <1>2 DEF IdsBelow
<1>3. ASSUME nextId' = nextId + 1, DOMAIN entries' = DOMAIN entries \cup {nextId} PROVE Ok
  BY <1>1, <1>3 DEF IdsBelow
<1>4. ASSUME NEW id, id \in Nat, id < nextId, UNCHANGED nextId, DOMAIN entries' = DOMAIN entries \cup {id} PROVE Ok
  BY <1>1, <1>4 DEF IdsBelow
<1> HIDE DEF Ok
<1>5. \A f, id, row : DOMAIN Stored(f, id, row) = DOMAIN f \cup {id}
  BY DEF Stored
<1>6. UNCHANGED tables => Ok
  BY <1>2 DEF tables
<1>7. Reads(c) => Ok
  BY <1>6 DEF Reads, EntryAdd, EntryDuplicate, EntrySetMux, EntrySetConfig, EntryBulkDialer, EntryRename, SubRename,
              InboundAdd, InboundDuplicate, InboundSetTarget, ExportInbounds, ImportConfig, Only
<1>8. CreateEntry(c) => Ok
  BY <1>3, <1>5, <1>6 DEF CreateEntry, Refused
<1>9. ASSUME UpdateEntry(c) PROVE Ok
  <2>1. call[c].op \in {"mux", "config"} /\ call[c].at = "write"
    BY <1>9 DEF UpdateEntry, At
  <2>2. call[c].id \in Nat /\ call[c].id < nextId
    BY <2>1 DEF IdsInv, IdOf
  <2>3. QED
    BY <1>4, <1>5, <1>6, <1>9, <2>2 DEF UpdateEntry, Refused
<1>10. EntryRemove(c) => Ok
  BY <1>2 DEF EntryRemove, Without
<1>11. SetEntryDialers(c) => Ok
  BY <1>2 DEF SetEntryDialers
<1>12. ASSUME RenameEntry(c) PROVE Ok
  <2>1. CASE Refused(c)
    BY <1>6, <2>1 DEF Refused
  <2>2. CASE ~Refused(c)
    BY <1>2, <1>12, <2>2 DEF RenameEntry, Cascade
  <2>3. QED
    BY <2>1, <2>2
<1>13. ASSUME RenameSubscription(c) PROVE Ok
  <2>1. CASE Refused(c)
    BY <1>6, <2>1 DEF Refused
  <2>2. CASE ~Refused(c)
    BY <1>2, <1>13, <2>2 DEF RenameSubscription, Cascade
  <2>3. QED
    BY <2>1, <2>2
<1>14. CreateInbound(c) \/ UpdateInbound(c) \/ InboundRemove(c) \/ SubRemove(c) \/ SubSetEnabled(c) => Ok
  BY <1>2, <1>6 DEF CreateInbound, UpdateInbound, InboundRemove, SubRemove, SubSetEnabled, Refused
<1>15. DeleteAllConfig(c) => Ok
  <2>1. DOMAIN <<>> = {}
    OBVIOUS
  <2>2. QED
    BY <1>2, <2>1 DEF DeleteAllConfig
<1>16. ASSUME CreateRow(c) PROVE Ok
  <2>1. PICK row : /\ entries' = IF row[1] = "entry" THEN Stored(entries, nextId, row[2]) ELSE entries
                   /\ nextId' = IF row[1] = "entry" THEN nextId + 1 ELSE nextId
    BY <1>16 DEF CreateRow
  <2>2. QED
    BY <1>2, <1>3, <1>5, <2>1
<1>17. RenamedRef(c) \/ ExportRest(c) \/ SkipRow(c) \/ ImportFails(c) \/ ImportDone(c) \/ Reconcile(c) => Ok
  BY <1>6 DEF RenamedRef, ExportRest, SkipRow, ImportFails, ImportDone, Reconcile
<1>18. QED
  BY <1>7, <1>8, <1>9, <1>10, <1>11, <1>12, <1>13, <1>14, <1>15, <1>16, <1>17 DEF GoesOn, Ok

\* What a call that begins has checked.
LEMMA StepChecks ==
  ASSUME NamesInv, IdsInv, NEW c \in Clients, Reads(c)
  PROVE  \E r : /\ call' = [call EXCEPT ![c] = r] /\ UNCHANGED tables /\ IdOf(r, nextId)
                /\ r.at = "write" => ChecksOn(r, entries, StoredSubs, inbounds)
<1> DEFINE Fit(r) == IdOf(r, nextId) /\ (r.at = "write" => ChecksOn(r, entries, StoredSubs, inbounds))
           Began == \E r : Begin(c, r) /\ UNCHANGED tables /\ Fit(r)
<1>0. OneName(entries) /\ AreRows(entries) /\ \A id \in DOMAIN entries : entries[id] \in AnyRow
  BY DEF NamesInv, Stock, AreRows
<1>1. ASSUME EntryAdd(c) PROVE Began
  <2>1. PICK row \in [name : Names, dialer : Dialers, kind : Kinds, mux : {FALSE}] :
          /\ DialerAllowed(row.name, row.dialer, <<>>) /\ MasterAllowed(row)
          /\ Begin(c, [op |-> "add", at |-> "write", row |-> row]) /\ UNCHANGED tables
    BY <1>1 DEF EntryAdd, Only
  <2>2. MayAdd(entries, StoredSubs, row)
    BY <2>1, AddChecks
  <2>3. Fit([op |-> "add", at |-> "write", row |-> row])
    BY <2>2 DEF ChecksOn, IdOf
  <2>4. QED
    BY <2>1, <2>3
<1>2. ASSUME EntryDuplicate(c) PROVE Began
  <2>1. PICK id \in DOMAIN entries, n \in Names :
          Begin(c, [op |-> "duplicate", at |-> "write", row |-> [entries[id] EXCEPT !.name = n]]) /\ UNCHANGED tables
    BY <1>2 DEF EntryDuplicate, Only
  <2>2. Fit([op |-> "duplicate", at |-> "write", row |-> [entries[id] EXCEPT !.name = n]])
    BY DEF ChecksOn, IdOf
  <2>3. QED
    BY <2>1, <2>2
<1>3. ASSUME EntrySetMux(c) PROVE Began
  <2>1. PICK id \in DOMAIN entries, on \in BOOLEAN :
          Begin(c, [op |-> "mux", at |-> "write", id |-> id, row |-> [entries[id] EXCEPT !.mux = on]]) /\ UNCHANGED tables
    BY <1>3 DEF EntrySetMux, Only
  <2>2. MayEdit(entries, id, [entries[id] EXCEPT !.mux = on])
    BY <1>0 DEF MayEdit, AnyRow, MasterAllowed, IsMaster
  <2>3. id \in Nat /\ id < nextId
    BY DEF IdsInv, IdsBelow
  <2>4. Fit([op |-> "mux", at |-> "write", id |-> id, row |-> [entries[id] EXCEPT !.mux = on]])
    BY <2>2, <2>3 DEF ChecksOn, IdOf
  <2>5. QED
    BY <2>1, <2>4
<1>4. ASSUME EntrySetConfig(c) PROVE Began
  <2>1. PICK id \in DOMAIN entries, k \in Kinds :
          /\ MasterAllowed([entries[id] EXCEPT !.kind = k])
          /\ Begin(c, [op |-> "config", at |-> "write", id |-> id, row |-> [entries[id] EXCEPT !.kind = k]]) /\ UNCHANGED tables
    BY <1>4 DEF EntrySetConfig, Only
  <2>2. MayEdit(entries, id, [entries[id] EXCEPT !.kind = k])
    BY <1>0, <2>1 DEF MayEdit, AnyRow
  <2>3. id \in Nat /\ id < nextId
    BY DEF IdsInv, IdsBelow
  <2>4. Fit([op |-> "config", at |-> "write", id |-> id, row |-> [entries[id] EXCEPT !.kind = k]])
    BY <2>2, <2>3 DEF ChecksOn, IdOf
  <2>5. QED
    BY <2>1, <2>4
<1>5. ASSUME EntryBulkDialer(c) PROVE Began
  <2>1. PICK ids \in (SUBSET DOMAIN entries) \ {{}} : \E set \in [ids -> Dialers] :
          /\ \A id \in ids : ChangeAllowed(id, set[id], Proposed(set))
          /\ Begin(c, [op |-> "dialer", at |-> "write", set |-> set]) /\ UNCHANGED tables
    BY <1>5 DEF EntryBulkDialer, Only
  <2>2. PICK set \in [ids -> Dialers] :
          /\ \A id \in ids : ChangeAllowed(id, set[id], Proposed(set))
          /\ Begin(c, [op |-> "dialer", at |-> "write", set |-> set]) /\ UNCHANGED tables
    BY <2>1
  <2>3. DOMAIN set \subseteq DOMAIN entries /\ \A id \in DOMAIN set : set[id] \subseteq Refs
    BY DEF Dialers
  <2>4. \A id \in DOMAIN set : MaySet(entries, StoredSubs, inbounds, set, id)
    <3> TAKE id \in DOMAIN set
    <3>1. ChangeAllowed(id, set[id], Proposed(set))
      BY <2>2
    <3>2. QED
      BY <1>0, <2>3, <3>1, DialerChecks
  <2>5. Fit([op |-> "dialer", at |-> "write", set |-> set])
    BY <2>3, <2>4 DEF ChecksOn, IdOf
  <2>6. QED
    BY <2>2, <2>5
<1>6. ASSUME EntryRename(c) PROVE Began
  <2>1. PICK id \in DOMAIN entries, n \in Names :
          Begin(c, [op |-> "rename", at |-> "write", id |-> id, old |-> XrayRef(entries[id].name), new |-> XrayRef(n), slots |-> SlotsNow])
          /\ UNCHANGED tables
    BY <1>6 DEF EntryRename, Only
  <2>2. \A old, new, slots : Fit([op |-> "rename", at |-> "write", id |-> id, old |-> old, new |-> new, slots |-> slots])
    BY DEF ChecksOn, IdOf
  <2>3. QED
    BY <2>1, <2>2
<1>7. ASSUME SubRename(c) PROVE Began
  <2>1. PICK s \in StoredSubs, n \in SubNames :
          Begin(c, [op |-> "subrename", at |-> "write", old |-> SubRef(s), new |-> SubRef(n), slots |-> SlotsNow])
          /\ UNCHANGED tables
    BY <1>7 DEF SubRename, Only
  <2>2. \A old, new, slots : Fit([op |-> "subrename", at |-> "write", old |-> old, new |-> new, slots |-> slots])
    BY DEF ChecksOn, IdOf
  <2>3. QED
    BY <2>1, <2>2
<1>8. ASSUME InboundAdd(c) PROVE Began
  <2>1. PICK i \in InNames, t \in Targets :
          TargetAllowed(t) /\ Begin(c, [op |-> "inbound", at |-> "write", in |-> i, target |-> t]) /\ UNCHANGED tables
    BY <1>8 DEF InboundAdd, Only
  <2>2. TargetIn(entries, t)
    BY <2>1 DEF TargetAllowed, TargetIn, Named, NamedIn
  <2>3. Fit([op |-> "inbound", at |-> "write", in |-> i, target |-> t])
    BY <2>2 DEF ChecksOn, IdOf
  <2>4. QED
    BY <2>1, <2>3
<1>9. ASSUME InboundDuplicate(c) PROVE Began
  <2>1. PICK i \in DOMAIN inbounds, j \in InNames :
          Begin(c, [op |-> "inbound", at |-> "write", in |-> j, target |-> inbounds[i]]) /\ UNCHANGED tables
    BY <1>9 DEF InboundDuplicate, Only
  <2>2. Fit([op |-> "inbound", at |-> "write", in |-> j, target |-> inbounds[i]])
    BY DEF ChecksOn, IdOf
  <2>3. QED
    BY <2>1, <2>2
<1>10. ASSUME InboundSetTarget(c) PROVE Began
  <2>1. PICK i \in DOMAIN inbounds, t \in Targets :
          TargetAllowed(t) /\ Begin(c, [op |-> "target", at |-> "write", in |-> i, target |-> t]) /\ UNCHANGED tables
    BY <1>10 DEF InboundSetTarget, Only
  <2>2. TargetIn(entries, t)
    BY <2>1 DEF TargetAllowed, TargetIn, Named, NamedIn
  <2>3. Fit([op |-> "target", at |-> "write", in |-> i, target |-> t])
    BY <2>2 DEF ChecksOn, IdOf
  <2>4. QED
    BY <2>1, <2>3
<1>11. ASSUME ExportInbounds(c) PROVE Began
  <2>1. Begin(c, [op |-> "export", at |-> "export", ins |-> inbounds]) /\ UNCHANGED tables
    BY <1>11 DEF ExportInbounds, Only
  <2>2. Fit([op |-> "export", at |-> "export", ins |-> inbounds])
    BY DEF IdOf
  <2>3. QED
    BY <2>1, <2>2
<1>12. ASSUME ImportConfig(c) PROVE Began
  <2>1. PICK replace \in BOOLEAN :
          Begin(c, [op |-> "import", at |-> IF replace THEN "wipe" ELSE "create", replace |-> replace, of |-> backup, todo |-> ToCreate(backup)])
          /\ UNCHANGED tables
    BY <1>12 DEF ImportConfig, Only
  <2>2. \A b, todo : Fit([op |-> "import", at |-> IF replace THEN "wipe" ELSE "create", replace |-> replace, of |-> b, todo |-> todo])
    BY DEF IdOf
  <2>3. QED
    BY <2>1, <2>2
<1>13. Began
  <2> HIDE DEF Began
  <2>1. QED
    BY <1>1, <1>2, <1>3, <1>4, <1>5, <1>6, <1>7, <1>8, <1>9, <1>10, <1>11, <1>12 DEF Reads
<1>14. QED
  BY <1>13 DEF Begin

LEMMA CheckedStep ==
  ASSUME OwesReconcile, NamesInv, CheckedInv, [Next]_entriesVars
  PROVE  CheckedInv'
<1>1. CASE UNCHANGED entriesVars
  <2>1. /\ entries' = entries /\ nextId' = nextId /\ inbounds' = inbounds /\ StoredSubs' = StoredSubs
        /\ call' = call /\ undisturbed' = undisturbed
    BY <1>1 DEF entriesVars, tables, history, StoredSubs
  <2>2. StillChecked'
    BY <2>1 DEF CheckedInv, StillChecked
  <2>3. IdsInv'
    BY <2>1 DEF CheckedInv, IdsInv
  <2>4. QED
    BY <2>2, <2>3 DEF CheckedInv
<1>2. CASE Next
  <2>1. PICK c \in Clients : Reads(c) \/ GoesOn(c)
    BY <1>2, StepsAre
  <2>2. StillChecked /\ IdsInv
    BY DEF CheckedInv
  <2>3. Leaves(c)
    BY <2>1, <2>2, StepLeaves
  <2>4. IdsBelow(entries', nextId') /\ nextId' \in Nat /\ nextId' >= nextId /\ nextId \in Nat
    <3>1. nextId \in Nat
      BY <2>2 DEF IdsInv, IdsBelow
    <3>2. QED
      BY <2>1, <2>2, <3>1, StepIds
  <2>5. CASE Reads(c)
    <3>1. PICK r : /\ call' = [call EXCEPT ![c] = r] /\ UNCHANGED tables /\ IdOf(r, nextId)
                   /\ r.at = "write" => ChecksOn(r, entries, StoredSubs, inbounds)
      BY <2>2, <2>5, StepChecks
    <3>2. entries' = entries /\ nextId' = nextId /\ inbounds' = inbounds /\ StoredSubs' = StoredSubs
      BY <3>1 DEF tables, StoredSubs
    <3>3. IdOf(r, nextId') /\ (r.at = "write" => ChecksOn(r, entries', StoredSubs', inbounds'))
      BY <3>1, <3>2
    <3>4. QED
      BY <2>3, <2>4, <3>1, <3>3, CheckedGoOn
  <2>6. CASE GoesOn(c)
    <3>1. PICK r : call' = [call EXCEPT ![c] = r] /\ r.at # "write"
      BY <2>6, StepWroteAll
    <3>2. IdOf(r, nextId')
      BY <3>1 DEF IdOf
    <3>3. QED
      BY <2>3, <2>4, <3>1, <3>2, CheckedGoOn
  <2>7. QED
    BY <2>1, <2>5, <2>6
<1>3. QED
  BY <1>1, <1>2

LEMMA CheckedInit == Init => CheckedInv
<1> SUFFICES ASSUME Init PROVE CheckedInv
  OBVIOUS
<1>1. PICK s \in Stores : entries = s.entries /\ nextId = Cardinality(DOMAIN s.entries) + 1
  BY DEF Init
<1>2. call = [c \in Clients |-> Idle] /\ undisturbed = [c \in Clients |-> TRUE]
  BY DEF Init
<1>3. IsFiniteSet(DOMAIN s.entries) /\ DOMAIN s.entries = 1 .. Cardinality(DOMAIN s.entries)
  BY StoresAssumption
<1>4. Cardinality(DOMAIN s.entries) \in Nat
  BY <1>3, FS_CardinalityType
<1>5. IdsBelow(entries, nextId)
  <2> DEFINE n == Cardinality(DOMAIN s.entries)
  <2>1. n \in Nat /\ DOMAIN entries = 1 .. n /\ nextId = n + 1
    BY <1>1, <1>3, <1>4
  <2> HIDE DEF n
  <2>2. QED
    BY <2>1 DEF IdsBelow
<1>6. \A k \in {Idle} : IdOf(k, nextId) /\ k.at # "write"
  BY DEF IdOf, Idle
<1>7. QED
  BY <1>2, <1>5, <1>6 DEF CheckedInv, StillChecked, IdsInv

(* The writes of the calls that check.                                      *)
Writes(c) ==
  \/ CreateEntry(c) \/ UpdateEntry(c) \/ SetEntryDialers(c) \/ RenameEntry(c) \/ RenameSubscription(c)
  \/ CreateInbound(c) \/ UpdateInbound(c)

LEMMA WritesOnly ==
  ASSUME NEW c \in Clients, call[c].op \in Checked, call[c].at = "write", Reads(c) \/ GoesOn(c)
  PROVE  Writes(c)
<1>1. ~Free(c) /\ call[c].op # "import"
  BY DEF Free, Idle, Checked
<1>2. ~Reads(c)
  BY <1>1 DEF Reads, EntryAdd, EntryDuplicate, EntrySetMux, EntrySetConfig, EntryBulkDialer, EntryRename, SubRename,
              InboundAdd, InboundDuplicate, InboundSetTarget, ExportInbounds, ImportConfig
<1>3. ~(EntryRemove(c) \/ InboundRemove(c) \/ SubRemove(c) \/ SubSetEnabled(c))
  BY <1>1 DEF EntryRemove, InboundRemove, SubRemove, SubSetEnabled
<1>4. ~(RenamedRef(c) \/ ExportRest(c) \/ DeleteAllConfig(c) \/ CreateRow(c) \/ SkipRow(c) \/ ImportFails(c)
        \/ ImportDone(c) \/ Reconcile(c))
  BY <1>1 DEF RenamedRef, ExportRest, DeleteAllConfig, CreateRow, SkipRow, ImportFails, ImportDone, Reconcile, At
<1>5. QED
  BY <1>2, <1>3, <1>4 DEF GoesOn, Writes

\* The row of a call, written.
LEMMA EntryWriteIsSound ==
  ASSUME NamesInv, CheckedInv, NEW c \in Clients, undisturbed[c], Sound, CreateEntry(c) \/ UpdateEntry(c), ~Refused(c)
  PROVE  Sound'
<1>1. IsSound(entries, StoredSubs, inbounds) /\ OneName(entries) /\ AreRows(entries)
  BY SoundIs DEF NamesInv, Stock
<1>2. ChecksOn(call[c], entries, StoredSubs, inbounds) /\ MayWrite(call[c])
  BY DEF CreateEntry, UpdateEntry, At, CheckedInv, StillChecked, NamesInv
<1> DEFINE row == call[c].row
<1>3. row \in AnyRow
  BY <1>2 DEF CreateEntry, UpdateEntry, At, MayWrite
<1>4. CASE CreateEntry(c)
  <2>1. /\ call[c].op \in {"add", "duplicate"} /\ Named(row.name) = {}
        /\ entries' = Stored(entries, nextId, row) /\ UNCHANGED <<inbounds, subs>>
    BY <1>4 DEF CreateEntry, At
  <2>2. row.name \notin NamesOf(entries)
    BY <2>1 DEF NamesOf, Named
  <2>3. nextId \notin DOMAIN entries
    BY DEF CheckedInv, IdsInv, IdsBelow
  <2>4. IsSound(Stored(entries, nextId, row), StoredSubs, inbounds)
    <3>1. CASE call[c].op = "add"
      <4>1. MayAdd(entries, StoredSubs, row)
        BY <1>2, <3>1 DEF ChecksOn
      <4> HIDE DEF row
      <4>2. QED
        BY <1>1, <1>3, <2>2, <2>3, <4>1, AddedIsSound DEF MayAdd
    <3>2. CASE call[c].op = "duplicate"
      <4>1. PICK id \in DOMAIN entries, n \in Names : row = [entries[id] EXCEPT !.name = n]
        BY <1>2, <3>2 DEF ChecksOn
      <4>2. row.name = n
        BY <1>1, <4>1 DEF AreRows, AnyRow
      <4>3. IsSound(Stored(entries, nextId, [entries[id] EXCEPT !.name = n]), StoredSubs, inbounds)
        BY <1>1, <2>2, <2>3, <4>2, CopyIsSound
      <4>4. QED
        BY <4>1, <4>3
    <3>3. QED
      BY <2>1, <3>1, <3>2
  <2>5. StoredSubs' = StoredSubs /\ inbounds' = inbounds
    BY <2>1 DEF StoredSubs
  <2>6. QED
    BY <2>1, <2>4, <2>5, SoundIsThen
<1>5. CASE UpdateEntry(c)
  <2>1. /\ call[c].op \in {"mux", "config"}
        /\ entries' = Stored(entries, call[c].id, row) /\ UNCHANGED <<inbounds, subs>>
    BY <1>5 DEF UpdateEntry, At
  <2>2. MayEdit(entries, call[c].id, row)
    BY <1>2, <2>1 DEF ChecksOn
  <2>3. MasterAllowed(row)
    BY <1>1, <2>2 DEF MayEdit, IsSound, RowIsSound
  <2> HIDE DEF row
  <2>4. IsSound(Stored(entries, call[c].id, row), StoredSubs, inbounds)
    BY <1>1, <1>3, <2>2, <2>3, EditIsSound DEF MayEdit
  <2>5. StoredSubs' = StoredSubs /\ inbounds' = inbounds
    BY <2>1 DEF StoredSubs
  <2>6. QED
    BY <2>1, <2>4, <2>5, SoundIsThen
<1>6. QED
  BY <1>4, <1>5

\* Dialers that were checked together, written together.
LEMMA DialerWriteIsSound ==
  ASSUME NamesInv, CheckedInv, NEW c \in Clients, undisturbed[c], Sound, SetEntryDialers(c)
  PROVE  Sound'
<1> DEFINE set == call[c].set
           new == WithDialers(entries, set)
<1>1. IsSound(entries, StoredSubs, inbounds) /\ OneName(entries) /\ AreRows(entries) /\ AreTargets(inbounds)
  BY SoundIs DEF NamesInv, Stock
<1>2. ChecksOn(call[c], entries, StoredSubs, inbounds) /\ MayWrite(call[c]) /\ call[c].op = "dialer" /\ call[c].at = "write"
  BY DEF SetEntryDialers, At, CheckedInv, StillChecked, NamesInv
<1>3. /\ DOMAIN set \subseteq DOMAIN entries
      /\ \A i \in DOMAIN set : MaySet(entries, StoredSubs, inbounds, set, i) /\ set[i] \subseteq Refs
  BY <1>2 DEF ChecksOn, MayWrite
<1>4. entries' = new /\ UNCHANGED <<inbounds, subs>>
  BY DEF SetEntryDialers, WithDialers
<1> HIDE DEF set
<1>5. /\ DOMAIN WithDialers(entries, set) = DOMAIN entries
      /\ \A i \in DOMAIN entries : WithDialers(entries, set)[i] \in AnyRow /\ WithDialers(entries, set)[i].name = entries[i].name
      /\ \A i \in DOMAIN entries \ DOMAIN set : WithDialers(entries, set)[i] = entries[i]
      /\ \A i \in DOMAIN set : /\ WithDialers(entries, set)[i] = [entries[i] EXCEPT !.dialer = set[i]]
                               /\ WithDialers(entries, set)[i].dialer = set[i]
      /\ OneName(WithDialers(entries, set)) /\ AreRows(WithDialers(entries, set))
  BY <1>1, <1>3, RowsWithDialers
<1>6. ASSUME NEW i \in DOMAIN set
      PROVE  /\ MasterAllowed(new[i]) /\ Next1(new[i].dialer) \subseteq NamesOf(entries)
             /\ \A s \in SubNames : SubRef(s) \in new[i].dialer => s \in StoredSubs
             /\ ~CycleFrom(GraphOf(new), new[i].name)
             /\ new[i].dialer = {} => \A k \in DOMAIN inbounds : inbounds[k] # <<"master", new[i].name>>
  <2>1. new[i].name = entries[i].name /\ new[i] = [entries[i] EXCEPT !.dialer = set[i]] /\ new[i].dialer = set[i]
    BY <1>3, <1>5
  <2>2. MaySet(entries, StoredSubs, inbounds, set, i)
    BY <1>3
  <2>3. QED
    BY <2>1, <2>2 DEF MaySet
<1>7. /\ DOMAIN new = DOMAIN entries
      /\ \A i \in DOMAIN entries : new[i] \in AnyRow /\ new[i].name = entries[i].name
      /\ \A i \in DOMAIN entries \ DOMAIN set : new[i] = entries[i]
  BY <1>5
<1> HIDE DEF new
<1>8. IsSound(new, StoredSubs, inbounds)
  BY <1>1, <1>3, <1>6, <1>7, DialersAreSound
<1>9. StoredSubs' = StoredSubs /\ inbounds' = inbounds
  BY <1>4 DEF StoredSubs
<1>10. QED
  BY <1>4, <1>8, <1>9, SoundIsThen

\* The renames; they have nothing to check.
LEMMA RenameWriteIsSound ==
  ASSUME NamesInv, NamesInv', NEW c \in Clients, Sound, RenameEntry(c) \/ RenameSubscription(c), ~Refused(c)
  PROVE  Sound'
<1>1. IsSound(entries, StoredSubs, inbounds) /\ OneName(entries) /\ AreRows(entries) /\ AreTargets(inbounds)
  BY SoundIs DEF NamesInv, Stock
<1>2. OneName(entries') /\ AreRows(entries')
  BY DEF NamesInv, Stock
<1>3. MayWrite(call[c])
  BY DEF NamesInv
<1>4. CASE RenameEntry(c)
  <2>1. PICK n \in Names : call[c].new = XrayRef(n)
    BY <1>3, <1>4 DEF RenameEntry, At, MayWrite
  <2>2. call[c].new[2] = n
    BY <2>1 DEF XrayRef
  <2> DEFINE id == call[c].id
             old == entries[id].name
  <2>3. /\ id \in DOMAIN entries /\ ~Taken(n, id)
        /\ entries' = Cascade([entries EXCEPT ![id].name = n], XrayRef(old), XrayRef(n))
        /\ inbounds' = [i \in DOMAIN inbounds |-> RenameTarget(inbounds[i], old, n)]
        /\ UNCHANGED subs
    BY <1>4, <2>2 DEF RenameEntry
  <2>4. \A i \in DOMAIN entries \ {id} : entries[i].name # n
    BY <2>3 DEF Taken, Named
  <2>5. PICK o : o = old
    OBVIOUS
  <2>6. /\ id \in DOMAIN entries /\ o = entries[id].name
        /\ entries' = Cascade([entries EXCEPT ![id].name = n], XrayRef(o), XrayRef(n))
    BY <2>3, <2>5
  <2> HIDE DEF id, old
  <2>7. DOMAIN entries' = DOMAIN entries /\ \A i \in DOMAIN entries : IsRenamed(entries[i], entries'[i], o, n)
    <3>1. OneName(entries) /\ AreRows(entries)
      BY <1>1
    <3>2. PICK after : after = entries'
      OBVIOUS
    <3>3. id \in DOMAIN entries /\ o = entries[id].name
      BY <2>6
    <3>4. after = Cascaded(entries, id, n)
      BY <2>6, <3>2 DEF Cascaded
    <3>5. DOMAIN after = DOMAIN entries /\ \A i \in DOMAIN entries : IsRenamed(entries[i], after[i], o, n)
      BY <3>1, <3>3, <3>4, RowsRenamed
    <3>6. QED
      BY <3>2, <3>5
  <2>8. IsSound(entries', StoredSubs, [i \in DOMAIN inbounds |-> RenameTarget(inbounds[i], o, n)])
    BY <1>1, <1>2, <2>4, <2>6, <2>7, EntryRenameIsSound
  <2>9. StoredSubs' = StoredSubs /\ inbounds' = [i \in DOMAIN inbounds |-> RenameTarget(inbounds[i], o, n)]
    BY <2>3, <2>5 DEF StoredSubs
  <2>10. QED
    BY <2>8, <2>9, SoundIsThen
<1>5. CASE RenameSubscription(c)
  <2>1. PICK n \in SubNames : call[c].new = SubRef(n)
    BY <1>3, <1>5 DEF RenameSubscription, At, MayWrite
  <2>2. call[c].new[2] = n
    BY <2>1 DEF SubRef
  <2>3. PICK old : old = call[c].old[2]
    OBVIOUS
  <2>4. /\ old \in StoredSubs
        /\ subs' = {IF s.name = old THEN [s EXCEPT !.name = n] ELSE s : s \in subs}
        /\ entries' = Cascade(entries, SubRef(old), SubRef(n)) /\ UNCHANGED inbounds
    BY <1>5, <2>2, <2>3 DEF RenameSubscription
  <2>5. ASSUME NEW x \in StoredSubs PROVE Moved(x, old, n) \in StoredSubs'
    <3>1. PICK s \in subs : s.name = x
      BY DEF StoredSubs
    <3>2. (IF s.name = old THEN [s EXCEPT !.name = n] ELSE s) \in subs'
      BY <2>4
    <3>3. CASE x = old
      <4>1. [s EXCEPT !.name = n] \in subs'
        BY <3>1, <3>2, <3>3
      <4>2. [s EXCEPT !.name = n].name = n
        OBVIOUS
      <4>3. QED
        BY <3>3, <4>1, <4>2 DEF StoredSubs, Moved
    <3>4. CASE x # old
      BY <3>1, <3>2, <3>4 DEF StoredSubs, Moved
    <3>5. QED
      BY <3>3, <3>4
  <2>6. IsSound(entries', StoredSubs', inbounds)
    BY <1>1, <1>2, <2>4, <2>5, SubRenameIsSound
  <2>7. QED
    BY <2>4, <2>6, SoundIsThen
<1>6. QED
  BY <1>4, <1>5

\* A target that was checked, or was another's.
LEMMA TargetWriteIsSound ==
  ASSUME NamesInv, CheckedInv, NEW c \in Clients, undisturbed[c], Sound, CreateInbound(c) \/ UpdateInbound(c), ~Refused(c)
  PROVE  Sound'
<1>1. IsSound(entries, StoredSubs, inbounds)
  BY SoundIs
<1>2. ChecksOn(call[c], entries, StoredSubs, inbounds) /\ call[c].op \in {"inbound", "target"}
  BY DEF CreateInbound, UpdateInbound, At, CheckedInv, StillChecked
<1>3. TargetIn(entries, call[c].target)
  BY <1>1, <1>2 DEF ChecksOn, IsSound
<1>4. inbounds' = Stored(inbounds, call[c].in, call[c].target) /\ UNCHANGED <<entries, subs>>
  BY DEF CreateInbound, UpdateInbound
<1>5. \A i \in DOMAIN inbounds' : TargetIn(entries, inbounds'[i])
  BY <1>1, <1>3, <1>4 DEF Stored, IsSound
<1>6. entries' = entries /\ StoredSubs' = StoredSubs
  BY <1>4 DEF StoredSubs
<1>7. IsSound(entries', StoredSubs', inbounds')
  BY <1>1, <1>5, <1>6 DEF IsSound
<1>8. QED
  BY <1>7, SoundIsThen

LEMMA CheckedWrites ==
  ASSUME NamesInv, NamesInv', CheckedInv, [Next]_entriesVars, NEW c \in Clients,
         call[c].op \in Checked, call[c].at = "write", call'[c] # call[c], undisturbed[c], Sound
  PROVE  Sound'
<1>1. PICK d \in Clients :
        EntryCall(d) \/ RenameCall(d) \/ InboundCall(d) \/ SubCall(d) \/ BackupCall(d) \/ Reconcile(d)
  BY DEF Next, entriesVars
<1>2. d = c
  <2>1. PICK r : call' = [call EXCEPT ![d] = r]
    BY <1>1, OwnCallOnly
  <2>2. QED
    BY <2>1 DEF NamesInv
<1>3. Reads(c) \/ GoesOn(c)
  BY <1>1, <1>2 DEF Reads, GoesOn, EntryCall, RenameCall, InboundCall, SubCall, BackupCall
<1>4. Writes(c)
  BY <1>3, WritesOnly
<1>5. CASE Refused(c)
  <2>1. entries' = entries /\ inbounds' = inbounds /\ StoredSubs' = StoredSubs
    BY <1>5 DEF Refused, tables, StoredSubs
  <2>2. QED
    BY <2>1, SoundIs, SoundIsThen
<1>6. CASE ~Refused(c)
  BY <1>4, <1>6, EntryWriteIsSound, DialerWriteIsSound, RenameWriteIsSound, TargetWriteIsSound DEF Writes
<1>7. QED
  BY <1>5, <1>6

(* A call whose checks nobody has overtaken leaves the tables sound, whatever *)
(* else is under way: dialers that were checked together close no ring, a     *)
(* copy none either, a rename takes every reference and every target along,   *)
(* and no edit makes a master of what cannot be one (server_methods.go,       *)
(* server_iface.go, store.go: RenameEntry, RenameSubscription,                *)
(* SetEntryDialers).                                                          *)
THEOREM ChecksKeepSound == Spec => CheckedKeepsSound
<1> DEFINE Inv == OwesReconcile /\ NamesInv /\ CheckedInv
           Step(c) == call[c].op \in Checked /\ call[c].at = "write" /\ call'[c] # call[c] /\ undisturbed[c] /\ Sound => Sound'
<1>1. Init => Inv
  BY OwesInit, NamesInit, CheckedInit
<1>2. Inv /\ [Next]_entriesVars => Inv'
  BY OwesStep, NamesStep, CheckedStep
<1>3. Inv /\ Inv' /\ [Next]_entriesVars => [\A c \in Clients : Step(c)]_entriesVars
  BY CheckedWrites
<1>4. QED
  BY <1>1, <1>2, <1>3, PTL DEF Spec, CheckedKeepsSound

-----------------------------------------------------------------------------
(***************************************************************************)
(* That a rename keeps the slots: what the daemon keeps by a pool's key    *)
(* and the rows themselves part when the store renames, meet again with    *)
(* RenamedRef, and the reconcile after it leaves them in place.            *)
(***************************************************************************)
Renames == {"rename", "subrename"}

\* slots, which a rename remembers, are what idx gives the rows' dialers,
Had(slots, rows, idx) ==
  /\ \A id \in DOMAIN slots :
       id \in DOMAIN rows /\ rows[id].dialer \in DOMAIN idx /\ slots[id] = idx[rows[id].dialer]
  /\ DOMAIN slots # {} => \A p \in DOMAIN idx : \E id \in DOMAIN slots : rows[id].dialer = p
\* or what it gives the dialers the rows had before they were renamed,
Parted(slots, rows, idx, old, new) ==
  /\ \A id \in DOMAIN slots :
       id \in DOMAIN rows /\ \E p \in DOMAIN idx : rows[id].dialer = RenameRef(p, old, new) /\ slots[id] = idx[p]
  /\ DOMAIN slots # {} => \A p \in DOMAIN idx :
       \E id \in DOMAIN slots : rows[id].dialer = RenameRef(p, old, new) /\ slots[id] = idx[p]
\* or the slot of one of the rows that have the dialer now.
Has(slots, rows, idx) ==
  \A id \in DOMAIN slots :
    /\ id \in DOMAIN rows /\ rows[id].dialer \in DOMAIN idx
    /\ \E j \in DOMAIN slots : rows[j].dialer = rows[id].dialer /\ idx[rows[id].dialer] = slots[j]

Carried(k, rows, idx) ==
  /\ k.op \in Renames /\ k.at \in {"write", "renamed", "reconcile"} => {"slots", "old", "new"} \subseteq DOMAIN k
  /\ k.op \in Renames /\ k.at = "write" => Had(k.slots, rows, idx)
  /\ k.op = "rename" /\ k.at = "write" => k.id \in DOMAIN rows /\ k.old = XrayRef(rows[k.id].name)
  /\ k.op = "subrename" /\ k.at = "write" => \E s : k.old = SubRef(s)
  /\ k.op \in Renames /\ k.at = "renamed" => Parted(k.slots, rows, idx, k.old, k.new)
  /\ k.op \in Renames /\ k.at = "reconcile" => Has(k.slots, rows, idx)

DialersIn(rows) == {rows[id].dialer : id \in DOMAIN rows}
Behind(idx, rows) == DOMAIN idx \subseteq DialersIn(rows)

SlotsInv ==
  /\ IsNumbering(slotIdx) /\ {} \notin DOMAIN slotIdx
  /\ AsReconciled => Behind(slotIdx, entries)
  /\ \A c \in Clients : "op" \in DOMAIN call[c]
  /\ \A c \in Clients : undisturbed[c] => Carried(call[c], entries, slotIdx)

LEMMA SlotsGoOn ==
  ASSUME NamesInv, SlotsInv, NEW c \in Clients, NEW r, call' = [call EXCEPT ![c] = r], Leaves(c), "op" \in DOMAIN r,
         undisturbed'[c] => Carried(r, entries', slotIdx'),
         IsNumbering(slotIdx'), {} \notin DOMAIN slotIdx', AsReconciled' => Behind(slotIdx', entries')
  PROVE  SlotsInv'
<1>1. \A d \in Clients : call'[d] = IF d = c THEN r ELSE call[d]
  BY DEF NamesInv
<1>2. \A d \in Clients : "op" \in DOMAIN call'[d]
  BY <1>1 DEF SlotsInv
<1>3. ASSUME NEW d \in Clients, undisturbed'[d]
      PROVE  Carried(call'[d], entries', slotIdx')
  <2>1. CASE d = c
    BY <1>1, <1>3, <2>1
  <2>2. CASE d # c
    <3>1. undisturbed[d] /\ entries' = entries /\ slotIdx' = slotIdx /\ call'[d] = call[d]
      BY <1>1, <1>3, <2>2 DEF Leaves, tables
    <3>2. Carried(call[d], entries, slotIdx)
      BY <3>1 DEF SlotsInv
    <3>3. QED
      BY <3>1, <3>2
  <2>3. QED
    BY <2>1, <2>2
<1>4. QED
  BY <1>2, <1>3 DEF SlotsInv

\* A step that reads, or ends: what is kept by key and the rows stay.
LEMMA SlotsQuiet ==
  ASSUME NamesInv, SlotsInv, NEW c \in Clients, NEW r, call' = [call EXCEPT ![c] = r], Leaves(c), "op" \in DOMAIN r,
         undisturbed'[c] => Carried(r, entries, slotIdx),
         UNCHANGED <<entries, slotIdx, dirty>>, ~At(c, Renames, "reconcile")
  PROVE  SlotsInv'
<1>1. \A d \in Clients : call'[d] = IF d = c THEN r ELSE call[d]
  BY DEF NamesInv
<1>2. ASSUME AsReconciled' PROVE AsReconciled
  <2>1. ~dirty /\ \A d \in Clients : ~(call'[d].op \in Renames /\ call'[d].at = "reconcile")
    BY <1>2 DEF AsReconciled, At, Renames
  <2>2. \A d \in Clients : ~(call[d].op \in Renames /\ call[d].at = "reconcile")
    BY <1>1, <2>1 DEF At
  <2>3. QED
    BY <2>1, <2>2 DEF AsReconciled, At, Renames
<1>3. IsNumbering(slotIdx) /\ {} \notin DOMAIN slotIdx /\ (AsReconciled => Behind(slotIdx, entries))
  BY DEF SlotsInv
<1>4. entries' = entries /\ slotIdx' = slotIdx
  OBVIOUS
<1>5. IsNumbering(slotIdx') /\ {} \notin DOMAIN slotIdx' /\ (AsReconciled' => Behind(slotIdx', entries'))
  BY <1>2, <1>3, <1>4
<1>6. undisturbed'[c] => Carried(r, entries', slotIdx')
  BY <1>4
<1>7. QED
  BY <1>5, <1>6, SlotsGoOn

\* A write, after which the tables are to be read again.
LEMMA SlotsWrite ==
  ASSUME NamesInv, SlotsInv, NEW c \in Clients, NEW r, call' = [call EXCEPT ![c] = r], Leaves(c), "op" \in DOMAIN r,
         undisturbed'[c] => Carried(r, entries', slotIdx), UNCHANGED slotIdx, dirty'
  PROVE  SlotsInv'
<1>1. ~AsReconciled'
  BY DEF AsReconciled
<1>2. slotIdx' = slotIdx /\ IsNumbering(slotIdx) /\ {} \notin DOMAIN slotIdx
  BY DEF SlotsInv
<1>3. IsNumbering(slotIdx') /\ {} \notin DOMAIN slotIdx' /\ (AsReconciled' => Behind(slotIdx', entries'))
  BY <1>1, <1>2
<1>4. undisturbed'[c] => Carried(r, entries', slotIdx')
  BY <1>2
<1>5. QED
  BY <1>3, <1>4, SlotsGoOn

\* What is no rename carries nothing.
LEMMA CarriesNothing ==
  ASSUME NEW k, NEW rows, NEW idx, k.op \notin Renames \/ k.at \notin {"write", "renamed", "reconcile"}
  PROVE  Carried(k, rows, idx)
BY DEF Carried, Renames

LEMMA CarriesNow ==
  ASSUME SlotsInv
  PROVE  Had(SlotsNow, entries, slotIdx)
<1>1. /\ DOMAIN SlotsNow = {i \in DOMAIN entries : AsReconciled /\ entries[i].dialer \in DOMAIN slotIdx}
      /\ \A id \in DOMAIN SlotsNow : SlotsNow[id] = slotIdx[entries[id].dialer]
  BY DEF SlotsNow
<1>2. ASSUME DOMAIN SlotsNow # {}, NEW p \in DOMAIN slotIdx
      PROVE  \E id \in DOMAIN SlotsNow : entries[id].dialer = p
  <2>1. AsReconciled
    BY <1>1, <1>2
  <2>2. PICK id \in DOMAIN entries : entries[id].dialer = p
    BY <2>1 DEF SlotsInv, Behind, DialersIn
  <2>3. QED
    BY <1>1, <2>1, <2>2
<1>3. QED
  BY <1>1, <1>2 DEF Had

\* The store renames: rows that keep their id and whose dialers follow.
LEMMA HadIsParted ==
  ASSUME NEW slots, NEW rows, NEW idx, Had(slots, rows, idx), NEW old, NEW new, NEW after, DOMAIN after = DOMAIN rows,
         \A id \in DOMAIN rows : after[id].dialer = RenameRef(rows[id].dialer, old, new)
  PROVE  Parted(slots, after, idx, old, new)
<1>1. ASSUME NEW id \in DOMAIN slots
      PROVE  id \in DOMAIN after /\ \E p \in DOMAIN idx : after[id].dialer = RenameRef(p, old, new) /\ slots[id] = idx[p]
  BY DEF Had
<1>2. ASSUME DOMAIN slots # {}, NEW p \in DOMAIN idx
      PROVE  \E id \in DOMAIN slots : after[id].dialer = RenameRef(p, old, new) /\ slots[id] = idx[p]
  BY <1>2 DEF Had
<1>3. QED
  BY <1>1, <1>2 DEF Parted

LEMMA RekeyedIs ==
  ASSUME NEW idx, IsNumbering(idx), {} \notin DOMAIN idx, NEW old, NEW new, NEW f \in Rekeyed(idx, old, new)
  PROVE  /\ IsNumbering(f) /\ {} \notin DOMAIN f
         /\ \A p \in DOMAIN idx : RenameRef(p, old, new) \in DOMAIN f
         /\ \A k \in DOMAIN f : \E p \in DOMAIN idx : RenameRef(p, old, new) = k /\ f[k] = idx[p]
<1> DEFINE keys == {RenameRef(p, old, new) : p \in DOMAIN idx}
<1>1. /\ f \in [keys -> 0 .. SlotCount - 1]
      /\ \A k \in keys : \E p \in DOMAIN idx : RenameRef(p, old, new) = k /\ f[k] = idx[p]
  BY DEF Rekeyed
<1>2. DOMAIN f = keys /\ f \in [DOMAIN f -> 0 .. SlotCount - 1]
  BY <1>1
<1>3. \A p \in DOMAIN idx : RenameRef(p, old, new) # {}
  BY RenamedEmpty
<1>4. ASSUME NEW k \in DOMAIN f, NEW l \in DOMAIN f, f[k] = f[l]
      PROVE  k = l
  <2>1. PICK p \in DOMAIN idx : RenameRef(p, old, new) = k /\ f[k] = idx[p]
    BY <1>1, <1>2
  <2>2. PICK q \in DOMAIN idx : RenameRef(q, old, new) = l /\ f[l] = idx[q]
    BY <1>1, <1>2
  <2>3. p = q
    BY <1>4, <2>1, <2>2 DEF IsNumbering
  <2>4. QED
    BY <2>1, <2>2, <2>3
<1>5. IsNumbering(f)
  BY <1>2, <1>4 DEF IsNumbering
<1>6. QED
  BY <1>1, <1>2, <1>3, <1>5

\* RenamedRef: the keys follow the rows.
LEMMA PartedMeet ==
  ASSUME NEW slots, NEW rows, NEW idx, NEW old, NEW new, Parted(slots, rows, idx, old, new),
         IsNumbering(idx), {} \notin DOMAIN idx, NEW f \in Rekeyed(idx, old, new)
  PROVE  Has(slots, rows, f)
<1>1. /\ \A p \in DOMAIN idx : RenameRef(p, old, new) \in DOMAIN f
      /\ \A k \in DOMAIN f : \E p \in DOMAIN idx : RenameRef(p, old, new) = k /\ f[k] = idx[p]
  BY RekeyedIs
<1>2. ASSUME NEW id \in DOMAIN slots
      PROVE  /\ id \in DOMAIN rows /\ rows[id].dialer \in DOMAIN f
             /\ \E j \in DOMAIN slots : rows[j].dialer = rows[id].dialer /\ f[rows[id].dialer] = slots[j]
  <2>1. id \in DOMAIN rows /\ \E p \in DOMAIN idx : rows[id].dialer = RenameRef(p, old, new)
    BY DEF Parted
  <2>2. rows[id].dialer \in DOMAIN f
    BY <1>1, <2>1
  <2>3. PICK q \in DOMAIN idx : RenameRef(q, old, new) = rows[id].dialer /\ f[rows[id].dialer] = idx[q]
    BY <1>1, <2>2
  <2>4. PICK j \in DOMAIN slots : rows[j].dialer = RenameRef(q, old, new) /\ slots[j] = idx[q]
    BY DEF Parted
  <2>5. QED
    BY <2>1, <2>2, <2>3, <2>4
<1>3. QED
  BY <1>2 DEF Has

\* A reconcile after which nobody has written or moved keys finds the pools
\* of the masters under their keys.
LEMMA PoolsAreStored ==
  ASSUME NamesInv, IdsInv, NEW used, used = DialersIn(entries) \ {{}}
  PROVE  Pools \in Seq(used) /\ \A p \in used : \E i \in 1 .. Len(Pools) : Pools[i] = p
<1> DEFINE dialer == StoredDialers
           masters == {n \in EntryNames : dialer[n] # {}}
<1>1. \A id \in DOMAIN entries : entries[id] \in AnyRow
  BY DEF NamesInv, Stock, AreRows
<1>2. EntryNames \subseteq Names /\ Names \subseteq Nat
  BY <1>1, EntriesAssumption DEF EntryNames, AnyRow
<1>3. IsFiniteSet(EntryNames)
  <2>1. DOMAIN entries \subseteq 0 .. nextId /\ nextId \in Nat
    BY DEF IdsInv, IdsBelow
  <2>2. IsFiniteSet(0 .. nextId)
    BY <2>1, FS_Interval
  <2>3. IsFiniteSet(DOMAIN entries)
    BY <2>1, <2>2, FS_Subset
  <2>4. IsFiniteSet({entries[id].name : id \in DOMAIN entries})
    <3> DEFINE name == [id \in DOMAIN entries |-> entries[id].name]
               T == {entries[id].name : id \in DOMAIN entries}
    <3>1. name \in Surjection(DOMAIN entries, T)
      BY DEF Surjection
    <3> HIDE DEF name
    <3>2. IsFiniteSet(T)
      BY <2>3, <3>1, FS_Surjection
    <3>3. QED
      BY <3>2
  <2>5. QED
    BY <2>4 DEF EntryNames
<1>4. masters \in SUBSET Nat /\ IsFiniteSet(masters)
  BY <1>2, <1>3, FS_Subset
<1>5. ASSUME NEW id \in DOMAIN entries
      PROVE  entries[id].name \in EntryNames /\ dialer[entries[id].name] = entries[id].dialer
  <2>1. Named(entries[id].name) = {id}
    BY DEF Named, NamesInv, Stock, OneName
  <2>2. (CHOOSE i \in Named(entries[id].name) : TRUE) = id
    BY <2>1
  <2>3. entries[id].name \notin DOMAIN <<>> /\ entries[id].name \in EntryNames
    BY DEF EntryNames
  <2>4. dialer[entries[id].name] = DialerOf(entries[id].name, <<>>)
    BY <2>3 DEF StoredDialers
  <2>5. DialerOf(entries[id].name, <<>>) = entries[id].dialer
    BY <2>1, <2>2, <2>3 DEF DialerOf
  <2>6. QED
    BY <2>3, <2>4, <2>5
<1>6. used = {dialer[n] : n \in masters}
  <2>1. \A n \in EntryNames : \E id \in DOMAIN entries : n = entries[id].name
    BY DEF EntryNames
  <2> HIDE DEF dialer
  <2>2. ASSUME NEW p \in used PROVE \E n \in masters : p = dialer[n]
    BY <1>5 DEF DialersIn
  <2>3. ASSUME NEW n \in masters PROVE dialer[n] \in used
    BY <1>5, <2>1 DEF DialersIn
  <2>4. QED
    BY <2>2, <2>3
<1>7. Pools = PoolsByMaster(masters, dialer)
  BY DEF Pools
<1> HIDE DEF masters, dialer
<1>8. /\ PoolsByMaster(masters, dialer) \in Seq(used)
      /\ \A p \in used : \E i \in 1 .. Len(PoolsByMaster(masters, dialer)) : PoolsByMaster(masters, dialer)[i] = p
  BY <1>4, <1>6, PoolsByMasterAre
<1>9. QED
  BY <1>7, <1>8

LEMMA NumbersStored ==
  ASSUME NamesInv, IdsInv, NEW prev, IsNumbering(prev), NEW idx, idx = AssignSlotIndices(prev, Pools)
  PROVE  /\ IsNumbering(idx) /\ {} \notin DOMAIN idx /\ Behind(idx, entries)
         /\ \A p \in DOMAIN prev \cap DialersIn(entries) : p # {} => p \in DOMAIN idx /\ idx[p] = prev[p]
<1> DEFINE used == DialersIn(entries) \ {{}}
           pools == Pools
<1>1. pools \in Seq(used) /\ \A p \in used : \E i \in 1 .. Len(pools) : pools[i] = p
  BY PoolsAreStored
<1>2. used \subseteq DialersIn(entries) /\ {} \notin used /\ \A p \in DialersIn(entries) : p # {} => p \in used
  OBVIOUS
<1>3. idx = AssignSlotIndices(prev, pools)
  OBVIOUS
<1> HIDE DEF used, pools
<1>4. /\ IsNumbering(idx) /\ DOMAIN idx \subseteq used
      /\ \A p \in DOMAIN prev \cap DOMAIN idx : idx[p] = prev[p]
      /\ \A i \in 1 .. Len(pools) : pools[i] \in DOMAIN prev => pools[i] \in DOMAIN idx
  BY <1>1, <1>3, SlotsAssigned
<1>5. QED
  BY <1>1, <1>2, <1>4 DEF Behind

\* The halves that read and check.
LEMMA SlotsRead ==
  ASSUME SlotsInv, NEW c \in Clients, Reads(c)
  PROVE  \E r : /\ call' = [call EXCEPT ![c] = r] /\ "op" \in DOMAIN r /\ Carried(r, entries, slotIdx)
                /\ UNCHANGED <<entries, slotIdx, dirty>> /\ call[c] = Idle
<1> DEFINE Began == \E r : Begin(c, r) /\ "op" \in DOMAIN r /\ Carried(r, entries, slotIdx)
<1>1. UNCHANGED <<entries, slotIdx, dirty>> /\ call[c] = Idle
  BY DEF Reads, EntryAdd, EntryDuplicate, EntrySetMux, EntrySetConfig, EntryBulkDialer, EntryRename, SubRename,
         InboundAdd, InboundDuplicate, InboundSetTarget, ExportInbounds, ImportConfig, Only, tables, Free
<1>2. ASSUME NEW r, Begin(c, r), "op" \in DOMAIN r, r.op \notin Renames PROVE Began
  BY <1>2, CarriesNothing
<1>3. ASSUME EntryRename(c) PROVE Began
  <2>1. PICK id \in DOMAIN entries, n \in Names :
          Begin(c, [op |-> "rename", at |-> "write", id |-> id, old |-> XrayRef(entries[id].name), new |-> XrayRef(n), slots |-> SlotsNow])
    BY <1>3 DEF EntryRename
  <2>2. PICK slots, old, new : slots = SlotsNow /\ old = XrayRef(entries[id].name) /\ new = XrayRef(n)
    OBVIOUS
  <2>3. Had(slots, entries, slotIdx)
    BY <2>2, CarriesNow
  <2> DEFINE r == [op |-> "rename", at |-> "write", id |-> id, old |-> old, new |-> new, slots |-> slots]
  <2>4. Carried(r, entries, slotIdx) /\ "op" \in DOMAIN r
    BY <2>2, <2>3 DEF Carried
  <2>5. Begin(c, r)
    BY <2>1, <2>2
  <2> HIDE DEF r
  <2>6. QED
    BY <2>4, <2>5
<1>4. ASSUME SubRename(c) PROVE Began
  <2>1. PICK s \in StoredSubs, n \in SubNames :
          Begin(c, [op |-> "subrename", at |-> "write", old |-> SubRef(s), new |-> SubRef(n), slots |-> SlotsNow])
    BY <1>4 DEF SubRename
  <2>2. PICK slots, old, new : slots = SlotsNow /\ old = SubRef(s) /\ new = SubRef(n)
    OBVIOUS
  <2>3. Had(slots, entries, slotIdx)
    BY <2>2, CarriesNow
  <2> DEFINE r == [op |-> "subrename", at |-> "write", old |-> old, new |-> new, slots |-> slots]
  <2>4. Carried(r, entries, slotIdx) /\ "op" \in DOMAIN r
    BY <2>2, <2>3 DEF Carried
  <2>5. Begin(c, r)
    BY <2>1, <2>2
  <2> HIDE DEF r
  <2>6. QED
    BY <2>4, <2>5
<1> HIDE DEF Began
<1>5. ASSUME EntryAdd(c) \/ EntryDuplicate(c) \/ EntrySetMux(c) \/ EntrySetConfig(c) \/ EntryBulkDialer(c) PROVE Began
  <2>1. \A row : Begin(c, [op |-> "add", at |-> "write", row |-> row]) => Began
    BY <1>2 DEF Renames
  <2>2. \A row : Begin(c, [op |-> "duplicate", at |-> "write", row |-> row]) => Began
    BY <1>2 DEF Renames
  <2>3. \A id, row : Begin(c, [op |-> "mux", at |-> "write", id |-> id, row |-> row]) => Began
    BY <1>2 DEF Renames
  <2>4. \A id, row : Begin(c, [op |-> "config", at |-> "write", id |-> id, row |-> row]) => Began
    BY <1>2 DEF Renames
  <2>5. \A set : Begin(c, [op |-> "dialer", at |-> "write", set |-> set]) => Began
    BY <1>2 DEF Renames
  <2>6. QED
    BY <1>5, <2>1, <2>2, <2>3, <2>4, <2>5 DEF EntryAdd, EntryDuplicate, EntrySetMux, EntrySetConfig, EntryBulkDialer
<1>6. ASSUME InboundAdd(c) \/ InboundDuplicate(c) \/ InboundSetTarget(c) \/ ExportInbounds(c) \/ ImportConfig(c) PROVE Began
  <2>1. \A i, t : Begin(c, [op |-> "inbound", at |-> "write", in |-> i, target |-> t]) => Began
    BY <1>2 DEF Renames
  <2>2. \A i, t : Begin(c, [op |-> "target", at |-> "write", in |-> i, target |-> t]) => Began
    BY <1>2 DEF Renames
  <2>3. \A ins : Begin(c, [op |-> "export", at |-> "export", ins |-> ins]) => Began
    BY <1>2 DEF Renames
  <2>4. \A at, replace, of, todo :
          Begin(c, [op |-> "import", at |-> at, replace |-> replace, of |-> of, todo |-> todo]) => Began
    BY <1>2 DEF Renames
  <2>5. QED
    BY <1>6, <2>1, <2>2, <2>3, <2>4 DEF InboundAdd, InboundDuplicate, InboundSetTarget, ExportInbounds, ImportConfig
<1>7. Began
  BY <1>3, <1>4, <1>5, <1>6 DEF Reads
<1>8. QED
  BY <1>1, <1>7 DEF Began, Begin

\* The store's half of a rename.
LEMMA SlotsRename ==
  ASSUME OwesReconcile, NamesInv, SlotsInv, NEW c \in Clients, Leaves(c), RenameEntry(c) \/ RenameSubscription(c), ~Refused(c)
  PROVE  SlotsInv'
<1> DEFINE k == call[c]
           r == [k EXCEPT !.at = "renamed"]
<1>1. /\ call' = [call EXCEPT ![c] = r] /\ slotIdx' = slotIdx /\ dirty'
      /\ undisturbed'[c] => undisturbed[c]
  BY DEF RenameEntry, RenameSubscription, Committed, Disturb
<1>2. "op" \in DOMAIN k /\ "at" \in DOMAIN k /\ k.op \in Renames /\ k.at = "write" /\ MayWrite(k)
  BY DEF SlotsInv, OwesReconcile, NamesInv, RenameEntry, RenameSubscription, At, Renames
<1>3. DOMAIN r = DOMAIN k /\ r.op = k.op /\ r.at = "renamed"
  BY <1>2
<1>4. ASSUME undisturbed[c]
      PROVE  Carried(r, entries', slotIdx)
  <2>1. Carried(k, entries, slotIdx)
    BY <1>4 DEF SlotsInv
  <2>2. {"slots", "old", "new"} \subseteq DOMAIN k /\ Had(k.slots, entries, slotIdx)
    BY <1>2, <2>1 DEF Carried
  <2>3. r.slots = k.slots /\ r.old = k.old /\ r.new = k.new
    BY <2>2
  <2>4. /\ DOMAIN entries' = DOMAIN entries
        /\ \A id \in DOMAIN entries : entries'[id].dialer = RenameRef(entries[id].dialer, k.old, k.new)
    <3>1. CASE RenameEntry(c)
      <4>1. k.op = "rename"
        BY <3>1 DEF RenameEntry, At
      <4>2. k.id \in DOMAIN entries /\ k.old = XrayRef(entries[k.id].name)
        BY <1>2, <2>1, <4>1 DEF Carried
      <4>3. PICK n \in Names : k.new = XrayRef(n)
        BY <1>2, <4>1 DEF MayWrite
      <4>4. k.new[2] = n
        BY <4>3 DEF XrayRef
      <4>5. entries' = Cascaded(entries, k.id, n)
        BY <3>1, <4>4 DEF RenameEntry, Cascaded
      <4>6. PICK o, after : o = entries[k.id].name /\ after = entries'
        OBVIOUS
      <4>7. OneName(entries) /\ AreRows(entries)
        BY DEF NamesInv, Stock
      <4>8. after = Cascaded(entries, k.id, n) /\ o = entries[k.id].name /\ k.id \in DOMAIN entries
        BY <4>2, <4>5, <4>6
      <4> HIDE DEF k
      <4>9. DOMAIN after = DOMAIN entries /\ \A i \in DOMAIN entries : IsRenamed(entries[i], after[i], o, n)
        BY <4>7, <4>8, RowsRenamed
      <4>10. QED
        BY <4>2, <4>3, <4>6, <4>9 DEF IsRenamed
    <3>2. CASE RenameSubscription(c)
      <4>1. k.op = "subrename"
        BY <3>2 DEF RenameSubscription, At
      <4>2. PICK s : k.old = SubRef(s)
        BY <1>2, <2>1, <4>1 DEF Carried
      <4>3. PICK n \in SubNames : k.new = SubRef(n)
        BY <1>2, <4>1 DEF MayWrite
      <4>4. k.old[2] = s /\ k.new[2] = n
        BY <4>2, <4>3 DEF SubRef
      <4>5. entries' = Cascade(entries, k.old, k.new)
        BY <3>2, <4>2, <4>3, <4>4 DEF RenameSubscription
      <4>6. \A i \in DOMAIN entries : entries[i] \in AnyRow
        BY DEF NamesInv, Stock, AreRows
      <4> HIDE DEF k
      <4>7. QED
        BY <4>5, <4>6 DEF Cascade, AnyRow
    <3>3. QED
      BY <3>1, <3>2
  <2>5. Parted(k.slots, entries', slotIdx, k.old, k.new)
    BY <2>2, <2>4, HadIsParted
  <2>6. QED
    BY <1>3, <2>2, <2>3, <2>5 DEF Carried
<1>5. undisturbed'[c] => Carried(r, entries', slotIdx)
  BY <1>1, <1>4
<1>6. "op" \in DOMAIN r
  BY <1>2, <1>3
<1> HIDE DEF r
<1>7. QED
  BY <1>1, <1>5, <1>6, SlotsWrite

\* The daemon's.
LEMMA SlotsMove ==
  ASSUME OwesReconcile, NamesInv, SlotsInv, NEW c \in Clients, Leaves(c), RenamedRef(c)
  PROVE  SlotsInv'
<1> DEFINE k == call[c]
           r == [k EXCEPT !.at = "reconcile"]
<1>1. /\ call' = [call EXCEPT ![c] = r] /\ slotIdx' \in Rekeyed(slotIdx, k.old, k.new) /\ entries' = entries
      /\ undisturbed'[c] => undisturbed[c]
  BY DEF RenamedRef, Disturb, tables
<1>2. "op" \in DOMAIN k /\ "at" \in DOMAIN k /\ k.op \in Renames /\ k.at = "renamed"
  BY DEF SlotsInv, OwesReconcile, RenamedRef, At, Renames
<1>3. DOMAIN r = DOMAIN k /\ r.op = k.op /\ r.at = "reconcile"
  BY <1>2
<1>4. IsNumbering(slotIdx) /\ {} \notin DOMAIN slotIdx
  BY DEF SlotsInv
<1>5. IsNumbering(slotIdx') /\ {} \notin DOMAIN slotIdx'
  <2>1. PICK f, idx : f = slotIdx' /\ idx = slotIdx
    OBVIOUS
  <2>2. IsNumbering(f) /\ {} \notin DOMAIN f
    BY <1>1, <1>4, <2>1, RekeyedIs
  <2>3. QED
    BY <2>1, <2>2
<1>6. ~AsReconciled'
  <2>1. call'[c] = r
    BY <1>1 DEF NamesInv
  <2>2. call'[c].op \in Renames /\ call'[c].at = "reconcile"
    BY <1>2, <1>3, <2>1
  <2>3. QED
    BY <2>2 DEF AsReconciled, At, Renames
<1>7. ASSUME undisturbed[c]
      PROVE  Carried(r, entries, slotIdx')
  <2>1. {"slots", "old", "new"} \subseteq DOMAIN k /\ Parted(k.slots, entries, slotIdx, k.old, k.new)
    BY <1>2, <1>7 DEF SlotsInv, Carried
  <2>2. r.slots = k.slots /\ DOMAIN r = DOMAIN k
    BY <1>3, <2>1
  <2>3. Has(k.slots, entries, slotIdx')
    BY <1>1, <1>4, <2>1, PartedMeet
  <2>4. QED
    BY <1>3, <2>1, <2>2, <2>3 DEF Carried
<1>8. undisturbed'[c] => Carried(r, entries', slotIdx')
  BY <1>1, <1>7
<1>9. "op" \in DOMAIN r
  BY <1>2, <1>3
<1> HIDE DEF r
<1>10. QED
  BY <1>1, <1>5, <1>6, <1>8, <1>9, SlotsGoOn

LEMMA SlotsReconcile ==
  ASSUME NamesInv, IdsInv, SlotsInv, NEW c \in Clients, Leaves(c), Reconcile(c)
  PROVE  SlotsInv'
<1>1. call' = [call EXCEPT ![c] = Idle] /\ slotIdx' = AssignSlotIndices(slotIdx, Pools) /\ entries' = entries
  BY DEF Reconcile, tables
<1>2. IsNumbering(slotIdx)
  BY DEF SlotsInv
<1>3. PICK idx : idx = slotIdx'
  OBVIOUS
<1>4. IsNumbering(idx) /\ {} \notin DOMAIN idx /\ Behind(idx, entries)
  <2>1. idx = AssignSlotIndices(slotIdx, Pools)
    BY <1>1, <1>3
  <2>2. QED
    BY <1>2, <2>1, NumbersStored
<1>5. IsNumbering(slotIdx') /\ {} \notin DOMAIN slotIdx' /\ (AsReconciled' => Behind(slotIdx', entries'))
  BY <1>1, <1>3, <1>4
<1>6. "op" \in DOMAIN Idle /\ Carried(Idle, entries', slotIdx')
  <2>1. "op" \in DOMAIN Idle /\ Idle.op \notin Renames
    BY DEF Idle, Renames
  <2>2. QED
    BY <2>1, CarriesNothing
<1>7. QED
  BY <1>1, <1>5, <1>6, SlotsGoOn

\* The rest.
LEMMA SlotsOther ==
  ASSUME OwesReconcile, NamesInv, SlotsInv, NEW c \in Clients, Leaves(c), GoesOn(c),
         ~RenamedRef(c), ~Reconcile(c), ~(RenameEntry(c) \/ RenameSubscription(c)) \/ Refused(c)
  PROVE  SlotsInv'
<1> DEFINE k == call[c]
<1>1. "op" \in DOMAIN k /\ "at" \in DOMAIN k
  BY DEF SlotsInv, OwesReconcile
<1>2. ASSUME NEW r, call' = [call EXCEPT ![c] = r], "op" \in DOMAIN r, r.op \notin Renames, UNCHANGED slotIdx, dirty'
      PROVE  SlotsInv'
  <2>1. Carried(r, entries', slotIdx)
    BY <1>2, CarriesNothing
  <2>2. QED
    BY <1>2, <2>1, SlotsWrite
<1>3. ASSUME NEW r, call' = [call EXCEPT ![c] = r], "op" \in DOMAIN r, r.op \notin Renames,
             UNCHANGED <<entries, slotIdx, dirty>>, ~At(c, Renames, "reconcile")
      PROVE  SlotsInv'
  <2>1. Carried(r, entries, slotIdx)
    BY <1>3, CarriesNothing
  <2>2. QED
    BY <1>3, <2>1, SlotsQuiet
<1>4. "op" \in DOMAIN Idle /\ Idle.op \notin Renames
  BY DEF Idle, Renames
<1>5. ASSUME Refused(c), k.at = "write" PROVE SlotsInv'
  BY <1>3, <1>4, <1>5 DEF Refused, At, tables, history
<1>6. ASSUME NEW at, Committed(c, at), k.op \notin Renames PROVE SlotsInv'
  <2>1. call' = [call EXCEPT ![c] = [k EXCEPT !.at = at]] /\ UNCHANGED slotIdx /\ dirty'
    BY <1>6 DEF Committed
  <2>2. "op" \in DOMAIN [k EXCEPT !.at = at] /\ [k EXCEPT !.at = at].op \notin Renames
    BY <1>1, <1>6
  <2>3. QED
    BY <1>2, <2>1, <2>2
<1>7. ASSUME NEW op, CommitAtOnce(c, op), op \notin Renames PROVE SlotsInv'
  <2>1. call' = [call EXCEPT ![c] = [op |-> op, at |-> "reconcile"]] /\ UNCHANGED slotIdx /\ dirty'
    BY <1>7 DEF CommitAtOnce
  <2>2. "op" \in DOMAIN [op |-> op, at |-> "reconcile"] /\ [op |-> op, at |-> "reconcile"].op \notin Renames
    BY <1>7
  <2>3. QED
    BY <1>2, <2>1, <2>2
<1>8. ASSUME RenameEntry(c) \/ RenameSubscription(c) PROVE SlotsInv'
  <2>1. Refused(c) /\ k.at = "write"
    BY <1>8 DEF RenameEntry, RenameSubscription, At
  <2>2. QED
    BY <1>5, <2>1
<1>9. ASSUME CreateEntry(c) \/ UpdateEntry(c) \/ SetEntryDialers(c) \/ CreateInbound(c) \/ UpdateInbound(c) \/ DeleteAllConfig(c)
      PROVE  SlotsInv'
  <2>1. k.op \notin Renames
    BY <1>9 DEF CreateEntry, UpdateEntry, SetEntryDialers, CreateInbound, UpdateInbound, DeleteAllConfig, At, Renames
  <2>2. (Refused(c) /\ k.at = "write") \/ \E at : Committed(c, at)
    BY <1>9 DEF CreateEntry, UpdateEntry, SetEntryDialers, CreateInbound, UpdateInbound, DeleteAllConfig, At
  <2>3. QED
    BY <1>5, <1>6, <2>1, <2>2
<1>10. ASSUME EntryRemove(c) \/ InboundRemove(c) \/ SubRemove(c) \/ SubSetEnabled(c) PROVE SlotsInv'
  <2>1. CommitAtOnce(c, "remove") \/ CommitAtOnce(c, "enable")
    BY <1>10 DEF EntryRemove, InboundRemove, SubRemove, SubSetEnabled
  <2>2. QED
    BY <1>7, <2>1 DEF Renames
<1>11. ASSUME ExportRest(c) \/ ImportFails(c) PROVE SlotsInv'
  <2>1. call' = [call EXCEPT ![c] = Idle] /\ UNCHANGED <<entries, slotIdx, dirty>> /\ ~At(c, Renames, "reconcile")
    BY <1>11 DEF ExportRest, ImportFails, At, Renames, tables, history
  <2>2. QED
    BY <1>3, <1>4, <2>1
<1>12. ASSUME SkipRow(c) PROVE SlotsInv'
  <2>1. PICK row : call' = [call EXCEPT ![c] = [k EXCEPT !.todo = k.todo \ {row}]]
    BY <1>12 DEF SkipRow
  <2>2. UNCHANGED <<entries, slotIdx, dirty>> /\ ~At(c, Renames, "reconcile") /\ k.op \notin Renames
    BY <1>12 DEF SkipRow, At, Renames, tables, history
  <2>3. "op" \in DOMAIN [k EXCEPT !.todo = k.todo \ {row}] /\ [k EXCEPT !.todo = k.todo \ {row}].op = k.op
    BY <1>1
  <2>4. QED
    BY <1>3, <2>1, <2>2, <2>3
<1>13. ASSUME ImportDone(c) PROVE SlotsInv'
  <2>1. /\ call' = [call EXCEPT ![c] = [k EXCEPT !.at = "reconcile"]]
        /\ UNCHANGED <<entries, slotIdx, dirty>> /\ ~At(c, Renames, "reconcile") /\ k.op \notin Renames
    BY <1>13 DEF ImportDone, At, Renames, tables, history
  <2>2. "op" \in DOMAIN [k EXCEPT !.at = "reconcile"] /\ [k EXCEPT !.at = "reconcile"].op = k.op
    BY <1>1
  <2>3. QED
    BY <1>3, <2>1, <2>2
<1>14. ASSUME CreateRow(c) PROVE SlotsInv'
  <2>1. PICK row : call' = [call EXCEPT ![c] = [k EXCEPT !.todo = k.todo \ {row}]] /\ UNCHANGED slotIdx /\ dirty'
    BY <1>14 DEF CreateRow
  <2>2. k.op \notin Renames
    BY <1>14 DEF CreateRow, At, Renames
  <2>3. "op" \in DOMAIN [k EXCEPT !.todo = k.todo \ {row}] /\ [k EXCEPT !.todo = k.todo \ {row}].op = k.op
    BY <1>1
  <2>4. QED
    BY <1>2, <2>1, <2>2, <2>3
<1>15. QED
  BY <1>8, <1>9, <1>10, <1>11, <1>12, <1>13, <1>14 DEF GoesOn

LEMMA SlotsStep ==
  ASSUME OwesReconcile, NamesInv, CheckedInv, SlotsInv, [Next]_entriesVars
  PROVE  SlotsInv'
<1>1. CASE UNCHANGED entriesVars
  <2>1. entries' = entries /\ slotIdx' = slotIdx /\ call' = call /\ undisturbed' = undisturbed /\ dirty' = dirty
    BY <1>1 DEF entriesVars, tables, history
  <2>2. AsReconciled' = AsReconciled
    BY <2>1 DEF AsReconciled, At
  <2>3. QED
    BY <2>1, <2>2 DEF SlotsInv
<1>2. CASE Next
  <2>1. PICK c \in Clients : Reads(c) \/ GoesOn(c)
    BY <1>2, StepsAre
  <2>2. StillChecked /\ IdsInv
    BY DEF CheckedInv
  <2>3. Leaves(c)
    BY <2>1, <2>2, StepLeaves
  <2>4. CASE Reads(c)
    <3>1. PICK r : /\ call' = [call EXCEPT ![c] = r] /\ "op" \in DOMAIN r /\ Carried(r, entries, slotIdx)
                   /\ UNCHANGED <<entries, slotIdx, dirty>> /\ call[c] = Idle
      BY <2>4, SlotsRead
    <3>2. ~At(c, Renames, "reconcile")
      BY <3>1 DEF At, Idle
    <3>3. QED
      BY <2>3, <3>1, <3>2, SlotsQuiet
  <2>5. CASE GoesOn(c)
    BY <2>2, <2>3, <2>5, SlotsRename, SlotsMove, SlotsReconcile, SlotsOther
  <2>6. QED
    BY <2>1, <2>4, <2>5
<1>3. QED
  BY <1>1, <1>2

LEMMA SlotsInit == Init /\ NamesInv /\ CheckedInv => SlotsInv
<1> SUFFICES ASSUME Init, NamesInv, CheckedInv PROVE SlotsInv
  OBVIOUS
<1>1. slotIdx = AssignSlotIndices(<<>>, Pools) /\ call = [c \in Clients |-> Idle] /\ IdsInv
  BY DEF Init, CheckedInv
<1>2. IsNumbering(<<>>)
  BY NoNumbering, NumberingsAre
<1>3. IsNumbering(slotIdx) /\ {} \notin DOMAIN slotIdx /\ Behind(slotIdx, entries)
  BY <1>1, <1>2, NumbersStored
<1>4. "op" \in DOMAIN Idle /\ Carried(Idle, entries, slotIdx)
  <2>1. "op" \in DOMAIN Idle /\ Idle.op \notin Renames
    BY DEF Idle, Renames
  <2>2. QED
    BY <2>1, CarriesNothing
<1>5. QED
  BY <1>1, <1>3, <1>4 DEF SlotsInv

\* The reconcile of a rename.
LEMMA RenameReconciles ==
  ASSUME NamesInv, CheckedInv, SlotsInv, [Next]_entriesVars, NEW c \in Clients,
         At(c, {"rename", "subrename"}, "reconcile"), call'[c] = Idle, undisturbed[c],
         NEW id \in DOMAIN call[c].slots
  PROVE  /\ entries[id].dialer \in DOMAIN slotIdx'
         /\ \E j \in DOMAIN call[c].slots : entries[j].dialer = entries[id].dialer /\ slotIdx'[entries[id].dialer] = call[c].slots[j]
<1>1. call[c].op \in Renames /\ call[c].at = "reconcile" /\ call'[c] # call[c]
  BY DEF At, Renames, Idle
<1>2. PICK d \in Clients :
        EntryCall(d) \/ RenameCall(d) \/ InboundCall(d) \/ SubCall(d) \/ BackupCall(d) \/ Reconcile(d)
  BY <1>1 DEF Next, entriesVars
<1>3. d = c
  <2>1. PICK r : call' = [call EXCEPT ![d] = r]
    BY <1>2, OwnCallOnly
  <2>2. QED
    BY <1>1, <2>1 DEF NamesInv
<1>4. ~Free(c)
  BY <1>1 DEF Free, Idle
<1>5. Reconcile(c)
  <2>1. ~EntryCall(c) /\ ~InboundCall(c) /\ ~SubCall(c)
    BY <1>1, <1>4 DEF EntryCall, EntryAdd, EntryDuplicate, CreateEntry, EntryRemove, EntrySetMux, EntrySetConfig,
              UpdateEntry, EntryBulkDialer, SetEntryDialers, InboundCall, InboundAdd, InboundDuplicate, InboundSetTarget,
              CreateInbound, UpdateInbound, InboundRemove, SubCall, SubRemove, SubSetEnabled, At
  <2>2. ~RenameCall(c) /\ ~BackupCall(c)
    BY <1>1, <1>4 DEF RenameCall, EntryRename, SubRename, RenameEntry, RenameSubscription, RenamedRef,
              BackupCall, ExportInbounds, ExportRest, ImportConfig, DeleteAllConfig, CreateRow, SkipRow,
              ImportFails, ImportDone, At
  <2>3. QED
    BY <1>2, <1>3, <2>1, <2>2
<1>6. Has(call[c].slots, entries, slotIdx) /\ IsNumbering(slotIdx) /\ {} \notin DOMAIN slotIdx /\ IdsInv
  BY <1>1 DEF SlotsInv, Carried, CheckedInv
<1>7. /\ id \in DOMAIN entries /\ entries[id].dialer \in DOMAIN slotIdx
      /\ \E j \in DOMAIN call[c].slots : entries[j].dialer = entries[id].dialer /\ slotIdx[entries[id].dialer] = call[c].slots[j]
  BY <1>6 DEF Has
<1>8. PICK p, idx : p = entries[id].dialer /\ idx = slotIdx'
  OBVIOUS
<1>9. p \in DOMAIN slotIdx \cap DialersIn(entries) /\ p # {}
  BY <1>6, <1>7, <1>8 DEF DialersIn
<1>10. p \in DOMAIN idx /\ idx[p] = slotIdx[p]
  <2>1. idx = AssignSlotIndices(slotIdx, Pools)
    BY <1>5, <1>8 DEF Reconcile
  <2>2. \A q \in DOMAIN slotIdx \cap DialersIn(entries) : q # {} => q \in DOMAIN idx /\ idx[q] = slotIdx[q]
    BY <1>6, <2>1, NumbersStored
  <2>3. QED
    BY <1>9, <2>2
<1>11. QED
  BY <1>7, <1>8, <1>10

(* A rename that nobody overtakes takes the pools' slots along, whatever    *)
(* the number of slots, pools and names: between the store's half and       *)
(* RenamedRef the keys and the rows are apart, by just that name; then every *)
(* master's pool has a slot again that was its own or that of a pool that   *)
(* is now the same, and assignSlotIndices leaves it there (rename.go,       *)
(* store.go: RenameEntry, RenameSubscription; xray.go:                      *)
(* assignSlotIndices).                                                      *)
THEOREM RenamesKeepSlots == Spec => RenameKeepsSlots
<1> DEFINE Inv == OwesReconcile /\ NamesInv /\ CheckedInv /\ SlotsInv
           Kept(c, id) == LET pool == entries[id].dialer
                          IN  /\ pool \in DOMAIN slotIdx'
                              /\ slotIdx'[pool] \in {call[c].slots[j] : j \in {i \in DOMAIN call[c].slots : entries[i].dialer = pool}}
           Step(c) == At(c, {"rename", "subrename"}, "reconcile") /\ call'[c] = Idle /\ undisturbed[c] =>
                        \A id \in DOMAIN call[c].slots : Kept(c, id)
<1>1. Init => Inv
  BY OwesInit, NamesInit, CheckedInit, SlotsInit
<1>2. Inv /\ [Next]_entriesVars => Inv'
  BY OwesStep, NamesStep, CheckedStep, SlotsStep
<1>3. ASSUME Inv, [Next]_entriesVars PROVE [\A c \in Clients : Step(c)]_entriesVars
  <2> SUFFICES ASSUME NEW c \in Clients, At(c, {"rename", "subrename"}, "reconcile"), call'[c] = Idle, undisturbed[c],
                      NEW id \in DOMAIN call[c].slots
               PROVE  Kept(c, id)
    OBVIOUS
  <2>1. /\ entries[id].dialer \in DOMAIN slotIdx'
        /\ \E j \in DOMAIN call[c].slots : entries[j].dialer = entries[id].dialer /\ slotIdx'[entries[id].dialer] = call[c].slots[j]
    BY <1>3, RenameReconciles
  <2>2. QED
    BY <2>1
<1>4. QED
  BY <1>1, <1>2, <1>3, PTL DEF Spec, RenameKeepsSlots
=============================================================================
