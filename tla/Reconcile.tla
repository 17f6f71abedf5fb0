----------------------------- MODULE Reconcile -----------------------------
(***************************************************************************)
(* Supervisor.Reconcile (daemon/xray.go) while xray is up: what is stored  *)
(* is turned into a config (XrayConfig), xray's own test of it decides     *)
(* which pool members are left out (daemon/validate.go), and the running   *)
(* process is brought to it (LiveApply).                                   *)
(*                                                                         *)
(* A caller commits its change to the store first and reconciles then, so  *)
(* changes of several callers interleave freely with one reconcile, which  *)
(* reads the store when it gets Supervisor.mu.  The reads of one reconcile *)
(* are one step.  Starting, stopping and losing xray is Supervisor's.      *)
(***************************************************************************)
EXTENDS XrayConfig, LiveApply

CONSTANTS Stores,         \* what can be stored
          InitialStores,
          BadMembers,     \* <<key, content>> of the members xray refuses
          BadEntries,     \* the entries xray refuses when enabled
          MaxAttempts     \* rejections in one reconcile (attempt < 16)

VARIABLES
  store,     \* what is stored
  pending,   \* a caller has committed a change and not reconciled yet
  failed,    \* the last reconcile returned an error
  cfgErr,    \* s.cfgErr is set
  slotIdx,   \* s.slotIdx
  rejected,  \* s.rejected: member key -> the content xray refused
  \* Only for the properties:
  runMasters,  \* the enabled masters of the store that running was made from
  wantMasters  \* and of the one that want was made from

storeVars == <<store, pending, failed, cfgErr, slotIdx, rejected, runMasters, wantMasters>>
recVars == <<liveVars, storeVars>>

\* What is stored, as far as a config is made from it: a key is that of one
\* content, in whichever pools it is (core/xray/fingerprint.go).
IsStore(d) ==
  /\ d = [on |-> d.on, dialer |-> d.dialer, nodes |-> d.nodes, pick |-> d.pick,
          target |-> d.target, users |-> d.users, fixed |-> d.fixed]
  /\ d.on \subseteq Entries /\ IsFiniteSet(d.on)
  /\ \A e \in d.on : d.dialer[e] = NoPool \/ d.dialer[e] \in DOMAIN d.nodes
  /\ d.nodes = [p \in DOMAIN d.nodes |-> d.nodes[p]]
  /\ \A p \in DOMAIN d.nodes : d.nodes[p] \in Seq(Range(d.nodes[p]))
  /\ \A p, q \in DOMAIN d.nodes : \A m \in Range(d.nodes[p]), n \in Range(d.nodes[q]) :
       m = <<m[1], m[2]>> /\ (m[1] = n[1] => m = n)
  /\ \A e \in d.on : d.pick[e] \in Seq(Range(d.pick[e]))

ASSUME StoresAssumption == InitialStores \subseteq Stores /\ \A d \in Stores : IsStore(d)

\* LiveApply's tags are XrayConfig's.
ASSUME SameTagsAssumption ==
  /\ Block = BlockTag /\ Blackhole = BlockOut /\ NoTag = NoDialer
  /\ DialerOf = [t \in {OutTag(e) : e \in Entries} |-> DialerTag(t[2])]

-----------------------------------------------------------------------------
(* resolveDialerSlots *)

\* Every member some pool in use resolves to.
Present(d) == UNION {Range(d.nodes[p]) : p \in Range(PoolsInOrder(d))}

\* Mutant of IsRejected: the content does not matter.
IsRejectedByKey(rej, m) == m[1] \in DOMAIN rej

\* withoutRejected: a member is left out while its content is the refused one.
IsRejected(rej, m) == m[1] \in DOMAIN rej /\ rej[m[1]] = m[2]
WithoutRejected(d, rej) ==
  [d EXCEPT !.nodes = [p \in DOMAIN @ |-> Only(@[p], {m \in Range(@[p]) : ~IsRejected(rej, m)})]]

\* forgetRejectedExcept: rejections of members no pool resolves are dropped.
ForgetRejected(d, rej) ==
  [k \in {l \in DOMAIN rej : \E m \in Present(d) : m[1] = l} |-> rej[k]]

\* The config for d, its slots numbered from prev, without rej's members.
ConfigFor(d, prev, rej) ==
  Generate(WithoutRejected(d, rej), AssignSlotIndices(prev, PoolsInOrder(d)))

\* The members of d that reach a slot and that xray refuses.
BadIn(d, slots, rej) ==
  {m \in UNION {Range(d.nodes[p]) : p \in DOMAIN slots} : m \in BadMembers /\ ~IsRejected(rej, m)}

Reject(rej, R) == [k \in DOMAIN rej \cup {m[1] : m \in R} |->
                     IF \E m \in R : m[1] = k THEN (CHOOSE m \in R : m[1] = k)[2] ELSE rej[k]]

-----------------------------------------------------------------------------
\* What a first reconcile without errors leaves.
RecInit ==
  /\ store \in InitialStores
  /\ slotIdx = AssignSlotIndices(<<>>, PoolsInOrder(store))
  /\ ~GenerateFails(store)
  /\ BadEntries \cap store.on = {}
  /\ LET bad == BadIn(store, slotIdx, <<>>)
     IN  Cardinality(bad) <= MaxAttempts /\ rejected = Reject(<<>>, bad)
  /\ pending = FALSE
  /\ failed = FALSE
  /\ cfgErr = FALSE
  /\ runMasters = EnabledMasters(store) /\ wantMasters = runMasters
  /\ running = ConfigFor(store, <<>>, rejected)
  /\ want = running /\ file = running /\ proc = running
  /\ stage = "idle" /\ todo = {} /\ fresh = TRUE /\ sessions = {}

\* A caller commits a change; a reconcile of its own follows.
Store(d) ==
  /\ d # store
  /\ store' = d
  /\ pending' = TRUE
  /\ UNCHANGED <<liveVars, failed, cfgErr, slotIdx, rejected, runMasters, wantMasters>>

\* What every reconcile does: number the slots and forget old rejections.
Begin ==
  /\ stage = "idle"
  /\ pending
  /\ pending' = FALSE
  /\ slotIdx' = AssignSlotIndices(slotIdx, PoolsInOrder(store))
  /\ UNCHANGED store

\* Generate fails, and so does the reconcile.
ReconcileFails ==
  /\ Begin
  /\ GenerateFails(store)
  /\ failed' = TRUE
  /\ cfgErr' = TRUE
  /\ rejected' = ForgetRejected(store, rejected)
  /\ UNCHANGED <<liveVars, runMasters, wantMasters>>

\* xray refuses the config: for an entry, which is never left out, or for one
\* more member than a reconcile rejects.  The running config is kept.
ReconcileRefused ==
  /\ Begin
  /\ ~GenerateFails(store)
  /\ failed' = TRUE
  /\ cfgErr' = TRUE
  /\ LET rej == ForgetRejected(store, rejected)
         bad == BadIn(store, slotIdx', rej)
     IN  \E R \in SUBSET bad :
           /\ Cardinality(R) <= MaxAttempts
           /\ \/ BadEntries \cap store.on # {}
              \/ Cardinality(R) = MaxAttempts /\ R # bad
           /\ rejected' = Reject(rej, R)
  /\ UNCHANGED <<liveVars, runMasters, wantMasters>>

\* The refused members left out, the config passes and is applied.  The error
\* of an earlier reconcile is cleared by a test that passes, and a config equal
\* to the running one is not tested.
ReconcileOk ==
  /\ Begin
  /\ ~GenerateFails(store)
  /\ BadEntries \cap store.on = {}
  /\ LET rej == ForgetRejected(store, rejected)
         bad == BadIn(store, slotIdx', rej)
         cfg == ConfigFor(store, slotIdx, Reject(rej, bad))
     IN  /\ Cardinality(bad) <= MaxAttempts
         /\ rejected' = Reject(rej, bad)
         /\ cfgErr' = (cfgErr /\ cfg = running)
         /\ IF cfg = running THEN UNCHANGED <<liveVars, runMasters>>
            ELSE Apply(cfg) /\ runMasters' = runMasters
  /\ failed' = FALSE
  /\ wantMasters' = EnabledMasters(store)

\* A step of the apply under way.
ApplyStep ==
  /\ LiveStep
  /\ runMasters' = IF stage' = "idle" THEN wantMasters ELSE runMasters
  /\ UNCHANGED <<store, pending, failed, cfgErr, slotIdx, rejected, wantMasters>>

RecNext ==
  \/ \E d \in Stores : Store(d)
  \/ ReconcileFails \/ ReconcileRefused \/ ReconcileOk
  \/ ApplyStep
  \/ (Respawn \/ Clients) /\ UNCHANGED storeVars

RecSpec == RecInit /\ [][RecNext]_recVars

-----------------------------------------------------------------------------
(* Properties. *)

(* At every moment of every apply, an entry that is a master in the store   *)
(* xray's config was made from and in the one it goes to is never dialled   *)
(* from this box itself: only through a node, or not at all                 *)
(* (config.go:78-90, xray.go:495-497).                                      *)
MasterIsHidden == \A e \in runMasters \cap wantMasters : ~DialsItself(proc, e)

\* The members that the config c has in a slot.
InSlot(c, idx) ==
  {c.outs[t].arg : t \in {u \in DOMAIN c.outs : u[1] = "member" /\ u[2] = idx}}

Settled == stage = "idle" /\ ~pending /\ ~failed

(* When everything committed has been reconciled without an error, each     *)
(* slot has the nodes of its pool that xray does not refuse, all of them,   *)
(* and a master leaves the box only through nodes of its own pool           *)
(* (validate.go:24-26).                                                     *)
ServesStore ==
  Settled =>
    /\ \A p \in DOMAIN slotIdx : InSlot(proc, slotIdx[p]) = Range(store.nodes[p]) \ BadMembers
    /\ \A e \in EnabledMasters(store) : \A o \in DialsOut(proc, e) :
         o = BlockOut \/ o.arg \in Range(store.nodes[store.dialer[e]])

(* A pool in use before and after a reconcile keeps its slot, so that its   *)
(* tags and ports stay and its connections are not touched                  *)
(* (xray.go:658-660).                                                       *)
SlotsKept == \A p \in DOMAIN slotIdx \cap DOMAIN slotIdx' : slotIdx'[p] = slotIdx[p]
PoolsKeepTheirSlot == [][SlotsKept]_recVars
=============================================================================
