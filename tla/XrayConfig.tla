----------------------------- MODULE XrayConfig -----------------------------
(***************************************************************************)
(* core/xray/config.go and the slot half of core/xray/dialer.go: the xray  *)
(* config Generate builds from what is stored and the slots of the pools.  *)
(* Then what xray itself does with a config, as far as the code relies on  *)
(* it: where a connection can leave the box.                               *)
(*                                                                         *)
(* What is stored is a record:                                             *)
(*   on      the enabled entries                                           *)
(*   dialer  entry -> the pool its Dialer names (DialerGroupKey), or NoPool*)
(*   nodes   pool -> the sequence of its resolved members                  *)
(*   pick    entry -> the daemon's ranking of its pool (Slot.PickOf)       *)
(*   target  inbound -> the entry it is routed to, or DirectTarget         *)
(*   users   inbound -> its active users (enabled and under their cap)     *)
(*   fixed   log level, probe interval, ...                                *)
(* Entries are numbered in the order of their names.  A member is a pair   *)
(* <<key, content>>; an inbound is enabled when it has a target.           *)
(***************************************************************************)
EXTENDS Slots

CONSTANTS Entries,       \* numbered in name order
          Hysteria,      \* the entries that cannot honour a dialerProxy
          NoPool,        \* an empty Dialer: the entry is no master
          DirectTarget,  \* Target "direct"
          Active,        \* MasterPick.ActiveCount of a longer ranking
          PrefixOf       \* pairs of member keys, the first a prefix of the second

ASSUME ConfigAssumption ==
  Entries \subseteq Nat /\ DirectTarget \in Nat \ Entries /\ Hysteria \subseteq Entries /\ Active \in Nat \ {0}

\* Tags.
BlockTag == <<"block">>
DirectTag == <<"direct">>
NoDialer == <<"">>
OutTag(e) == <<"out", e>>
DialerTag(e) == <<"dialer", e>>
MemberTag(idx, m) == <<"member", idx, m[1]>>
InTag(i) == <<"in", i>>
SlotInTag(idx) == <<"slot", idx>>

\* Outbounds: what one does with a connection, and a tuple of what it does it to.
Outbound(does, arg, dialer) == [does |-> does, arg |-> arg, dialer |-> dialer]
BlockOut == Outbound("block", <<>>, NoDialer)

IsMaster(d, e) == d.dialer[e] # NoPool
EnabledMasters(d) == {e \in d.on : IsMaster(d, e)}

\* The pools in the order resolveDialerSlots meets them.
PoolsInOrder(d) == PoolsByMaster(EnabledMasters(d), d.dialer)

\* SlotMasters: the masters of a pool.
SlotMasters(d, p) == {e \in EnabledMasters(d) : d.dialer[e] = p}
HasSlot(d, slots, e) == IsMaster(d, e) /\ d.dialer[e] \in DOMAIN slots

\* Mutant of EntryOut: a master that found no slot gets no dialerProxy.
EntryOutUnblocked(d, slots, e) ==
  IF IsMaster(d, e) /\ e \in Hysteria THEN BlockOut
  ELSE Outbound("server", <<e>>, IF HasSlot(d, slots, e) THEN DialerTag(e) ELSE NoDialer)

\* An entry's own outbound: a master dials through its slot, one without a slot
\* through block, and one that cannot honour either is a blackhole.
EntryOut(d, slots, e) ==
  IF IsMaster(d, e) /\ e \in Hysteria THEN BlockOut
  ELSE Outbound("server", <<e>>, CASE HasSlot(d, slots, e) -> DialerTag(e)
                               [] IsMaster(d, e) /\ ~HasSlot(d, slots, e) -> BlockTag
                               [] OTHER -> NoDialer)

\* The elements of s that are in S, in their order.
Only(s, S) ==
  LET Add(t, x) == IF x \in S THEN Append(t, x) ELSE t
  IN  FoldLeft(Add, <<>>, s)

\* slotBalancer, for the members loaded in a slot.  The selector of a ranking
\* is its active members; before there is one it is every member.
Balancer(idx, pick, loaded) ==
  LET picked == Only(pick, {m[1] : m \in Range(loaded)})
      tag(k) == <<"member", idx, k>>
      active == IF Active < Len(picked) THEN Active ELSE Len(picked)
  IN  IF picked = <<>>
        THEN [slot |-> idx, all |-> TRUE, selector |-> {},
              fallback |-> IF loaded = <<>> THEN BlockTag ELSE MemberTag(idx, loaded[1])]
        ELSE [slot |-> idx, all |-> FALSE,
              selector |-> {tag(picked[n]) : n \in 1 .. active},
              fallback |-> IF Len(picked) > active THEN tag(picked[active + 1]) ELSE tag(picked[1])]

EnabledIns(d) == DOMAIN d.target
TargetTag(t) == IF t = DirectTarget THEN DirectTag ELSE OutTag(t)

\* Generate fails when an inbound targets an entry that is not enabled.
GenerateFails(d) == \E i \in EnabledIns(d) : d.target[i] # DirectTarget /\ d.target[i] \notin d.on

Outs(d, slots) ==
  LET loaded(p) == Range(d.nodes[p])
      tags == {BlockTag, DirectTag} \cup {OutTag(e) : e \in d.on}
        \cup {DialerTag(e) : e \in {f \in EnabledMasters(d) : HasSlot(d, slots, f)}}
        \cup UNION {{MemberTag(slots[p], m) : m \in loaded(p)} : p \in DOMAIN slots}
      object(t) ==
        CASE t = BlockTag -> BlockOut
          [] t = DirectTag -> Outbound("direct", <<>>, NoDialer)
          [] t[1] = "out" -> EntryOut(d, slots, t[2])
          [] t[1] = "dialer" -> Outbound("slot", <<slots[d.dialer[t[2]]]>>, NoDialer)
          [] OTHER -> Outbound("node", CHOOSE m \in UNION {loaded(p) : p \in DOMAIN slots} :
                                         \E p \in DOMAIN slots : m \in loaded(p) /\ MemberTag(slots[p], m) = t,
                               NoDialer)
  IN  [t \in tags |-> object(t)]

Ins(d, slots) ==
  LET tags == {InTag(i) : i \in EnabledIns(d)} \cup {SlotInTag(slots[p]) : p \in DOMAIN slots}
      poolAt(idx) == CHOOSE p \in DOMAIN slots : slots[p] = idx
  IN  [t \in tags |-> [creds |-> IF t[1] = "in" THEN d.users[t[2]]
                                 ELSE SlotMasters(d, poolAt(t[2]))]]

Routing(d, slots) ==
  [rules |-> [t \in {InTag(i) : i \in EnabledIns(d)} |-> TargetTag(d.target[t[2]])],
   balancers |-> [e \in {f \in EnabledMasters(d) : HasSlot(d, slots, f)} |->
                    Balancer(slots[d.dialer[e]], d.pick[e], d.nodes[d.dialer[e]])]]

\* Generate, given the slots; the api inbound and its rule are always there.
Generate(d, slots) ==
  [fixed |-> d.fixed, first |-> BlockTag,
   outs |-> Outs(d, slots), ins |-> Ins(d, slots), routing |-> Routing(d, slots)]

-----------------------------------------------------------------------------
(* External: what xray does with the config c of a process.  A missing      *)
(* outbound, rule or user means the default, which is the first outbound.   *)

\* The outbounds a balancer selects: a selector is a set of prefixes of tags.
Selected(c, b) ==
  {t \in DOMAIN c.outs :
     /\ t[1] = "member"
     /\ t[2] = b.slot
     /\ b.all \/ \E s \in b.selector : s = t \/ <<s[3], t[3]>> \in PrefixOf}

\* What it can choose: the fallback is for when none of them answers.
Chosen(c, b) == Selected(c, b) \cup {b.fallback}

\* What ends the way of a connection that entry e's dialer hop takes.
Through(c, e, idx) ==
  IF /\ SlotInTag(idx) \in DOMAIN c.ins
     /\ e \in c.ins[SlotInTag(idx)].creds
     /\ e \in DOMAIN c.routing.balancers
     /\ c.routing.balancers[e].slot = idx
    THEN Chosen(c, c.routing.balancers[e])
    ELSE {c.first}

Does(c, t) == IF t \in DOMAIN c.outs THEN c.outs[t] ELSE c.outs[c.first]

\* The outbounds through which the connection to entry e's server can leave.
DialsOut(c, e) ==
  LET out == Does(c, OutTag(e))
      hop == Does(c, out.dialer)
  IN  IF out.does = "block" THEN {BlockOut}
      ELSE IF out.dialer = NoDialer THEN {out}
      ELSE IF hop.does = "slot" THEN {Does(c, t) : t \in Through(c, e, hop.arg[1])}
      ELSE {hop}

\* The connection to entry e's server may be dialled from this box's address.
DialsItself(c, e) == \E o \in DialsOut(c, e) : o.does \in {"server", "direct", "slot"}
=============================================================================
