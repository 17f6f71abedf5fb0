---------------------------- MODULE MCReconcile ----------------------------
(* Three entries, three pools and two slots; what is stored is one of a few *)
(* variations of a base, between which callers change it at any time.       *)
EXTENDS Reconcile

x == <<"x", 0>>
xBad == <<"x", 1>>
y == <<"y", 0>>
yBad == <<"y", 1>>
z == <<"z", 0>>

\* Entry 1 is a master on pool a, 2 is plain, 3 is off, as is 4, which xray
\* refuses; user u reaches entry 1.
Base == [on |-> {1, 2}, fixed |-> 0,
         dialer |-> <<"a", "none", "none", "none">>,
         nodes |-> [a |-> <<x, y>>, b |-> <<y>>, c |-> <<z>>],
         pick |-> <<<<>>, <<>>, <<>>, <<>>>>,
         target |-> [i |-> 1],
         users |-> [i |-> {"u"}]]

Ranked == [Base EXCEPT !.pick[1] = <<"y", "x">>]
\* Two nodes xray refuses and one that works.
Rejects == [Ranked EXCEPT !.nodes.a = <<xBad, yBad, z>>, !.nodes.b = <<yBad>>]
Revoked == [Ranked EXCEPT !.users.i = {}]
\* Entry 1 moves to a new pool, its old one goes to entry 2.
Swapped == [Base EXCEPT !.dialer = <<"c", "a", "none", "none">>]
\* One pool more than there are slots.
Crowded == [Base EXCEPT !.dialer = <<"a", "b", "c", "none">>, !.on = {1, 2, 3}]
\* The dialer of entry 1 is dropped; the inbound goes direct.
Plain == [Base EXCEPT !.dialer[1] = "none", !.target.i = DirectTarget, !.fixed = 1]
\* The inbound's entry is disabled; an entry is enabled that xray refuses.
Missing == [Base EXCEPT !.on = {2}]
Broken == [Base EXCEPT !.on = {1, 4}]

MCStores == {Base, Ranked, Rejects, Revoked, Swapped, Crowded, Plain, Missing, Broken}

MCBadMembers == {xBad, yBad}

\* What any of them can become: numbered after whatever was there before, with
\* whichever members rejected.
MCNumberings ==
  UNION {{f \in [ps -> 0 .. SlotCount - 1] : \A p, q \in ps : p # q => f[p] # f[q]} : ps \in SUBSET {"a", "b", "c"}}
MCRejections == {[k \in {m[1] : m \in S} |-> 1] : S \in SUBSET MCBadMembers}
MCConfigs ==
  {ConfigFor(d, prev, rej) : d \in MCStores \ {Missing}, prev \in MCNumberings, rej \in MCRejections}

MCBlock == BlockTag
MCNoTag == NoDialer
MCDialerOf == [t \in {OutTag(e) : e \in Entries} |-> DialerTag(t[2])]
MCSlotIns == {SlotInTag(n) : n \in 0 .. SlotCount}
MCInitialStores == {Base}
MCPrefixOf == {}
=============================================================================
