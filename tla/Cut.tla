-------------------------------- MODULE Cut --------------------------------
(***************************************************************************)
(* Which open connections the daemon closes, and which it leaves:          *)
(* daemon/sockcut.go, membercut.go and sockcut_linux.go, with the          *)
(* reconciles and health polls that call them.                             *)
(*                                                                         *)
(* xray never moves a connection that is open.  One that a master opened   *)
(* leaves from the master's own loopback address, enters a pool, and goes  *)
(* on from a member to one of its server's endpoints (address and port);   *)
(* closing either socket ends it.  What a pick ranks first is the module   *)
(* Ranking; how a config is applied, Reconcile and LiveApply.              *)
(***************************************************************************)
EXTENDS Integers, FiniteSets

CONSTANTS Masters, Pools, Nodes,
          Endpoints,   \* of each node: what its server's name resolves to
          Literal,     \* the nodes whose server is given as an address
          Stores,      \* what may be stored: pool -> masters, members, strategy, pins
          MaxConns     \* bound: connections open at a time

Strategies == {"stable", "agile", "manual"}

ASSUME CutAssumption ==
  /\ \A n \in Nodes : Endpoints[n] # {} /\ (n \in Literal => Cardinality(Endpoints[n]) = 1)
  /\ \A st \in Stores : \A p \in Pools :
       /\ st[p].masters \subseteq Masters /\ st[p].members \subseteq Nodes
       /\ st[p].strategy \in Strategies /\ st[p].pins \subseteq st[p].members
       /\ st[p].strategy = "manual" => st[p].pins # {}
       /\ \A q \in Pools \ {p} : st[p].masters \cap st[q].masters = {}

VARIABLES
  routes,   \* the slots xray runs, of the pools some master uses
  loaded,   \* s.loadedSlots; those of no pool when they are not known
  conns,    \* what is open
  apply,    \* a live apply that has not cut yet: "idle", "moved", "unpinned"
  seen,     \* nodeScore of each member: "none", "alive" or "dead"
  poll,     \* the poll under way, its slots, and what it saw
  stale     \* the reconcile of the last poll failed

cutVars == <<routes, loaded, conns, apply, seen, poll, stale>>

NoSlots == [p \in {} |-> 0]
Idle == [at |-> "idle", slots |-> NoSlots, down |-> {}, live |-> {}]

\* What a pick may be, for what the polls have seen.  A live member is active
\* in an agile pool when there is one; any may be in a stable pool; none is
\* ranked before some member was pinged.
Picks(p, st) ==
  LET live == {n \in st.members : seen[p][n] = "alive"}
      spare(active) == {active} \cup {active \cup {n} : n \in st.members}
      from(S) == UNION {{[active |-> a, picked |-> k] : k \in spare(a)} : a \in SUBSET S \ {{}}}
  IN  CASE st.strategy = "manual" -> {[active |-> st.pins, picked |-> st.pins]}
        [] st.strategy # "manual" /\ \A n \in st.members : seen[p][n] = "none" ->
             {[active |-> {}, picked |-> {}]}
        [] st.strategy = "agile" /\ live # {} -> from(live)
        [] OTHER -> from(st.members)

Used(st) == {p \in Pools : st[p].masters # {}}
\* resolveDialerSlots.
Resolved(st) ==
  {[p \in Used(st) |-> [masters |-> st[p].masters, members |-> st[p].members, strategy |-> st[p].strategy,
                        active |-> pick[p].active, picked |-> pick[p].picked]] :
     pick \in {f \in [Used(st) -> UNION {Picks(p, st[p]) : p \in Used(st)}] :
                 \A p \in Used(st) : f[p] \in Picks(p, st[p])}}

-----------------------------------------------------------------------------
\* cutMembers.  A lookup may fail, of a name; what is then not known is neither
\* closed nor kept.

Reached(gone, keep, failed) ==
  UNION {Endpoints[n] : n \in gone \ failed} \ UNION {Endpoints[n] : n \in keep \ failed}

\* Of what a rule of a pool says about a connection (its field rule), and of
\* whether its master is known (its field known), nothing is promised any more
\* when it was to be closed and is not.
Excused(c) == [c EXCEPT !.rule = "none"]
Lost(c) == [c EXCEPT !.rule = "none", !.known = FALSE]

\* cutSockets: all that match; or an error, that may come after the first ones.
Closed(hit) == conns' = conns \ hit
CloseFails(hit) ==
  /\ hit # {}
  /\ \E done \in SUBSET hit : conns' = (conns \ hit) \cup {Lost(c) : c \in hit \ done}

CutMembers(gone, keep) ==
  \E failed \in SUBSET ((gone \cup keep) \ Literal) :
    LET hit == {c \in conns : c.to \in Reached(gone, keep, failed)}
        missed == {c \in conns \ hit : c.node \in gone}
        rest == (conns \ (hit \cup missed)) \cup {Excused(c) : c \in missed}
    IN  \/ conns' = rest
        \/ /\ hit # {}
           /\ \E done \in SUBSET hit : conns' = rest \cup {Lost(c) : c \in hit \ done}

\* movedMasters.
MastersOf(slots) == UNION {slots[p].masters : p \in DOMAIN slots}

\* Mutant of Moved: only those that have a dialer still.
MovedOn(old, cur) ==
  {m \in MastersOf(old) \cap MastersOf(cur) : \A p \in DOMAIN old \cap DOMAIN cur : m \notin old[p].masters \cap cur[p].masters}

Moved(old, cur) ==
  {m \in MastersOf(old) : \A p \in DOMAIN old \cap DOMAIN cur : m \notin old[p].masters \cap cur[p].masters}

-----------------------------------------------------------------------------
\* Reconciles.  Configs that differ in nothing else are taken apart by their
\* slots; one that xray refuses changes nothing.

\* A config that is the running one: applied already.
Unchanged(cur) ==
  /\ apply = "idle" /\ cur = routes
  /\ loaded' = cur /\ stale' = FALSE
  /\ UNCHANGED <<routes, conns, apply, seen, poll>>

\* What the code promises of a connection after the apply: in a manual pool,
\* that it is not on a member the pool routed through before and does not now;
\* in an agile one, that it is not on a picked member that went down.
Promised(c, cur) ==
  LET manual == c.pool \in DOMAIN cur /\ cur[c.pool].strategy = "manual"
      agile == c.pool \in DOMAIN cur /\ cur[c.pool].strategy = "agile"
  IN  [c EXCEPT !.known = c.known /\ loaded # NoSlots,
                !.rule = CASE manual /\ c.pool \in DOMAIN loaded /\ c.node \in loaded[c.pool].active -> "manual"
                           [] agile /\ c.rule = "agile" -> "agile"
                           [] OTHER -> "none"]

\* applyLocked, live: the new routes are in place, the cuts follow.
ApplyLive(cur) ==
  /\ apply = "idle" /\ cur # routes
  /\ routes' = cur
  /\ conns' = {Promised(c, cur) : c \in conns}
  /\ apply' = "moved"
  /\ stale' = FALSE
  /\ UNCHANGED <<loaded, seen, poll>>

CutMovedMasters ==
  /\ apply = "moved"
  /\ LET hit == {c \in conns : c.master \in Moved(loaded, routes)}
     IN  Closed(hit) \/ CloseFails(hit)
  /\ apply' = "unpinned"
  /\ UNCHANGED <<routes, loaded, seen, poll, stale>>

\* Mutant of Unpinned: a pool that was not manual has nothing to close.
UnpinnedOnly ==
  UNION {loaded[p].active \ routes[p].active :
           p \in {q \in DOMAIN loaded \cap DOMAIN routes : routes[q].strategy = "manual" /\ loaded[q].strategy = "manual"}}

Unpinned ==
  UNION {loaded[p].active \ routes[p].active :
           p \in {q \in DOMAIN loaded \cap DOMAIN routes : routes[q].strategy = "manual"}}

CutUnpinned ==
  /\ apply = "unpinned"
  /\ CutMembers(Unpinned,
                UNION {routes[p].active :
                         p \in {q \in DOMAIN loaded \cap DOMAIN routes : routes[q].strategy = "manual"}})
  /\ loaded' = routes /\ apply' = "idle"
  /\ UNCHANGED <<routes, seen, poll, stale>>

\* applyLocked by a restart, and RestartXray: nothing stays open.
ApplyByRestart(cur) ==
  /\ apply = "idle"
  /\ routes' = cur /\ loaded' = cur /\ conns' = {} /\ stale' = FALSE
  /\ UNCHANGED <<apply, seen, poll>>

\* RestartXray, and the new config is refused: startLastGoodLocked.
StartLastGood ==
  /\ apply = "idle"
  /\ conns' = {} /\ loaded' = NoSlots
  /\ UNCHANGED <<routes, apply, seen, poll, stale>>

-----------------------------------------------------------------------------
\* A poll; its reconcile is one of the above, or fails.
PollStart ==
  /\ poll.at = "idle" /\ apply = "idle"
  /\ poll' = [Idle EXCEPT !.at = "fetch", !.slots = loaded]
  /\ UNCHANGED <<routes, loaded, conns, apply, seen, stale>>

PollFails ==
  /\ poll.at = "fetch"
  /\ poll' = Idle
  /\ UNCHANGED <<routes, loaded, conns, apply, seen, stale>>

Loaded == {pn \in Pools \X Nodes : pn[1] \in DOMAIN poll.slots /\ pn[2] \in poll.slots[pn[1]].members}

WentDown(dead) == {pn \in dead : seen[pn[1]][pn[2]] = "alive"}

\* nodePicker.observe, of polls that find all members pinged or none.  When all
\* that was pinged is dead it is the uplink, and the scores stay.
Observe(live, dead) ==
  IF dead # {} /\ live = {}
  THEN seen' = [p \in Pools |-> [n \in Nodes |-> IF <<p, n>> \in Loaded THEN seen[p][n] ELSE "none"]]
  ELSE seen' = [p \in Pools |-> [n \in Nodes |->
                  CASE <<p, n>> \in live -> "alive" [] <<p, n>> \in dead -> "dead" [] OTHER -> "none"]]

\* Mutant of Down: the spare carries nothing.
DownActive(slots, down) ==
  {pn \in down : slots[pn[1]].strategy = "agile" /\ pn[2] \in slots[pn[1]].active}

\* The picked members of agile pools that went down.
Down(slots, down) ==
  {pn \in down : slots[pn[1]].strategy = "agile" /\ pn[2] \in slots[pn[1]].picked}

\* It is on a picked member that the poll before saw alive.
Watched(c) ==
  /\ c.pool \in DOMAIN poll.slots
  /\ poll.slots[c.pool].strategy = "agile" /\ c.node \in poll.slots[c.pool].picked
  /\ seen[c.pool][c.node] = "alive"

PollObserves(live, dead) ==
  LET down == IF live = {} THEN {} ELSE Down(poll.slots, WentDown(dead))
      unseen == {c \in conns : live = {} \/ (<<c.pool, c.node>> \notin live /\ ~Watched(c))}
  IN  /\ poll.at = "fetch"
      /\ Observe(live, dead)
      /\ poll' = [Idle EXCEPT !.at = "reconcile", !.down = {pn[2] : pn \in down}, !.live = {pn[2] : pn \in live}]
      \* Of the rest nothing is promised.
      /\ conns' = (conns \ unseen) \cup {IF c.rule = "agile" THEN Excused(c) ELSE c : c \in unseen}
      /\ stale' = TRUE
      /\ UNCHANGED <<routes, loaded, apply>>

\* xray has not pinged anything yet, or there is nothing to ping.
PollNothing == PollObserves({}, {})

\* Bound: a node answers through all its pools or through none.
PollSees(up) == PollObserves({pn \in Loaded : pn[2] \in up}, {pn \in Loaded : pn[2] \notin up})

\* What was seen picks what is running, or the reconcile is done, or it failed.
PollCuts ==
  /\ poll.at = "reconcile" /\ apply = "idle"
  /\ CutMembers(poll.down, poll.live)
  /\ poll' = Idle
  /\ UNCHANGED <<routes, loaded, apply, seen, stale>>

-----------------------------------------------------------------------------
\* What the code promises of a new connection: in an agile pool, that its node
\* is not one that is down while another member answers.
PromisedNew(p, n) ==
  LET answers == \E k \in routes[p].members : seen[p][k] = "alive"
      down == routes[p].strategy = "agile" /\ seen[p][n] = "dead" /\ ~answers
  IN  IF stale \/ n \notin routes[p].active \/ routes[p].strategy = "stable" \/ down THEN "none"
      ELSE routes[p].strategy

\* A client connects: through an active member, or the spare when none of them
\* answers; through any while none is ranked.
Connect(m) ==
  /\ Cardinality(conns) < MaxConns
  /\ \E p \in DOMAIN routes :
       /\ m \in routes[p].masters
       /\ \E n \in IF routes[p].picked = {} THEN routes[p].members ELSE routes[p].picked :
          \E e \in Endpoints[n] :
            conns' = conns \cup
              {[master |-> m, pool |-> p, node |-> n, to |-> e, known |-> TRUE, rule |-> PromisedNew(p, n)]}
  /\ UNCHANGED <<routes, loaded, apply, seen, poll, stale>>

CutInit ==
  /\ seen = [p \in Pools |-> [n \in Nodes |-> "none"]]
  /\ \E st \in Stores : routes \in Resolved(st)
  /\ loaded = routes
  /\ conns = {} /\ apply = "idle" /\ poll = Idle /\ stale = FALSE

CutNext ==
  \/ StartLastGood
  \/ \E st \in Stores : \E cur \in Resolved(st) : Unchanged(cur) \/ ApplyLive(cur) \/ ApplyByRestart(cur)
  \/ CutMovedMasters \/ CutUnpinned
  \/ PollStart \/ PollFails \/ PollCuts
  \/ PollNothing \/ \E up \in SUBSET Nodes : PollSees(up)
  \/ \E m \in Masters : Connect(m)

(***************************************************************************)
(* No connection stays where a new one would not go: whatever is refused,  *)
(* restarted or applied in between, a master's connections are in the pool *)
(* it dials through now (sockcut.go:13-20), and those of a manual pool on  *)
(* nodes that are pinned (membercut.go:62-64).                             *)
(***************************************************************************)
RidesItsPath ==
  apply = "idle" => \A c \in conns :
    /\ c.known => c.pool \in DOMAIN routes /\ c.master \in routes[c.pool].masters
    /\ c.rule = "manual" => c.pool \in DOMAIN routes /\ c.node \in routes[c.pool].active

(***************************************************************************)
(* Between two polls no client of an agile pool is left on a node that the *)
(* last one saw go down, nor has come back to it while another member      *)
(* answers, whatever is stored, applied, refused or restarted in between   *)
(* (nodepark.go:317-319).                                                  *)
(***************************************************************************)
DownIsLeft ==
  poll.at # "reconcile" => \A c \in conns : c.rule = "agile" => seen[c.pool][c.node] # "dead"

CutSpec == CutInit /\ [][CutNext]_cutVars
=============================================================================
