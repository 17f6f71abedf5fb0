---------------------------- MODULE TrafficProofs ----------------------------
(***************************************************************************)
(* What TLAPS proves of the connections that are cut and of the users'     *)
(* totals.                                                                 *)
(*                                                                         *)
(* Cut, for any number of masters, pools, nodes and connections: between   *)
(* two applies no master has a connection in a pool it does not dial       *)
(* through, nor one on a member that its pool has unpinned; between two    *)
(* polls no client of an agile pool is on a node that went down.           *)
(*                                                                         *)
(* Quota, for any number of users, bytes, edits and restarts: its types,   *)
(* that no byte is counted twice, and that none is missed but for the      *)
(* reasons the sampler has.                                                *)
(***************************************************************************)
EXTENDS Cut, Quota, TLAPS

-----------------------------------------------------------------------------
(* Cuts.                                                                   *)

\* A connection, as far as the proof looks at it.
IsConn(c) == DOMAIN c = {"master", "pool", "node", "to", "known", "rule"}

\* A master uses one pool.
OnePool(slots) == \A p, q \in DOMAIN slots : p # q => slots[p].masters \cap slots[q].masters = {}

OnPath(c, slots) == c.pool \in DOMAIN slots /\ c.master \in slots[c.pool].masters
OnPinned(c) == c.pool \in DOMAIN routes /\ c.node \in routes[c.pool].active
\* It is on a member that the pool has just unpinned.
LeftBehind(c) ==
  /\ c.pool \in DOMAIN loaded \cap DOMAIN routes /\ routes[c.pool].strategy = "manual"
  /\ c.node \in loaded[c.pool].active \ routes[c.pool].active

(* What of the promises holds where the apply is: of a master's pool once   *)
(* the moved masters are cut, of a pinned member once all cuts are done.    *)
PathInv ==
  /\ apply \in {"idle", "moved", "unpinned"}
  /\ OnePool(routes) /\ OnePool(loaded)
  /\ apply = "idle" => loaded = routes \/ loaded = NoSlots
  /\ \A c \in conns :
       /\ IsConn(c)
       /\ c.known => OnPath(c, routes) \/ (apply = "moved" /\ OnPath(c, loaded))
       /\ c.rule = "manual" => OnPinned(c) \/ (apply # "idle" /\ LeftBehind(c))

LEMMA ResolvedOnePool ==
  ASSUME NEW st \in Stores, NEW cur \in Resolved(st)
  PROVE  OnePool(cur)
<1>1. DOMAIN cur = Used(st) /\ \A p \in Used(st) : cur[p].masters = st[p].masters
  BY DEF Resolved
<1>2. Used(st) \subseteq Pools
  BY DEF Used
<1>3. \A p \in Pools : \A q \in Pools \ {p} : st[p].masters \cap st[q].masters = {}
  BY CutAssumption
<1>4. QED
  BY <1>1, <1>2, <1>3 DEF OnePool

(* Connections are closed, or less is promised of them: nothing breaks.     *)
LEMMA Weaker ==
  ASSUME PathInv, UNCHANGED <<routes, loaded, apply>>,
         \A d \in conns' : \E c \in conns : d = c \/ d = Excused(c) \/ d = Lost(c)
  PROVE  PathInv'
<1>1. ASSUME NEW d \in conns'
      PROVE  /\ IsConn(d)
             /\ d.known => OnPath(d, routes) \/ (apply = "moved" /\ OnPath(d, loaded))
             /\ d.rule = "manual" => OnPinned(d) \/ (apply # "idle" /\ LeftBehind(d))
  <2>1. PICK c \in conns : d = c \/ d = Excused(c) \/ d = Lost(c)
    OBVIOUS
  <2>2. /\ IsConn(c)
        /\ c.known => OnPath(c, routes) \/ (apply = "moved" /\ OnPath(c, loaded))
        /\ c.rule = "manual" => OnPinned(c) \/ (apply # "idle" /\ LeftBehind(c))
    BY DEF PathInv
  <2>3. CASE d = c
    BY <2>2, <2>3
  <2>4. CASE d = Excused(c)
    BY <2>2, <2>4 DEF Excused, IsConn, OnPath
  <2>5. CASE d = Lost(c)
    BY <2>2, <2>5 DEF Lost, IsConn
  <2>6. QED
    BY <2>1, <2>3, <2>4, <2>5
<1>2. QED
  BY <1>1 DEF PathInv, OnPinned, LeftBehind

(* What cutMembers leaves: some are closed, the rest is what it was or has  *)
(* lost a promise; and nothing stays promised on a node it was to empty.    *)
LEMMA CutLeaves ==
  ASSUME NEW gone, NEW keep, CutMembers(gone, keep), \A c \in conns : IsConn(c)
  PROVE  \A d \in conns' : \E c \in conns :
            (d = c /\ c.node \notin gone) \/ d = Excused(c) \/ d = Lost(c)
<1>1. PICK failed \in SUBSET ((gone \cup keep) \ Literal) :
        LET hit == {c \in conns : c.to \in Reached(gone, keep, failed)}
            unmet == {c \in conns \ hit : c.node \in gone}
            rest == (conns \ (hit \cup unmet)) \cup {Excused(c) : c \in unmet}
        IN  \/ conns' = rest
            \/ /\ hit # {}
               /\ \E done \in SUBSET hit : conns' = rest \cup {Lost(c) : c \in hit \ done}
  BY DEF CutMembers
<1> DEFINE hit == {c \in conns : c.to \in Reached(gone, keep, failed)}
           unmet == {c \in conns \ hit : c.node \in gone}
           rest == (conns \ (hit \cup unmet)) \cup {Excused(c) : c \in unmet}
<1>2. \A d \in rest : \E c \in conns : (d = c /\ c.node \notin gone) \/ d = Excused(c)
  OBVIOUS
<1>3. \A d \in conns' : d \in rest \/ \E c \in conns : d = Lost(c)
  BY <1>1
<1> HIDE DEF rest
<1>4. QED
  BY <1>2, <1>3

LEMMA PathStep ==
  ASSUME PathInv, [CutNext]_cutVars
  PROVE  PathInv'
<1>1. ASSUME NEW st \in Stores, NEW cur \in Resolved(st), Unchanged(cur)
      PROVE  PathInv'
  BY <1>1, ResolvedOnePool DEF Unchanged, PathInv, OnPath, OnPinned, LeftBehind
<1>2. ASSUME NEW st \in Stores, NEW cur \in Resolved(st), ApplyLive(cur)
      PROVE  PathInv'
  <2>1. /\ apply = "idle" /\ apply' = "moved" /\ routes' = cur /\ loaded' = loaded
        /\ conns' = {Promised(c, cur) : c \in conns}
    BY <1>2 DEF ApplyLive
  <2>2. OnePool(cur)
    BY ResolvedOnePool
  <2>3. ASSUME NEW d \in conns'
        PROVE  /\ IsConn(d)
               /\ d.known => OnPath(d, loaded)
               /\ d.rule = "manual" => OnPinned(d)' \/ LeftBehind(d)'
    <3>1. PICK c \in conns : d = Promised(c, cur)
      BY <2>1
    <3>2. IsConn(c) /\ (c.known => OnPath(c, routes)) /\ (loaded = routes \/ loaded = NoSlots)
      BY <2>1 DEF PathInv
    <3>3. IsConn(d) /\ d.pool = c.pool /\ d.master = c.master /\ d.node = c.node
      BY <3>1, <3>2 DEF Promised, IsConn
    <3>4. d.known => c.known /\ loaded # NoSlots
      BY <3>1, <3>2 DEF Promised, IsConn
    <3>5. d.rule = "manual" => /\ c.pool \in DOMAIN cur /\ cur[c.pool].strategy = "manual"
                               /\ c.pool \in DOMAIN loaded /\ c.node \in loaded[c.pool].active
      BY <3>1, <3>2 DEF Promised, IsConn
    <3>6. QED
      BY <2>1, <3>2, <3>3, <3>4, <3>5 DEF OnPath, OnPinned, LeftBehind
  <2>4. QED
    BY <2>1, <2>2, <2>3 DEF PathInv, OnPath
<1>3. CASE CutMovedMasters
  <2> DEFINE hit == {c \in conns : c.master \in Moved(loaded, routes)}
  <2>1. apply = "moved" /\ apply' = "unpinned" /\ UNCHANGED <<routes, loaded>>
    BY <1>3 DEF CutMovedMasters
  <2>2. \A d \in conns' : (d \in conns /\ d \notin hit) \/ \E c \in conns : d = Lost(c)
    BY <1>3 DEF CutMovedMasters, Closed, CloseFails
  <2>3. ASSUME NEW d \in conns', d \in conns, d \notin hit, d.known
        PROVE  OnPath(d, routes)
    <3>1. OnPath(d, routes) \/ OnPath(d, loaded)
      BY <2>3 DEF PathInv
    <3>2. CASE OnPath(d, loaded)
      <4>1. PICK p \in DOMAIN loaded \cap DOMAIN routes : d.master \in loaded[p].masters \cap routes[p].masters
        BY <2>3, <3>2 DEF Moved, MastersOf, OnPath
      <4>2. p = d.pool
        BY <3>2, <4>1 DEF PathInv, OnePool, OnPath
      <4>3. QED
        BY <4>1, <4>2 DEF OnPath
    <3>3. QED
      BY <3>1, <3>2
  <2>4. ASSUME NEW d \in conns'
        PROVE  /\ IsConn(d)
               /\ d.known => OnPath(d, routes)
               /\ d.rule = "manual" => OnPinned(d) \/ LeftBehind(d)
    <3>1. CASE d \in conns /\ d \notin hit
      BY <2>3, <3>1 DEF PathInv
    <3>2. CASE \E c \in conns : d = Lost(c)
      BY <3>2 DEF Lost, IsConn, PathInv
    <3>3. QED
      BY <2>2, <3>1, <3>2
  <2>5. QED
    BY <2>1, <2>4 DEF PathInv, OnPath, OnPinned, LeftBehind
<1>4. CASE CutUnpinned
  <2>1. apply = "unpinned" /\ apply' = "idle" /\ routes' = routes /\ loaded' = routes
    BY <1>4 DEF CutUnpinned
  <2>2. \A d \in conns' : \E c \in conns : (d = c /\ c.node \notin Unpinned) \/ d = Excused(c) \/ d = Lost(c)
    BY <1>4, CutLeaves DEF CutUnpinned, PathInv
  <2>3. ASSUME NEW d \in conns'
        PROVE  /\ IsConn(d)
               /\ d.known => OnPath(d, routes)
               /\ d.rule = "manual" => OnPinned(d)
    <3>1. PICK c \in conns : (d = c /\ c.node \notin Unpinned) \/ d = Excused(c) \/ d = Lost(c)
      BY <2>2
    <3>2. /\ IsConn(c) /\ (c.known => OnPath(c, routes))
          /\ c.rule = "manual" => OnPinned(c) \/ LeftBehind(c)
      BY <2>1 DEF PathInv
    <3>3. CASE d = c /\ c.node \notin Unpinned
      <4>1. ~LeftBehind(c)
        BY <3>3 DEF LeftBehind, Unpinned
      <4>2. QED
        BY <3>2, <3>3, <4>1
    <3>4. CASE d = Excused(c) \/ d = Lost(c)
      BY <3>2, <3>4 DEF Excused, Lost, IsConn, OnPath
    <3>5. QED
      BY <3>1, <3>3, <3>4
  <2>4. QED
    BY <2>1, <2>3 DEF PathInv, OnPath, OnPinned
<1>5. ASSUME NEW st \in Stores, NEW cur \in Resolved(st), ApplyByRestart(cur)
      PROVE  PathInv'
  BY <1>5, ResolvedOnePool DEF ApplyByRestart, PathInv
<1>6. CASE StartLastGood
  <2>1. OnePool(NoSlots)
    BY DEF OnePool, NoSlots
  <2>2. QED
    BY <1>6, <2>1 DEF StartLastGood, PathInv
<1>7. CASE PollStart \/ PollFails
  BY <1>7, Weaker DEF PollStart, PollFails
<1>8. ASSUME NEW live, NEW dead, PollObserves(live, dead)
      PROVE  PathInv'
  BY <1>8, Weaker DEF PollObserves
<1>9. CASE PollCuts
  <2>1. \A d \in conns' : \E c \in conns : d = c \/ d = Excused(c) \/ d = Lost(c)
    BY <1>9, CutLeaves DEF PollCuts, PathInv
  <2>2. QED
    BY <1>9, <2>1, Weaker DEF PollCuts
<1>10. ASSUME NEW m \in Masters, Connect(m)
       PROVE  PathInv'
  <2>1. PICK p, n, e :
          /\ p \in DOMAIN routes /\ m \in routes[p].masters
          /\ conns' = conns \cup
               {[master |-> m, pool |-> p, node |-> n, to |-> e, known |-> TRUE, rule |-> PromisedNew(p, n)]}
    BY <1>10 DEF Connect
  <2> DEFINE new == [master |-> m, pool |-> p, node |-> n, to |-> e, known |-> TRUE, rule |-> PromisedNew(p, n)]
  <2>2. new.rule = "manual" => n \in routes[p].active
    BY DEF PromisedNew
  <2>3. IsConn(new) /\ OnPath(new, routes) /\ (new.rule = "manual" => OnPinned(new))
    BY <2>1, <2>2 DEF IsConn, OnPath, OnPinned
  <2>4. UNCHANGED <<routes, loaded, apply>> /\ conns' = conns \cup {new}
    BY <1>10, <2>1 DEF Connect
  <2> HIDE DEF new
  <2>5. QED
    BY <2>3, <2>4 DEF PathInv, OnPath, OnPinned, LeftBehind
<1>11. CASE UNCHANGED cutVars
  BY <1>11, Weaker DEF cutVars
<1>12. QED
  BY <1>1, <1>2, <1>3, <1>4, <1>5, <1>6, <1>7, <1>8, <1>9, <1>10, <1>11 DEF CutNext, PollNothing, PollSees

(* No connection stays where a new one would not go, whatever is refused,   *)
(* restarted, applied or polled in between (sockcut.go:13-20,               *)
(* membercut.go:62-64).                                                     *)
THEOREM ConnectionsRideTheirPath == CutSpec => []RidesItsPath
<1>1. CutInit => PathInv
  <2> SUFFICES ASSUME CutInit PROVE PathInv
    OBVIOUS
  <2>1. PICK st \in Stores : routes \in Resolved(st)
    BY DEF CutInit
  <2>2. OnePool(routes) /\ loaded = routes /\ conns = {} /\ apply = "idle"
    BY <2>1, ResolvedOnePool DEF CutInit
  <2>3. QED
    BY <2>2 DEF PathInv
<1>2. PathInv /\ [CutNext]_cutVars => PathInv'
  BY PathStep
<1>3. PathInv => RidesItsPath
  BY DEF PathInv, RidesItsPath, OnPath, OnPinned
<1>4. QED
  BY <1>1, <1>2, <1>3, PTL DEF CutSpec

-----------------------------------------------------------------------------
(* Which nodes are left.  A pick that is up to date has no active member    *)
(* that is down while another one answers; that is what a new connection    *)
(* of an agile pool goes by, and a poll closes what it finds down since.    *)

RoutesTyped ==
  /\ DOMAIN routes \subseteq Pools
  /\ \A p \in DOMAIN routes : routes[p].active \subseteq Nodes

FreshPick(slots) ==
  \A p \in DOMAIN slots : slots[p].strategy = "agile" =>
    \A n \in slots[p].active : seen[p][n] = "alive" \/ \A k \in slots[p].members : seen[p][k] # "alive"

Left(c) == seen[c.pool][c.node] # "dead"

DownInv ==
  /\ RoutesTyped
  /\ ~stale => FreshPick(routes)
  /\ \A c \in conns :
       /\ IsConn(c)
       /\ c.rule = "agile" => /\ c.pool \in Pools /\ c.node \in Nodes
                              /\ Left(c) \/ (poll.at = "reconcile" /\ c.node \in poll.down)

(* A pick for what the polls have seen is up to date.                       *)
LEMMA ResolvedIsFresh ==
  ASSUME NEW st \in Stores, NEW cur \in Resolved(st)
  PROVE  /\ FreshPick(cur)
         /\ DOMAIN cur \subseteq Pools
         /\ \A p \in DOMAIN cur : cur[p].active \subseteq Nodes
<1>1. PICK pick \in [Used(st) -> UNION {Picks(p, st[p]) : p \in Used(st)}] :
        /\ \A p \in Used(st) : pick[p] \in Picks(p, st[p])
        /\ cur = [p \in Used(st) |-> [masters |-> st[p].masters, members |-> st[p].members,
                                      strategy |-> st[p].strategy,
                                      active |-> pick[p].active, picked |-> pick[p].picked]]
  BY DEF Resolved
<1>2. DOMAIN cur = Used(st) /\ Used(st) \subseteq Pools
  BY <1>1 DEF Used
<1>3. ASSUME NEW p \in Used(st)
      PROVE  /\ cur[p].active \subseteq Nodes
             /\ cur[p].strategy = "agile" => \A n \in cur[p].active :
                  seen[p][n] = "alive" \/ \A k \in cur[p].members : seen[p][k] # "alive"
  <2>1. /\ cur[p].members = st[p].members /\ cur[p].strategy = st[p].strategy
        /\ cur[p].active = pick[p].active /\ pick[p] \in Picks(p, st[p])
    BY <1>1
  <2>2. st[p].members \subseteq Nodes /\ st[p].pins \subseteq st[p].members
    BY <1>2, CutAssumption
  <2> DEFINE live == {n \in st[p].members : seen[p][n] = "alive"}
             spare(active) == {active} \cup {active \cup {n} : n \in st[p].members}
             from(S) == UNION {{[active |-> a, picked |-> k] : k \in spare(a)} : a \in SUBSET S \ {{}}}
  <2>3. \A S : \A r \in from(S) : r.active \subseteq S
    OBVIOUS
  <2>4. \/ st[p].strategy = "manual" /\ pick[p].active = st[p].pins
        \/ st[p].strategy # "manual" /\ pick[p].active = {}
        \/ st[p].strategy = "agile" /\ live # {} /\ pick[p] \in from(live)
        \/ st[p].strategy # "manual" /\ ~(st[p].strategy = "agile" /\ live # {}) /\ pick[p] \in from(st[p].members)
    BY <2>1 DEF Picks
  <2> HIDE DEF from
  <2>5. QED
    BY <2>1, <2>2, <2>3, <2>4
<1>4. QED
  BY <1>2, <1>3 DEF FreshPick

(* Steps that see nothing new keep what is promised, as long as no          *)
(* connection gains a promise and those on nodes that are down stay marked. *)
LEMMA NoNewPromise ==
  ASSUME DownInv, RoutesTyped', seen' = seen, ~stale' => FreshPick(routes)',
         \A d \in conns' : IsConn(d) /\ (d.rule = "agile" => \E c \in conns :
            /\ c.rule = "agile" /\ d.pool = c.pool /\ d.node = c.node
            /\ Left(c) \/ (poll'.at = "reconcile" /\ c.node \in poll'.down))
  PROVE  DownInv'
<1>1. ASSUME NEW d \in conns', d.rule = "agile"
      PROVE  /\ d.pool \in Pools /\ d.node \in Nodes
             /\ seen'[d.pool][d.node] # "dead" \/ (poll'.at = "reconcile" /\ d.node \in poll'.down)
  BY <1>1 DEF DownInv, Left
<1>2. QED
  BY <1>1 DEF DownInv, Left

LEMMA DownStep ==
  ASSUME DownInv, [CutNext]_cutVars
  PROVE  DownInv'
<1> DEFINE Kept(d) == \E c \in conns :
              /\ c.rule = "agile" /\ d.pool = c.pool /\ d.node = c.node
              /\ Left(c) \/ (poll'.at = "reconcile" /\ c.node \in poll'.down)
<1>0. \A c \in conns : IsConn(c) /\ IsConn(Excused(c)) /\ IsConn(Lost(c))
                       /\ Excused(c).rule = "none" /\ Lost(c).rule = "none"
  BY DEF DownInv, IsConn, Excused, Lost
<1>1. ASSUME NEW st \in Stores, NEW cur \in Resolved(st), Unchanged(cur)
      PROVE  DownInv'
  <2>1. FreshPick(routes)
    BY <1>1, ResolvedIsFresh DEF Unchanged
  <2>2. QED
    BY <1>1, <2>1 DEF Unchanged, DownInv, FreshPick, RoutesTyped, Left
<1>2. ASSUME NEW st \in Stores, NEW cur \in Resolved(st), ApplyLive(cur)
      PROVE  DownInv'
  <2>1. /\ routes' = cur /\ seen' = seen /\ poll' = poll
        /\ conns' = {Promised(c, cur) : c \in conns}
    BY <1>2 DEF ApplyLive
  <2>2. \A c \in conns : /\ IsConn(Promised(c, cur))
                         /\ Promised(c, cur).pool = c.pool /\ Promised(c, cur).node = c.node
                         /\ Promised(c, cur).rule = "agile" => c.rule = "agile"
    BY <1>0 DEF Promised, IsConn
  <2>3. \A d \in conns' : IsConn(d) /\ (d.rule = "agile" => Kept(d))
    BY <2>1, <2>2 DEF DownInv
  <2>4. RoutesTyped' /\ FreshPick(routes)'
    BY <2>1, ResolvedIsFresh DEF RoutesTyped, FreshPick
  <2>5. QED
    BY <2>1, <2>3, <2>4, NoNewPromise
<1>3. CASE CutMovedMasters
  <2>1. /\ UNCHANGED <<routes, seen, poll, stale>>
        /\ \A d \in conns' : d \in conns \/ \E c \in conns : d = Lost(c)
    BY <1>3 DEF CutMovedMasters, Closed, CloseFails
  <2>2. \A d \in conns' : IsConn(d) /\ (d.rule = "agile" => Kept(d))
    BY <1>0, <2>1 DEF DownInv
  <2>3. QED
    BY <2>1, <2>2, NoNewPromise DEF DownInv, RoutesTyped, FreshPick
<1>4. CASE CutUnpinned
  <2>1. UNCHANGED <<routes, seen, poll, stale>>
    BY <1>4 DEF CutUnpinned
  <2>2. \A d \in conns' : \E c \in conns : d = c \/ d = Excused(c) \/ d = Lost(c)
    BY <1>0, <1>4, CutLeaves DEF CutUnpinned
  <2>3. \A d \in conns' : IsConn(d) /\ (d.rule = "agile" => Kept(d))
    BY <1>0, <2>1, <2>2 DEF DownInv
  <2>4. QED
    BY <2>1, <2>3, NoNewPromise DEF DownInv, RoutesTyped, FreshPick
<1>5. ASSUME NEW st \in Stores, NEW cur \in Resolved(st), ApplyByRestart(cur)
      PROVE  DownInv'
  <2>1. routes' = cur /\ seen' = seen /\ conns' = {}
    BY <1>5 DEF ApplyByRestart
  <2>2. RoutesTyped' /\ FreshPick(routes)'
    BY <2>1, ResolvedIsFresh DEF RoutesTyped, FreshPick
  <2>3. QED
    BY <2>1, <2>2 DEF DownInv
<1>6. CASE StartLastGood
  BY <1>6 DEF StartLastGood, DownInv, RoutesTyped, FreshPick
<1>7. CASE PollStart \/ PollFails
  <2>1. UNCHANGED <<routes, conns, seen, stale>> /\ poll.at # "reconcile"
    BY <1>7 DEF PollStart, PollFails
  <2>2. QED
    BY <2>1 DEF DownInv, RoutesTyped, FreshPick, Left
<1>8. ASSUME NEW up, PollSees(up) \/ PollNothing
      PROVE  DownInv'
  <2>1. PICK live, dead :
          /\ PollObserves(live, dead)
          /\ live = {} \/ (live = {pn \in Loaded : pn[2] \in up} /\ dead = {pn \in Loaded : pn[2] \notin up})
    BY <1>8 DEF PollSees, PollNothing
  <2> DEFINE unseen == {c \in conns : live = {} \/ (<<c.pool, c.node>> \notin live /\ ~Watched(c))}
             down == IF live = {} THEN {} ELSE Down(poll.slots, WentDown(dead))
  <2>2. /\ poll.at = "fetch" /\ poll'.at = "reconcile" /\ poll'.down = {pn[2] : pn \in down}
        /\ conns' = (conns \ unseen) \cup {IF c.rule = "agile" THEN Excused(c) ELSE c : c \in unseen}
        /\ stale' = TRUE /\ routes' = routes
        /\ Observe(live, dead)
    BY <2>1 DEF PollObserves, Idle
  <2>3. ASSUME NEW d \in conns'
        PROVE  IsConn(d) /\ (d.rule = "agile" => d \in conns \ unseen)
    BY <1>0, <2>2
  <2>4. ASSUME NEW c \in conns \ unseen, c.rule = "agile"
        PROVE  /\ c.pool \in Pools /\ c.node \in Nodes
               /\ seen'[c.pool][c.node] # "dead" \/ c.node \in poll'.down
    <3>1. c.pool \in Pools /\ c.node \in Nodes
      BY <2>4 DEF DownInv
    <3>2. live # {} /\ (<<c.pool, c.node>> \in live \/ Watched(c))
      BY <2>4
    <3>3. seen'[c.pool][c.node] = CASE <<c.pool, c.node>> \in live -> "alive"
                                    [] <<c.pool, c.node>> \in dead -> "dead" [] OTHER -> "none"
      BY <2>2, <3>1, <3>2 DEF Observe
    <3>4. ASSUME <<c.pool, c.node>> \in dead, <<c.pool, c.node>> \notin live
          PROVE  c.node \in poll'.down
      <4>1. <<c.pool, c.node>> \in Down(poll.slots, WentDown(dead))
        BY <3>2, <3>4 DEF Watched, Down, WentDown
      <4>2. QED
        BY <2>2, <3>2, <4>1
    <3>5. CASE <<c.pool, c.node>> \in live /\ <<c.pool, c.node>> \notin dead
      BY <3>1, <3>3, <3>5
    <3>6. CASE <<c.pool, c.node>> \notin live /\ <<c.pool, c.node>> \notin dead
      BY <3>1, <3>3, <3>6
    <3>7. ~(<<c.pool, c.node>> \in live /\ <<c.pool, c.node>> \in dead)
      BY <2>1, <3>2
    <3>8. QED
      BY <3>1, <3>4, <3>5, <3>6, <3>7
  <2>5. QED
    BY <2>2, <2>3, <2>4 DEF DownInv, RoutesTyped, FreshPick, Left
<1>9. CASE PollCuts
  <2>1. UNCHANGED <<routes, seen, stale>> /\ poll'.at = "idle" /\ poll.at = "reconcile"
    BY <1>9 DEF PollCuts, Idle
  <2>2. \A d \in conns' : \E c \in conns :
          (d = c /\ c.node \notin poll.down) \/ d = Excused(c) \/ d = Lost(c)
    BY <1>0, <1>9, CutLeaves DEF PollCuts
  <2>3. \A d \in conns' : IsConn(d) /\ (d.rule = "agile" => Kept(d))
    BY <1>0, <2>1, <2>2 DEF DownInv
  <2>4. QED
    BY <2>1, <2>3, NoNewPromise DEF DownInv, RoutesTyped, FreshPick
<1>10. ASSUME NEW m \in Masters, Connect(m)
       PROVE  DownInv'
  <2>1. PICK p, n, e :
          p \in DOMAIN routes /\ conns' = conns \cup
            {[master |-> m, pool |-> p, node |-> n, to |-> e, known |-> TRUE, rule |-> PromisedNew(p, n)]}
    BY <1>10 DEF Connect
  <2> DEFINE new == [master |-> m, pool |-> p, node |-> n, to |-> e, known |-> TRUE, rule |-> PromisedNew(p, n)]
  <2>2. UNCHANGED <<routes, seen, poll, stale>>
    BY <1>10 DEF Connect
  <2>3. ASSUME PromisedNew(p, n) = "agile"
        PROVE  n \in Nodes /\ seen[p][n] # "dead"
    <3>1. /\ ~stale /\ n \in routes[p].active /\ routes[p].strategy = "agile"
          /\ seen[p][n] # "dead" \/ \E k \in routes[p].members : seen[p][k] = "alive"
      BY <2>3 DEF PromisedNew
    <3>2. QED
      BY <2>1, <3>1 DEF DownInv, RoutesTyped, FreshPick
  <2>4. new.rule = "agile" => /\ new.pool \in Pools /\ new.node \in Nodes
                              /\ seen[new.pool][new.node] # "dead"
    BY <2>1, <2>3 DEF DownInv, RoutesTyped
  <2>5. IsConn(new) /\ conns' = conns \cup {new}
    BY <2>1 DEF IsConn
  <2> HIDE DEF new
  <2>6. QED
    BY <2>2, <2>4, <2>5 DEF DownInv, RoutesTyped, FreshPick, Left
<1>11. CASE UNCHANGED cutVars
  BY <1>11 DEF cutVars, DownInv, RoutesTyped, FreshPick, Left
<1>12. QED
  BY <1>1, <1>2, <1>3, <1>4, <1>5, <1>6, <1>7, <1>8, <1>9, <1>10, <1>11 DEF CutNext

(* No client of an agile pool is left on a node that the last poll saw go   *)
(* down, nor comes back to it while another member answers, whatever is     *)
(* stored, applied, refused or restarted since (nodepark.go:317-319).       *)
THEOREM DownNodesAreLeft == CutSpec => []DownIsLeft
<1>1. CutInit => DownInv
  <2> SUFFICES ASSUME CutInit PROVE DownInv
    OBVIOUS
  <2>1. PICK st \in Stores : routes \in Resolved(st)
    BY DEF CutInit
  <2>2. FreshPick(routes) /\ RoutesTyped /\ conns = {}
    BY <2>1, ResolvedIsFresh DEF CutInit, RoutesTyped
  <2>3. QED
    BY <2>2 DEF DownInv
<1>2. DownInv /\ [CutNext]_cutVars => DownInv'
  BY DownStep
<1>3. DownInv => DownIsLeft
  BY DEF DownInv, DownIsLeft, Left
<1>4. QED
  BY <1>1, <1>2, <1>3, PTL DEF CutSpec

-----------------------------------------------------------------------------
(* Totals.                                                                 *)

(* A sampler keeps its types whatever restarts in the middle of a poll      *)
(* (traffic.go:60-170).                                                     *)
THEOREM QuotaType == Spec => []QuotaTypeOK
<1> USE QuotaAssumption
<1>1. Init => QuotaTypeOK
  <2> SUFFICES ASSUME Init PROVE QuotaTypeOK
    OBVIOUS
  <2>1. Zero \in [Users -> Nat]
    BY DEF Zero
  <2>2. DOMAIN rows \subseteq Users /\ \A u \in DOMAIN rows : rows[u] \in [cap : Caps, enabled : BOOLEAN]
    BY DEF Init
  <2>3. DOMAIN pending \subseteq Users /\ \A u \in DOMAIN pending : pending[u] \in Nat
    BY DEF Init
  <2>4. capRefused \in BOOLEAN
    BY DEF Init
  <2>5. QED
    BY <2>1, <2>2, <2>3, <2>4 DEF Init, QuotaTypeOK
<1>2. QuotaTypeOK /\ [Next]_quotaVars => QuotaTypeOK'
  <2> SUFFICES ASSUME QuotaTypeOK, [Next]_quotaVars PROVE QuotaTypeOK'
    OBVIOUS
  <2> USE DEF QuotaTypeOK, samplerVars, bounds
  <2>0. Zero \in [Users -> Nat] /\ ActiveUsers \subseteq Users
    BY DEF Zero, ActiveUsers
  <2>1. ASSUME NEW u \in Users, Carry(u) PROVE QuotaTypeOK'
    BY <2>1 DEF Carry
  <2>2. ASSUME CountersRestart
        PROVE  restarts' \in Nat /\ counter' \in [Users -> Nat] /\ missed' \subseteq Users
    BY <2>0, <2>2 DEF CountersRestart
  <2>3. CASE XrayRestart
    BY <2>2, <2>3 DEF XrayRestart
  <2>4. CASE StatsQuery
    BY <2>4 DEF StatsQuery
  <2>5. CASE TagIndex
    <3>1. \A u \in Users : Delta(u) \in Nat
      BY DEF Delta
    <3>2. DOMAIN pending' \subseteq Users /\ \A u \in DOMAIN pending' : pending'[u] \in Nat
      BY <2>5, <3>1 DEF TagIndex
    <3>3. missed' \subseteq Users
      BY <2>5 DEF TagIndex
    <3>4. QED
      BY <2>0, <2>5, <3>2, <3>3 DEF TagIndex
  <2>6. ASSUME NEW u \in Users, AddTraffic(u) \/ AddTrafficFails(u) PROVE QuotaTypeOK'
    BY <2>6 DEF AddTraffic, AddTrafficFails
  <2>7. CASE EnforceCaps
    BY <2>7 DEF EnforceCaps
  <2>8. ASSUME Apply \/ Refuse
        PROVE  /\ served' \subseteq Users /\ refused' \in Nat /\ edits' \in Nat
               /\ restarts' \in Nat /\ counter' \in [Users -> Nat] /\ missed' \subseteq Users
    BY <2>0, <2>2, <2>8 DEF Apply, Refuse
  <2>9. CASE CapReconcile
    <3>1. capRefused' \in BOOLEAN
      BY <2>9 DEF CapReconcile
    <3>2. QED
      BY <2>8, <2>9, <3>1 DEF CapReconcile
  <2>10. CASE HandlerReconcile
    BY <2>8, <2>10 DEF HandlerReconcile
  <2>11. ASSUME NEW newRows, Edited(newRows), DOMAIN newRows \subseteq Users,
                \A v \in DOMAIN newRows : newRows[v] \in [cap : Caps, enabled : BOOLEAN]
         PROVE  QuotaTypeOK'
    BY <2>11 DEF Edited
  <2>12. CASE InboundUserAdd
    <3>1. PICK u \in Users \ DOMAIN rows, n \in Caps :
            Edited([v \in DOMAIN rows \cup {u} |-> IF v = u THEN [cap |-> n, enabled |-> TRUE] ELSE rows[v]])
      BY <2>12 DEF InboundUserAdd
    <3>2. QED
      BY <2>11, <3>1
  <2>13. CASE InboundUserRemove
    <3>1. PICK u \in DOMAIN rows : Edited([v \in DOMAIN rows \ {u} |-> rows[v]])
      BY <2>13 DEF InboundUserRemove
    <3>2. QED
      BY <2>11, <3>1
  <2>14. CASE InboundUserSetEnabled
    <3>1. PICK u \in DOMAIN rows, on \in BOOLEAN : Edited([rows EXCEPT ![u].enabled = on])
      BY <2>14 DEF InboundUserSetEnabled
    <3>2. \A v \in DOMAIN rows : [rows EXCEPT ![u].enabled = on][v] \in [cap : Caps, enabled : BOOLEAN]
      OBVIOUS
    <3>3. QED
      BY <2>11, <3>1, <3>2
  <2>15. CASE DaemonRestart
    <3>1. DOMAIN pending' \subseteq Users /\ \A u \in DOMAIN pending' : pending'[u] \in Nat
      BY <2>15 DEF DaemonRestart
    <3>2. missed' \subseteq Users /\ capRefused' \in BOOLEAN
      BY <2>15 DEF DaemonRestart
    <3>3. QED
      BY <2>0, <2>15, <3>1, <3>2 DEF DaemonRestart
  <2>16. CASE UNCHANGED quotaVars
    BY <2>16 DEF quotaVars
  <2>17. QED
    BY <2>1, <2>3, <2>4, <2>5, <2>6, <2>7, <2>9, <2>10, <2>12, <2>13, <2>14, <2>15, <2>16 DEF Next, Sampler
<1>3. QED
  BY <1>1, <1>2, PTL DEF Spec

-----------------------------------------------------------------------------
\* What a counter shows since it was n, taking one that is below for restarted.
Since(n, u) == IF counter[u] < n THEN counter[u] ELSE counter[u] - n

(* What is accounted for is at most what was carried, and still is when the *)
(* delta of the sample under way is handed on, with what came after it.     *)
OverInv ==
  /\ pc # "store" => pending = <<>>
  /\ \A u \in Users : totals[u] + PendingOf(u) + Since(last[u], u) <= carried[u]
  /\ pc = "index" => \A u \in Users : totals[u] + Delta(u) + Since(sample[u], u) <= carried[u]

(* A restart of xray only hides what its counters showed. *)
LEMMA OverRestart ==
  ASSUME QuotaTypeOK, OverInv, counter' = Zero, UNCHANGED <<pending, totals, carried, last, sample>>,
         pc' = pc \/ pc' # "index", pc' # "store" => pc # "store"
  PROVE  OverInv'
<1> USE DEF QuotaTypeOK
<1>1. \A u \in Users : Since(last[u], u)' = 0 /\ Since(sample[u], u)' = 0
  BY DEF Since, Zero
<1>2. \A u \in Users : /\ Since(last[u], u) \in Nat /\ Since(sample[u], u) \in Nat
                       /\ PendingOf(u) \in Nat /\ Delta(u) \in Nat
  BY DEF Since, PendingOf, Delta
<1>3. \A u \in Users : PendingOf(u)' = PendingOf(u) /\ Delta(u)' = Delta(u)
  BY DEF PendingOf, Delta
<1>4. QED
  BY <1>1, <1>2, <1>3 DEF OverInv

(* What does not touch the numbers keeps it. *)
LEMMA OverSame ==
  ASSUME OverInv, UNCHANGED <<pending, totals, carried, counter, last, sample>>,
         pc' = pc \/ pc' # "index", pc' # "store" => (pc # "store" \/ pending = <<>>)
  PROVE  OverInv'
<1>1. \A u : PendingOf(u)' = PendingOf(u) /\ Delta(u)' = Delta(u)
             /\ Since(last[u], u)' = Since(last[u], u) /\ Since(sample[u], u)' = Since(sample[u], u)
  BY DEF PendingOf, Delta, Since
<1>2. QED
  BY <1>1 DEF OverInv

LEMMA OverStep ==
  ASSUME QuotaTypeOK, QuotaTypeOK', OverInv, [Next]_quotaVars
  PROVE  OverInv'
<1> USE DEF QuotaTypeOK, samplerVars, bounds
<1>1. ASSUME NEW u \in Users, Carry(u) PROVE OverInv'
  <2>1. \A v \in Users : PendingOf(v)' = PendingOf(v) /\ Delta(v)' = Delta(v) /\ PendingOf(v) \in Nat /\ Delta(v) \in Nat
    BY <1>1 DEF Carry, PendingOf, Delta
  <2>2. ASSUME NEW v \in Users, v # u
        PROVE  carried'[v] = carried[v] /\ Since(last[v], v)' = Since(last[v], v)
               /\ Since(sample[v], v)' = Since(sample[v], v)
    BY <1>1, <2>2 DEF Carry, Since
  <2>3. /\ carried'[u] = carried[u] + 1
        /\ Since(last[u], u)' <= Since(last[u], u) + 1 /\ Since(sample[u], u)' <= Since(sample[u], u) + 1
        /\ Since(last[u], u) \in Nat /\ Since(sample[u], u) \in Nat
        /\ Since(last[u], u)' \in Nat /\ Since(sample[u], u)' \in Nat
    BY <1>1 DEF Carry, Since
  <2>4. UNCHANGED <<pc, pending, totals>>
    BY <1>1 DEF Carry
  <2>5. ASSUME NEW v \in Users
        PROVE  totals'[v] + PendingOf(v)' + Since(last[v], v)' <= carried'[v]
    <3>1. CASE v = u
      <4>1. totals[u] + PendingOf(u) + Since(last[u], u) <= carried[u] /\ totals[u] \in Nat /\ carried[u] \in Nat
        BY DEF OverInv
      <4>2. totals'[u] + PendingOf(u)' + Since(last[u], u)' <= carried'[u]
        BY <2>1, <2>3, <2>4, <4>1
      <4>3. QED
        BY <3>1, <4>2
    <3>2. CASE v # u
      BY <2>1, <2>2, <2>4, <3>2 DEF OverInv
    <3>3. QED
      BY <3>1, <3>2
  <2>6. ASSUME NEW v \in Users, pc = "index"
        PROVE  totals'[v] + Delta(v)' + Since(sample[v], v)' <= carried'[v]
    <3>1. CASE v = u
      <4>1. totals[u] + Delta(u) + Since(sample[u], u) <= carried[u] /\ totals[u] \in Nat /\ carried[u] \in Nat
        BY <2>6 DEF OverInv
      <4>2. totals'[u] + Delta(u)' + Since(sample[u], u)' <= carried'[u]
        BY <2>1, <2>3, <2>4, <4>1
      <4>3. QED
        BY <3>1, <4>2
    <3>2. CASE v # u
      BY <2>1, <2>2, <2>4, <2>6, <3>2 DEF OverInv
    <3>3. QED
      BY <3>1, <3>2
  <2>7. QED
    BY <2>4, <2>5, <2>6 DEF OverInv
<1>2. CASE XrayRestart
  BY <1>2, OverRestart DEF XrayRestart, CountersRestart
<1>3. CASE StatsQuery
  <2>1. \A u \in Users : PendingOf(u)' = PendingOf(u) /\ PendingOf(u) = 0 /\ Since(last[u], u)' = Since(last[u], u)
    BY <1>3 DEF StatsQuery, PendingOf, Since, OverInv
  <2>2. \A u \in Users : Delta(u)' = Since(last[u], u) /\ Since(sample[u], u)' = 0 /\ Since(last[u], u) \in Nat
    BY <1>3 DEF StatsQuery, Delta, Since
  <2>3. QED
    BY <1>3, <2>1, <2>2 DEF StatsQuery, OverInv
<1>4. CASE TagIndex
  <2>1. ASSUME NEW u \in Users
        PROVE  PendingOf(u)' \in Nat /\ PendingOf(u)' <= Delta(u) /\ Since(last[u], u)' = Since(sample[u], u)
    <3>1. Delta(u) \in Nat
      BY DEF Delta
    <3>2. PendingOf(u)' = Delta(u) \/ PendingOf(u)' = 0
      BY <1>4 DEF TagIndex, PendingOf
    <3>3. Since(last[u], u)' = Since(sample[u], u)
      BY <1>4 DEF TagIndex, Since
    <3>4. QED
      BY <3>1, <3>2, <3>3
  <2>2. \A u \in Users : Since(sample[u], u) \in Nat /\ Delta(u) \in Nat
    BY DEF Since, Delta
  <2>3. QED
    BY <1>4, <2>1, <2>2 DEF TagIndex, OverInv
<1>5. ASSUME NEW u \in Users, AddTraffic(u) \/ AddTrafficFails(u) PROVE OverInv'
  <2>1. \A v \in Users : Since(last[v], v)' = Since(last[v], v) /\ Since(last[v], v) \in Nat
    BY <1>5 DEF AddTraffic, AddTrafficFails, Since
  <2>2. \A v \in Users : PendingOf(v) \in Nat /\ totals'[v] + PendingOf(v)' <= totals[v] + PendingOf(v)
    BY <1>5 DEF AddTraffic, AddTrafficFails, PendingOf
  <2>3. \A v \in Users : PendingOf(v)' \in Nat
    BY DEF PendingOf
  <2>4. pc' = "store" /\ carried' = carried
    BY <1>5 DEF AddTraffic, AddTrafficFails
  <2>5. QED
    <3>1. ASSUME NEW v \in Users
          PROVE  totals'[v] + PendingOf(v)' + Since(last[v], v)' <= carried'[v]
      <4>1. totals[v] + PendingOf(v) + Since(last[v], v) <= carried[v] /\ totals[v] \in Nat /\ carried[v] \in Nat
        BY DEF OverInv
      <4>2. totals'[v] \in Nat
        OBVIOUS
      <4>3. QED
        BY <2>1, <2>2, <2>3, <2>4, <4>1, <4>2
    <3>2. QED
      BY <2>4, <3>1 DEF OverInv
<1>6. CASE EnforceCaps
  BY <1>6, OverSame DEF EnforceCaps
<1>7. ASSUME Apply \/ Refuse, UNCHANGED <<pending, totals, carried, last, sample>>,
             pc' = pc \/ (pc = "reconcile" /\ pc' = "idle")
      PROVE  OverInv'
  <2>1. CASE counter' = Zero
    BY <1>7, <2>1, OverRestart
  <2>2. CASE UNCHANGED counter
    BY <1>7, <2>2, OverSame
  <2>3. QED
    BY <1>7, <2>1, <2>2 DEF Apply, Refuse, CountersRestart
<1>8. CASE CapReconcile \/ HandlerReconcile
  BY <1>7, <1>8 DEF CapReconcile, HandlerReconcile
<1>9. ASSUME NEW newRows, Edited(newRows) PROVE OverInv'
  BY <1>9, OverSame DEF Edited
<1>10. CASE DaemonRestart
  <2>1. \A u \in Users : PendingOf(u)' = 0 /\ Since(last[u], u)' = 0
    BY <1>10 DEF DaemonRestart, PendingOf, Since, Zero
  <2>2. \A u \in Users : Since(last[u], u) \in Nat /\ PendingOf(u) \in Nat
    BY DEF Since, PendingOf
  <2>3. QED
    BY <1>10, <2>1, <2>2 DEF DaemonRestart, OverInv
<1>11. CASE UNCHANGED quotaVars
  BY <1>11, OverSame DEF quotaVars
<1>12. QED
  BY <1>1, <1>2, <1>3, <1>4, <1>5, <1>6, <1>8, <1>9, <1>10, <1>11
     DEF Next, Sampler, InboundUserAdd, InboundUserRemove, InboundUserSetEnabled

(* Nobody is cut off for bytes that were counted twice, whatever restarts   *)
(* in the middle of a poll (traffic.go:100-140).                            *)
THEOREM TotalsNeverOvercount == Spec => []NeverOvercounts
<1>1. Init => OverInv
  <2> SUFFICES ASSUME Init PROVE OverInv
    OBVIOUS
  <2>1. \A u \in Users : PendingOf(u) = 0 /\ Since(last[u], u) = 0 /\ totals[u] = 0 /\ carried[u] = 0
    BY DEF Init, PendingOf, Since, Zero
  <2>2. QED
    BY <2>1 DEF Init, OverInv
<1>2. QuotaTypeOK /\ QuotaTypeOK' /\ OverInv /\ [Next]_quotaVars => OverInv'
  BY OverStep
<1>3. QuotaTypeOK /\ OverInv => NeverOvercounts
  <2> SUFFICES ASSUME QuotaTypeOK, OverInv, NEW u \in Users
               PROVE  totals[u] + PendingOf(u) <= carried[u]
    BY DEF NeverOvercounts
  <2>1. Since(last[u], u) \in Nat /\ PendingOf(u) \in Nat /\ totals[u] \in Nat /\ carried[u] \in Nat
    BY DEF QuotaTypeOK, Since, PendingOf
  <2>2. QED
    BY <2>1 DEF OverInv
<1>4. QED
  BY <1>1, <1>2, <1>3, QuotaType, PTL DEF Spec

-----------------------------------------------------------------------------
(* Of a user the sampler has missed nothing of, the cursor and the sample   *)
(* under way are behind the counter, and a delta that waits to be stored    *)
(* came from a counter that has not started anew.                           *)
LossInv ==
  /\ pc # "store" => pending = <<>>
  /\ \A u \in Users \ missed :
       /\ carried[u] + last[u] = totals[u] + PendingOf(u) + counter[u]
       /\ last[u] <= counter[u]
       /\ pc = "index" => last[u] <= sample[u] /\ sample[u] <= counter[u]
       /\ u \in DOMAIN pending => last[u] > 0

LEMMA LossSame ==
  ASSUME LossInv, UNCHANGED <<pending, totals, carried, counter, last, sample>>,
         missed \subseteq missed', pc' = pc \/ pc' # "index", pc' # "store" => (pc # "store" \/ pending = <<>>)
  PROVE  LossInv'
<1>1. \A u : PendingOf(u)' = PendingOf(u)
  BY DEF PendingOf
<1>2. QED
  BY <1>1 DEF LossInv

(* A restart of xray is missed by those whose counters had begun. *)
LEMMA LossRestart ==
  ASSUME QuotaTypeOK, LossInv, CountersRestart, UNCHANGED <<pending, totals, carried, last, sample>>,
         pc' = pc \/ pc' # "index", pc' # "store" => pc # "store"
  PROVE  LossInv'
<1>1. \A u \in Users \ missed' : counter[u] = 0 /\ counter'[u] = 0 /\ u \notin missed
  BY DEF CountersRestart, Zero, QuotaTypeOK
<1>2. \A u : PendingOf(u)' = PendingOf(u)
  BY DEF PendingOf
<1>3. QED
  BY <1>1, <1>2 DEF LossInv

LEMMA LossStep ==
  ASSUME QuotaTypeOK, QuotaTypeOK', LossInv, [Next]_quotaVars
  PROVE  LossInv'
<1> USE DEF QuotaTypeOK, samplerVars, bounds
<1>1. ASSUME NEW u \in Users, Carry(u) PROVE LossInv'
  <2>1. \A v \in Users : PendingOf(v)' = PendingOf(v) /\ PendingOf(v) \in Nat
    BY <1>1 DEF Carry, PendingOf
  <2>2. UNCHANGED <<pc, pending, totals, last, sample, missed>>
    BY <1>1 DEF Carry
  <2>3. \A v \in Users : \/ carried'[v] = carried[v] /\ counter'[v] = counter[v]
                         \/ carried'[v] = carried[v] + 1 /\ counter'[v] = counter[v] + 1
    BY <1>1 DEF Carry
  <2>4. ASSUME NEW v \in Users \ missed
        PROVE  /\ carried'[v] + last'[v] = totals'[v] + PendingOf(v)' + counter'[v]
               /\ last'[v] <= counter'[v]
               /\ pc' = "index" => last'[v] <= sample'[v] /\ sample'[v] <= counter'[v]
               /\ v \in DOMAIN pending' => last'[v] > 0
    <3>1. /\ carried[v] + last[v] = totals[v] + PendingOf(v) + counter[v]
          /\ last[v] <= counter[v]
          /\ pc = "index" => last[v] <= sample[v] /\ sample[v] <= counter[v]
          /\ v \in DOMAIN pending => last[v] > 0
      BY DEF LossInv
    <3>2. /\ carried[v] \in Nat /\ last[v] \in Nat /\ totals[v] \in Nat /\ PendingOf(v) \in Nat
          /\ counter[v] \in Nat /\ sample[v] \in Nat
      BY <2>1
    <3>3. /\ last'[v] = last[v] /\ totals'[v] = totals[v] /\ PendingOf(v)' = PendingOf(v)
          /\ sample'[v] = sample[v] /\ pc' = pc /\ pending' = pending
      BY <2>1, <2>2
    <3>4. CASE carried'[v] = carried[v] /\ counter'[v] = counter[v]
      BY <3>1, <3>2, <3>3, <3>4
    <3>5. CASE carried'[v] = carried[v] + 1 /\ counter'[v] = counter[v] + 1
      BY <3>1, <3>2, <3>3, <3>5
    <3>6. QED
      BY <2>3, <3>4, <3>5
  <2>5. QED
    BY <2>2, <2>4 DEF LossInv
<1>2. CASE XrayRestart
  BY <1>2, LossRestart DEF XrayRestart
<1>3. CASE StatsQuery
  <2>1. \A u \in Users : PendingOf(u)' = PendingOf(u)
    BY <1>3 DEF StatsQuery, PendingOf
  <2>2. QED
    BY <1>3, <2>1 DEF StatsQuery, LossInv
<1>4. CASE TagIndex
  <2>1. pending = <<>> /\ missed \subseteq missed' /\ pc' = "store"
    BY <1>4 DEF TagIndex, LossInv
  <2>2. ASSUME NEW u \in Users \ missed'
        PROVE  /\ carried'[u] + last'[u] = totals'[u] + PendingOf(u)' + counter'[u]
               /\ last'[u] <= counter'[u]
               /\ u \in DOMAIN pending' => last'[u] > 0
    <3>1. /\ carried[u] + last[u] = totals[u] + PendingOf(u) + counter[u]
          /\ last[u] <= sample[u] /\ sample[u] <= counter[u]
      BY <1>4, <2>1 DEF TagIndex, LossInv
    <3>2. PendingOf(u) = 0 /\ Delta(u) = sample[u] - last[u]
      BY <2>1, <3>1 DEF PendingOf, Delta
    <3>3. PendingOf(u)' = Delta(u)
      <4>1. CASE Delta(u) > 0
        BY <1>4, <4>1 DEF TagIndex, PendingOf
      <4>2. CASE ~(Delta(u) > 0)
        BY <1>4, <3>1, <3>2, <4>2 DEF TagIndex, PendingOf
      <4>3. QED
        BY <4>1, <4>2
    <3>4. u \in DOMAIN pending' => Delta(u) > 0
      BY <1>4 DEF TagIndex
    <3>5. last'[u] = sample[u] /\ UNCHANGED <<carried, totals, counter>>
      BY <1>4 DEF TagIndex
    <3>6. QED
      BY <3>1, <3>2, <3>3, <3>4, <3>5
  <2>3. QED
    BY <2>1, <2>2 DEF LossInv
<1>5. ASSUME NEW u \in Users, AddTraffic(u) \/ AddTrafficFails(u) PROVE LossInv'
  <2>1. pc' = "store" /\ UNCHANGED <<carried, counter, last>> /\ missed \subseteq missed'
    BY <1>5 DEF AddTraffic, AddTrafficFails
  <2>2. \A v \in Users \ missed' : totals'[v] + PendingOf(v)' = totals[v] + PendingOf(v)
    BY <1>5 DEF AddTraffic, AddTrafficFails, PendingOf
  <2>3. DOMAIN pending' \subseteq DOMAIN pending
    BY <1>5 DEF AddTraffic, AddTrafficFails
  <2>4. \A v \in Users : PendingOf(v) \in Nat /\ PendingOf(v)' \in Nat
    BY DEF PendingOf
  <2>5. QED
    BY <2>1, <2>2, <2>3, <2>4 DEF LossInv
<1>6. CASE EnforceCaps
  BY <1>6, LossSame DEF EnforceCaps
<1>7. ASSUME Apply \/ Refuse, UNCHANGED <<pending, totals, carried, last, sample>>,
             pc' = pc \/ (pc = "reconcile" /\ pc' = "idle")
      PROVE  LossInv'
  <2>1. CASE CountersRestart
    BY <1>7, <2>1, LossRestart
  <2>2. CASE UNCHANGED <<counter, missed>>
    BY <1>7, <2>2, LossSame
  <2>3. QED
    BY <1>7, <2>1, <2>2 DEF Apply, Refuse
<1>8. CASE CapReconcile \/ HandlerReconcile
  BY <1>7, <1>8 DEF CapReconcile, HandlerReconcile
<1>9. ASSUME NEW newRows, Edited(newRows) PROVE LossInv'
  BY <1>9, LossSame DEF Edited
<1>10. CASE DaemonRestart
  <2>1. \A u \in Users \ missed' : u \notin missed /\ counter[u] = 0
    BY <1>10 DEF DaemonRestart
  <2>2. \A u \in Users : PendingOf(u)' = 0 /\ counter'[u] = 0 /\ last'[u] = 0
    BY <1>10 DEF DaemonRestart, PendingOf, Zero
  <2>3. \A u \in Users \ missed' : last[u] = 0 /\ PendingOf(u) = 0 /\ carried[u] = totals[u]
    BY <2>1 DEF LossInv, PendingOf
  <2>4. UNCHANGED <<carried, totals>> /\ pending' = <<>> /\ pc' = "idle"
    BY <1>10 DEF DaemonRestart
  <2>5. QED
    BY <2>2, <2>3, <2>4 DEF LossInv
<1>11. CASE UNCHANGED quotaVars
  BY <1>11, LossSame DEF quotaVars
<1>12. QED
  BY <1>1, <1>2, <1>3, <1>4, <1>5, <1>6, <1>8, <1>9, <1>10, <1>11
     DEF Next, Sampler, InboundUserAdd, InboundUserRemove, InboundUserSetEnabled

(* Once everything is sampled the totals are exact, but for users of which  *)
(* a delta found no row, could not be stored, or fell to a restart.         *)
THEOREM TotalsLoseNothing == Spec => []NothingLost
<1>1. Init => LossInv
  <2> SUFFICES ASSUME Init PROVE LossInv
    OBVIOUS
  <2>1. /\ \A u \in Users : /\ PendingOf(u) = 0 /\ last[u] = 0 /\ counter[u] = 0
                            /\ totals[u] = 0 /\ carried[u] = 0
        /\ pending = <<>> /\ pc = "idle"
    BY DEF Init, PendingOf, Zero
  <2>2. QED
    BY <2>1 DEF LossInv
<1>2. QuotaTypeOK /\ QuotaTypeOK' /\ LossInv /\ [Next]_quotaVars => LossInv'
  BY LossStep
<1>3. QuotaTypeOK /\ LossInv => NothingLost
  <2> SUFFICES ASSUME QuotaTypeOK, LossInv, NEW u \in Users \ missed
               PROVE  carried[u] = totals[u] + PendingOf(u) + Unsampled(u)
    BY DEF NothingLost
  <2>1. /\ PendingOf(u) \in Nat /\ totals[u] \in Nat /\ carried[u] \in Nat
        /\ counter[u] \in Nat /\ last[u] \in Nat
    BY DEF QuotaTypeOK, PendingOf
  <2>2. QED
    BY <2>1 DEF LossInv, Unsampled
<1>4. QED
  BY <1>1, <1>2, <1>3, QuotaType, PTL DEF Spec
=============================================================================
