------------------------------ MODULE NodePick ------------------------------
(***************************************************************************)
(* daemon/nodepick.go: the ranking of a pool's members.  No state; the     *)
(* module Ranking is the machine that keeps scores and uses this.          *)
(*                                                                         *)
(* A score (nodeScore) is what past polls say of a member:                 *)
(*   known     there is a score at all (the pointer is not nil)            *)
(*   sampled   the latest poll had pings of it                             *)
(*   alive     one of them succeeded; clean: none failed                   *)
(*   ok        smoothed success rate in percent                            *)
(*   rtt, last smoothed and latest latency in ms, 0 when there is none     *)
(* A view is one master's chain verdict on every member; NoView knows      *)
(* nothing.  A pick is what xray is given: keys, the first of them active, *)
(* and the next the spare.  Members are numbered in the order of their     *)
(* keys.                                                                   *)
(***************************************************************************)
EXTENDS Integers, Sequences, FiniteSets, SequencesExt

CONSTANTS PickCount,   \* nodePickCount
          Expected,    \* SlotBalancerExpected
          AgileMax,    \* agileActiveMax
          HealthyRate  \* nodeHealthyRatio, in percent

ASSUME PickAssumption ==
  /\ PickCount \in Nat \ {0} /\ Expected \in Nat \ {0} /\ AgileMax \in Nat \ {0}
  /\ HealthyRate \in 0 .. 100

NoScore == [known |-> FALSE, sampled |-> FALSE, alive |-> FALSE, clean |-> FALSE,
            ok |-> 0, rtt |-> 0, last |-> 0]

\* Tiers and chain classes, the better the lower.
Healthy == 0
Unknown == 1
Suspect == 2
ChainBad == 3
Dead == 4
Good == 0
Unproven == 1
Bad == 2

NoVerdict == [class |-> Unproven, cost |-> 0]
NoPick == [keys |-> <<>>, active |-> 0]

Least2(a, b) == IF a < b THEN a ELSE b

\* MasterPick.ActiveCount and the keys it counts.
ActiveCount(p) == Least2(IF p.active = 0 THEN Expected ELSE p.active, Len(p.keys))
ActiveKeys(p) == {p.keys[i] : i \in 1 .. ActiveCount(p)}
PickedKeys(p) == Range(p.keys)

\* nodeScore.tier.
Tier(sc) ==
  CASE ~sc.sampled -> Unknown
    [] sc.sampled /\ ~sc.alive -> Dead
    [] sc.sampled /\ sc.alive /\ sc.clean /\ sc.ok >= HealthyRate /\ sc.rtt > 0 -> Healthy
    [] OTHER -> Suspect

\* nodeScore.cost: latency over the square of the success rate.
Cost(sc) == LET ok == IF sc.ok < 5 THEN 5 ELSE sc.ok IN (sc.rtt * 10000) \div (ok * ok)

\* nodeStickyRatio and nodeStickyMs, in fifths of a millisecond.
Weigh(cost, sticky) == IF sticky THEN 4 * cost - 200 ELSE 5 * cost

\* Things in the order of the rows of numbers they have, which are of one length.
Before(a, b) == \E i \in DOMAIN a : (\A j \in 1 .. i - 1 : a[j] = b[j]) /\ a[i] < b[i]
Ordered(S, row) ==
  CHOOSE s \in [1 .. Cardinality(S) -> S] : \A i, j \in DOMAIN s : i < j => Before(row[s[i]], row[s[j]])
InKeyOrder(S) == Ordered(S, [k \in S |-> <<k>>])
No(b) == IF b THEN 0 ELSE 1

\* Mutant of ChainTier: a member that fails the master's chain keeps its tier.
ChainTierOfHealth(sc, v) == Tier(sc)

\* The tier of a member for one master.
ChainTier(sc, v) == IF v.class = Bad /\ Tier(sc) # Dead THEN ChainBad ELSE Tier(sc)

\* The order pickStableLocked sorts by: cs[i] before cs[j].
StableOrder(k, scores, view, sticky) ==
  LET sc == scores[k]
      tier == ChainTier(sc, view[k])
      worth == CASE tier = Healthy ->
                      <<Weigh(IF view[k].class = Good THEN view[k].cost ELSE Cost(sc), k \in sticky), 0, 0, 0>>
                 [] tier = Unknown -> <<0, 0, 0, 0>>
                 [] OTHER -> <<No(sc.known), -sc.ok, No(sc.rtt > 0), sc.rtt>>
  IN  <<tier, view[k].class>> \o worth \o <<No(k \in sticky), k>>

\* How many of the n picked are active: up to the first that failed the chain,
\* unless all did.
StableActive(failed, n) ==
  IF 1 \in failed THEN Least2(Expected, n)
  ELSE Max({i \in 1 .. Least2(Expected, n) : i = 1 \/ i \notin failed})

\* pickStableLocked.  Any previous pick is sticky for being picked; for being
\* active only the first Expected of it are.
StablePick(members, scores, prev, view) ==
  LET wasActive == {prev.keys[i] : i \in 1 .. Least2(Expected, Len(prev.keys))}
      first == Ordered(members, [k \in members |-> StableOrder(k, scores, view, Range(prev.keys))])
      n == Least2(PickCount, Len(first))
      top == Ordered({first[i] : i \in 1 .. n}, [k \in members |-> StableOrder(k, scores, view, wasActive)])
      failed == {i \in 1 .. n : ChainTier(scores[top[i]], view[top[i]]) = ChainBad}
      active == StableActive(failed, n)
      last == IF 1 \in failed THEN n
              ELSE Min({n} \cup {i - 1 : i \in {j \in failed : j > active}})
  IN  IF \A k \in members : Tier(scores[k]) = Unknown THEN NoPick
      ELSE [keys |-> InKeyOrder({top[i] : i \in 1 .. active}) \o SubSeq(top, active + 1, last),
            active |-> active]

\* When all that may be active is, the spare is one that does not answer.
SpareFrom(members, live) == members \ live

\* pickAgile, when some member answers.
AgilePick(members, scores, prev, view) ==
  LET live == {k \in members : scores[k].sampled /\ scores[k].alive}
      fit == {k \in live : view[k].class # Bad}
      alive == IF fit # {} THEN fit ELSE live
      rest == SpareFrom(members, live)
      ByCost(k) ==
        LET sc == scores[k]
            raw == CASE view[k].class = Good -> view[k].cost
                     [] view[k].class # Good /\ sc.last > 0 -> sc.last
                     [] OTHER -> sc.rtt
        IN  <<view[k].class, Weigh(raw, k \in ActiveKeys(prev)), k>>
      ByRecord(k) == <<No(scores[k].known), -scores[k].ok, k>>
      fastest == Ordered(alive, [k \in alive |-> ByCost(k)])
      n == Least2(AgileMax, Len(fastest))
      spare == CASE Len(fastest) > n -> <<fastest[n + 1]>>
                 [] Len(fastest) = n /\ rest # {} -> <<Ordered(rest, [k \in rest |-> ByRecord(k)])[1]>>
                 [] OTHER -> <<>>
  IN  [keys |-> InKeyOrder({fastest[i] : i \in 1 .. n}) \o spare, active |-> n]

\* A slot: members, strategy, pins, the pool's own pick, and the picks of the
\* masters that have one (MasterPicks).
PickOf(sl, m) == IF m \in DOMAIN sl.own THEN sl.own[m] ELSE sl.pick

\* pickFor.  With no member that answers, pickAgile picks as pickStableLocked does.
PickFor(sl, scores, prev, view) ==
  CASE sl.strategy = "manual" -> [keys |-> sl.pinned, active |-> Len(sl.pinned)]
    [] sl.strategy # "manual" /\ sl.members = {} -> NoPick
    [] sl.strategy = "agile" /\ (\E k \in sl.members : scores[k].sampled /\ scores[k].alive) ->
         AgilePick(sl.members, scores, prev, view)
    [] OTHER -> StablePick(sl.members, scores, prev, view)

\* pickSlot: the pool's own pick, then that of each master with a verdict on
\* some member.
PickSlot(sl, scores, prev, views) ==
  LET judged == {m \in DOMAIN views : \E k \in sl.members : views[m][k].class # Unproven}
      none == [k \in DOMAIN scores |-> NoVerdict]
  IN  [sl EXCEPT !.pick = PickFor(sl, scores, prev.pick, none),
                 !.own = [m \in IF sl.strategy = "manual" THEN {} ELSE judged |->
                            PickFor(sl, scores, PickOf(prev, m), views[m])]]

\* poolOrder: the members not seen dead, best first.  Its comparison is no order
\* (a member without a score compares by its key with all others), so what the
\* sort returns depends on how it sorts: insertion, up to 20 members.
PoolOrder(members, scores) ==
  LET Less(k, l) ==
        LET a == scores[k]
            b == scores[l]
        IN  CASE Tier(a) # Tier(b) -> Tier(a) < Tier(b)
              [] Tier(a) = Tier(b) /\ Tier(a) = Healthy -> Cost(a) < Cost(b)
              [] Tier(a) = Tier(b) /\ Tier(a) # Healthy /\ a.known /\ b.known /\ a.ok # b.ok -> a.ok > b.ok
              [] OTHER -> k < l
      Insert(s, k) ==
        LET at == Max({0} \cup {i \in DOMAIN s : ~Less(k, s[i])})
        IN  SubSeq(s, 1, at) \o <<k>> \o SubSeq(s, at + 1, Len(s))
  IN  FoldLeft(Insert, <<>>, InKeyOrder({k \in members : Tier(scores[k]) # Dead}))
=============================================================================
