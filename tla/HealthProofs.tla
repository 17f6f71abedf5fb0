---------------------------- MODULE HealthProofs ----------------------------
(***************************************************************************)
(* Theorems about the health of the nodes: Parking, AutoStrategy, Probe    *)
(* and the links that nodes are made from.                                 *)
(*                                                                         *)
(* A poll folds the pools one after the other, so what it makes of a node  *)
(* is shown by induction on the pools (PoolAfterPool, ObservedAlive).      *)
(* AutoStrategy's invariant adds to the types that a round in which the    *)
(* uplink was down knows no member alive or dead.                          *)
(*                                                                         *)
(* A link is read back field by field (LinksRoundTrip), and a subscription *)
(* has only nodes that were read from links (BodyIsParsed).  A test is      *)
(* right because its batches are a plan (PlanIsPlan) and stay one as they   *)
(* are halved (HalvedPlan): no two nodes of a batch share a session, no     *)
(* node is in two, and whoever is in none has had its turn (ProbeInv).      *)
(***************************************************************************)
EXTENDS Parking, AutoStrategy, Probe, Lemmas

-----------------------------------------------------------------------------
(* What a poll makes of one node.                                           *)

LEMMA SeenIsState ==
  ASSUME NEW st \in ParkStates, NEW status, NEW live
  PROVE  Seen(st, status, live) \in ParkStates
<1>1. Clear \in ParkStates
  BY ParkingAssumption DEF Clear, ParkStates
<1>2. ParkedAgain(st) \in ParkStates
  BY ParkingAssumption DEF ParkedAgain, ParkStates
<1>3. [st EXCEPT !.dead = IF @ = "no" THEN "fresh" ELSE @] \in ParkStates
  BY DEF ParkStates
<1>4. QED
  BY <1>1, <1>2, <1>3 DEF Seen

(* Pool after pool: what they leave is what the last one leaves.            *)
Forgotten(slots) ==
  [k \in Nodes |-> IF k \notin UNION {slots[p].members : p \in Pools} /\ park[k].until = "no"
                   THEN Clear ELSE park[k]]
Answers(slots, status, p) == \E k \in slots[p].members : status[p][k] = "alive"
Watches(slots, p, k) == k \in slots[p].members /\ ~NeverParks(slots[p])

LEMMA PoolAfterPool ==
  ASSUME NEW slots, NEW status, park \in [Nodes -> ParkStates]
  PROVE  \E after \in [0 .. PoolCount -> [Nodes -> ParkStates]] :
           /\ after[0] = Forgotten(slots)
           /\ \A p \in Pools : after[p] =
                [k \in Nodes |-> IF Watches(slots, p, k)
                                 THEN Seen(after[p - 1][k], status[p][k], Answers(slots, status, p))
                                 ELSE after[p - 1][k]]
           /\ Observed(slots, status) = after[PoolCount]
<1> DEFINE S == [Nodes -> ParkStates]
           Pool(p, was) == [k \in Nodes |-> IF k \in slots[p].members /\ ~NeverParks(slots[p])
                             THEN Seen(was[k], status[p][k], \E l \in slots[p].members : status[p][l] = "alive")
                             ELSE was[k]]
           Do == [p \in 1 .. PoolCount |-> [was \in S |-> Pool(p, was)]]
           base == Forgotten(slots)
<1>1. PoolCount \in Nat /\ base \in S
  BY ParkingAssumption DEF Forgotten, Clear, ParkStates
<1>2. \A p \in 1 .. PoolCount : \A was \in S : Pool(p, was) \in S
  BY SeenIsState
<1>3. Do \in Steps(PoolCount, S)
  BY <1>2 DEF Steps
<1>4. \A p \in 1 .. PoolCount : \A was \in S : Do[p][was] = Pool(p, was)
  OBVIOUS
<1>5. \A n \in 1 .. PoolCount : n \in Pools /\ n - 1 \in 0 .. PoolCount
  BY <1>1 DEF Pools
<1> HIDE DEF S, Pool, Do, base
<1>6. PICK f : Leads(f, PoolCount, S, base, Do)
  BY <1>1, <1>3, Recursion
<1>7. f[0] = base /\ \A n \in 1 .. PoolCount : f[n] = Pool(n, f[n - 1])
  <2>1. f[0] = base
    BY <1>1, <1>6 DEF Leads
  <2>2. ASSUME NEW n \in 1 .. PoolCount
        PROVE  f[n] = Pool(n, f[n - 1])
    <3>1. f[n - 1] \in S
      BY <1>5, <1>6 DEF Leads
    <3>2. f[n] = Do[n][f[n - 1]]
      BY <1>1, <1>6 DEF Leads
    <3>3. QED
      BY <1>4, <3>1, <3>2
  <2>3. QED
    BY <2>1, <2>2
<1> DEFINE Body(g) == [p \in Pools \cup {0} |-> IF p = 0 THEN base ELSE Pool(p, g[p - 1])]
           g0 == CHOOSE g : g = Body(g)
<1>8. Pools \cup {0} = 0 .. PoolCount
  BY <1>1 DEF Pools
<1>9. f = Body(f)
  <2>1. f = [p \in 0 .. PoolCount |-> f[p]]
    BY <1>6 DEF Leads
  <2>2. \A p \in 0 .. PoolCount : f[p] = IF p = 0 THEN base ELSE Pool(p, f[p - 1])
    BY <1>1, <1>7
  <2>3. QED
    BY <1>8, <2>1, <2>2
<1>10. g0 = Body(g0)
  BY <1>9
<1>11. Cardinality(Pools) = PoolCount
  BY <1>1, FS_Interval DEF Pools
<1>12. Observed(slots, status) = g0[PoolCount]
  BY <1>11 DEF Observed, Forgotten, Pool, base
<1> HIDE DEF g0
<1>13. g0[0] = base /\ \A p \in Pools : g0[p] = Pool(p, g0[p - 1])
  BY <1>1, <1>8, <1>10 DEF Pools
<1>14. \A p \in 0 .. PoolCount : g0[p] \in S
  <2> DEFINE T == {p \in 0 .. PoolCount : g0[p] \in S}
  <2>1. 0 \in T
    BY <1>1, <1>13
  <2>2. \A n \in 1 .. PoolCount : n - 1 \in T => n \in T
    BY <1>2, <1>13 DEF Pools
  <2> HIDE DEF T
  <2>3. 0 .. PoolCount \subseteq T
    BY <1>1, <2>1, <2>2, Induction
  <2>4. QED
    BY <2>3 DEF T
<1>15. g0 \in [0 .. PoolCount -> S]
  BY <1>8, <1>10, <1>14
<1>16. \A p \in Pools : g0[p] =
         [k \in Nodes |-> IF Watches(slots, p, k)
                          THEN Seen(g0[p - 1][k], status[p][k], Answers(slots, status, p))
                          ELSE g0[p - 1][k]]
  BY <1>13 DEF Pool, Watches, Answers
<1>17. QED
  BY <1>12, <1>13, <1>15, <1>16 DEF S, base

LEMMA ObservedIsState ==
  ASSUME NEW slots, NEW status, park \in [Nodes -> ParkStates]
  PROVE  Observed(slots, status) \in [Nodes -> ParkStates]
<1>1. PoolCount \in Nat
  BY ParkingAssumption
<1>2. QED
  BY <1>1, PoolAfterPool

(* A node that some pool saw alive is not parked when all have had their    *)
(* say: the pools after it find a node that has not been dead for long.     *)
LEMMA ObservedAlive ==
  ASSUME NEW slots, NEW status, park \in [Nodes -> ParkStates],
         NEW p \in Pools, NEW k \in Nodes, Watches(slots, p, k), status[p][k] = "alive"
  PROVE  Observed(slots, status)[k].until = "no"
<1>1. PoolCount \in Nat /\ p \in 1 .. PoolCount
  BY ParkingAssumption DEF Pools
<1>2. PICK after \in [0 .. PoolCount -> [Nodes -> ParkStates]] :
        /\ \A q \in Pools : after[q] =
             [l \in Nodes |-> IF Watches(slots, q, l)
                              THEN Seen(after[q - 1][l], status[q][l], Answers(slots, status, q))
                              ELSE after[q - 1][l]]
        /\ Observed(slots, status) = after[PoolCount]
  BY PoolAfterPool
<1> DEFINE Well(st) == st.until = "no" /\ st.dead \in {"no", "fresh"}
           T == {n \in 0 .. PoolCount : n >= p => Well(after[n][k])}
<1>3. 0 \in T
  BY <1>1
<1>4. ASSUME NEW n \in 1 .. PoolCount, n - 1 \in T
      PROVE  n \in T
  <2>1. n \in Pools /\ n - 1 \in 0 .. PoolCount /\ n \in 0 .. PoolCount
    BY <1>1 DEF Pools
  <2>2. after[n - 1][k] \in ParkStates
    BY <2>1
  <2>3. CASE n = p
    <3>1. after[n][k] = Seen(after[n - 1][k], "alive", Answers(slots, status, n))
      BY <1>2, <2>1, <2>3
    <3>2. after[n][k] = Clear
      BY <3>1 DEF Seen
    <3>3. QED
      BY <2>1, <3>2 DEF Clear
  <2>4. CASE n > p
    <3>1. Well(after[n - 1][k])
      BY <1>1, <1>4, <2>1, <2>4
    <3>2. \/ after[n][k] = after[n - 1][k]
          \/ after[n][k] = Seen(after[n - 1][k], status[n][k], Answers(slots, status, n))
      BY <1>2, <2>1
    <3>3. \A st \in ParkStates : \A what, live : Well(st) => Well(Seen(st, what, live))
      BY DEF Seen, Clear, ParkStates
    <3>4. QED
      BY <2>1, <2>2, <3>1, <3>2, <3>3
  <2>5. CASE n < p
    BY <1>1, <2>1, <2>5
  <2>6. QED
    BY <1>1, <2>3, <2>4, <2>5
<1> HIDE DEF T
<1>5. 0 .. PoolCount \subseteq T
  BY <1>1, <1>3, <1>4, Induction
<1>6. QED
  BY <1>1, <1>2, <1>5 DEF T

-----------------------------------------------------------------------------
(* Type correctness.                                                        *)

LEMMA SlotsAreSlots ==
  ASSUME store \in Stores
  PROVE  \A p \in Pools : Resolved(p) \in Slots
<1> SUFFICES ASSUME NEW p \in Pools PROVE Resolved(p) \in Slots
  OBVIOUS
<1>1. /\ store[p].members \in SUBSET Nodes
      /\ store[p].strategy \in {"stable", "agile", "manual", "auto"}
  BY ParkingAssumption
<1>2. WithoutParked(store[p].members, Parked) \in SUBSET Nodes
  BY <1>1 DEF WithoutParked
<1>3. CASE store[p].strategy = "auto" /\ p \in mode
  BY <1>1, <1>3 DEF Resolved, Slots
<1>4. CASE store[p].strategy = "auto" /\ p \notin mode
  BY <1>2, <1>4 DEF Resolved, Slots
<1>5. CASE store[p].strategy # "auto"
  BY <1>1, <1>2, <1>5 DEF Resolved, Slots
<1>6. QED
  BY <1>3, <1>4, <1>5

THEOREM ParkingTypeCorrect == ParkingSpec => []ParkingTypeOK
<1>1. ParkingInit => ParkingTypeOK
  <2> SUFFICES ASSUME ParkingInit PROVE ParkingTypeOK
    OBVIOUS
  <2>1. loaded \in [Pools -> Slots]
    BY ParkingAssumption DEF ParkingInit, Slots
  <2>2. park \in [Nodes -> ParkStates]
    BY ParkingAssumption DEF ParkingInit, Clear, ParkStates
  <2>3. QED
    BY <2>1, <2>2 DEF ParkingInit, ParkingTypeOK, Idle
<1>2. ParkingTypeOK /\ [ParkingNext]_vars => ParkingTypeOK'
  <2> SUFFICES ASSUME ParkingTypeOK, [ParkingNext]_vars PROVE ParkingTypeOK'
    OBVIOUS
  <2> USE DEF ParkingTypeOK
  <2>1. Clear \in ParkStates
    BY ParkingAssumption DEF Clear, ParkStates
  <2>2. [k \in Nodes |-> IF k \in Unparked THEN Clear ELSE park[k]] \in [Nodes -> ParkStates]
    BY <2>1
  <2>3. Reconcile => loaded' \in [Pools -> Slots] /\ park' \in [Nodes -> ParkStates]
    BY <2>2, SlotsAreSlots DEF Reconcile
  <2>4. ReconcileFails => loaded' = loaded /\ park' \in [Nodes -> ParkStates]
    BY <2>2 DEF ReconcileFails
  <2>5. CASE Rpc
    BY <2>3, <2>4, <2>5 DEF Rpc, RpcCommits, RpcReconciles, RpcFails
  <2>6. CASE Time
    <3>1. PICK k \in Nodes : Ripens(k) \/ FallsDue(k)
      BY <2>6 DEF Time
    <3>2. park' \in [Nodes -> ParkStates]
      <4> HIDE DEF ParkingTypeOK
      <4>1. park \in [Nodes -> ParkStates] /\ park[k] \in ParkStates
        BY DEF ParkingTypeOK
      <4>2. CASE Ripens(k)
        BY <4>1, <4>2 DEF Ripens, ParkStates
      <4>3. CASE FallsDue(k)
        BY <4>1, <4>3 DEF FallsDue, ParkStates
      <4>4. QED
        BY <3>1, <4>2, <4>3
    <3>3. QED
      BY <3>1, <3>2 DEF Ripens, FallsDue
  <2>7. CASE PollStart \/ PollAnswers \/ PollFails
    BY <2>7 DEF PollStart, PollAnswers, PollFails, Idle
  <2>8. CASE Observes
    <3>1. PICK status \in Statuses(poller.slots), switched \in SUBSET Pools, repick \in BOOLEAN :
            PollObserves(status, switched, repick)
      BY <2>8 DEF Observes
    <3> DEFINE now == Observed(poller.slots, status)
    <3>2. now \in [Nodes -> ParkStates]
      BY ObservedIsState
    <3>3. park' = [k \in Nodes |-> Released(now[k], \E p \in Pools : k \in poller.slots[p].members)]
      BY <3>1 DEF PollObserves
    <3> HIDE DEF now
    <3>4. \A st \in ParkStates : \A in : Released(st, in) \in ParkStates
      BY DEF Released, ParkStates
    <3>5. park' \in [Nodes -> ParkStates]
      BY <3>2, <3>3, <3>4
    <3>6. mode' \subseteq Pools /\ seen' \subseteq Nodes
      BY <3>1 DEF PollObserves
    <3>7. poller' \in {Idle, [Idle EXCEPT !.at = "apply"]} /\ UNCHANGED <<store, loaded, rpc>>
      BY <3>1 DEF PollObserves
    <3>8. QED
      BY <3>5, <3>6, <3>7 DEF Idle
  <2>9. CASE PollApplies \/ PollApplyFails
    BY <2>3, <2>4, <2>9 DEF PollApplies, PollApplyFails, Idle
  <2>10. CASE UNCHANGED vars
    BY <2>10 DEF vars
  <2>11. QED
    BY <2>5, <2>6, <2>7, <2>8, <2>9, <2>10 DEF ParkingNext
<1>3. QED
  BY <1>1, <1>2, PTL DEF ParkingSpec

-----------------------------------------------------------------------------
(* A node that a parking pool saw alive is not parked.                      *)
THEOREM LiveNodesAreNotParked == ParkingSpec => []LiveNotParked
<1>1. ParkingInit => LiveNotParked
  BY DEF ParkingInit, LiveNotParked
<1>2. ParkingTypeOK /\ LiveNotParked /\ [ParkingNext]_vars => LiveNotParked'
  <2> SUFFICES ASSUME ParkingTypeOK, LiveNotParked, [ParkingNext]_vars,
                      NEW k \in seen'
               PROVE  park'[k].until = "no"
    BY DEF LiveNotParked
  <2> USE DEF ParkingTypeOK, LiveNotParked
  <2>1. ASSUME Reconcile \/ ReconcileFails, UNCHANGED seen
        PROVE  park'[k].until = "no"
    BY <2>1 DEF Reconcile, ReconcileFails, Clear
  <2>2. CASE Rpc
    BY <2>1, <2>2 DEF Rpc, RpcCommits, RpcReconciles, RpcFails
  <2>3. CASE Time
    <3>1. PICK l \in Nodes : Ripens(l) \/ FallsDue(l)
      BY <2>3 DEF Time
    <3>2. k \in seen /\ k \in Nodes /\ park[k] \in ParkStates
      BY <3>1 DEF Ripens, FallsDue
    <3>3. park[k].until = "no" /\ park \in [Nodes -> ParkStates]
      BY <3>2
    <3> HIDE DEF ParkingTypeOK, LiveNotParked
    <3>4. CASE Ripens(l)
      BY <3>2, <3>3, <3>4 DEF Ripens, ParkStates
    <3>5. CASE FallsDue(l)
      BY <3>2, <3>3, <3>5 DEF FallsDue, ParkStates
    <3>6. QED
      BY <3>1, <3>4, <3>5
  <2>4. CASE PollStart \/ PollAnswers \/ PollFails
    BY <2>4 DEF PollStart, PollAnswers, PollFails
  <2>5. CASE Observes
    <3>1. PICK status \in Statuses(poller.slots), switched \in SUBSET Pools, repick \in BOOLEAN :
            PollObserves(status, switched, repick)
      BY <2>5 DEF Observes
    <3>2. PICK p \in Pools : Watches(poller.slots, p, k) /\ status[p][k] = "alive"
      BY <3>1 DEF PollObserves, Watches
    <3>3. k \in Nodes
      BY <3>1 DEF PollObserves
    <3> DEFINE now == Observed(poller.slots, status)
    <3>4. now[k].until = "no"
      BY <3>2, <3>3, ObservedAlive
    <3>5. park'[k] = Released(now[k], \E q \in Pools : k \in poller.slots[q].members)
      BY <3>1, <3>3 DEF PollObserves
    <3> HIDE DEF now
    <3>6. QED
      BY <3>4, <3>5 DEF Released
  <2>6. CASE PollApplies \/ PollApplyFails
    BY <2>1, <2>6 DEF PollApplies, PollApplyFails
  <2>7. CASE UNCHANGED vars
    BY <2>7 DEF vars
  <2>8. QED
    BY <2>2, <2>3, <2>4, <2>5, <2>6, <2>7 DEF ParkingNext
<1>3. QED
  BY <1>1, <1>2, ParkingTypeCorrect, PTL DEF ParkingSpec

(* Parking leaves every pool that draws on some node one of them.           *)
THEOREM NoPoolIsEmptied == ParkingSpec => NeverEmptied
<1>1. ParkingTypeOK /\ [ParkingNext]_vars => [NotEmptied]_vars
  <2> SUFFICES ASSUME ParkingTypeOK, ParkingNext PROVE NotEmptied
    OBVIOUS
  <2>1. ASSUME NEW p \in Pools, store[p].members # {}
        PROVE  Resolved(p).members # {}
    BY <2>1 DEF Resolved, WithoutParked
  <2>2. CASE RpcReconciles \/ PollApplies
    BY <2>1, <2>2 DEF RpcReconciles, PollApplies, Reconcile, NotEmptied
  <2>3. CASE UNCHANGED loaded
    BY <2>3 DEF NotEmptied
  <2>4. Observes => UNCHANGED loaded
    BY DEF Observes, PollObserves
  <2>5. Time => UNCHANGED loaded
    BY DEF Time, Ripens, FallsDue
  <2>6. PollStart \/ PollAnswers \/ PollFails \/ PollApplyFails => UNCHANGED loaded
    BY DEF PollStart, PollAnswers, PollFails, PollApplyFails, ReconcileFails
  <2>7. Rpc => RpcReconciles \/ UNCHANGED loaded
    BY DEF Rpc, RpcCommits, RpcFails, ReconcileFails
  <2>8. QED
    BY <2>2, <2>3, <2>4, <2>5, <2>6, <2>7 DEF ParkingNext
<1>2. QED
  BY <1>1, ParkingTypeCorrect, PTL DEF ParkingSpec, NeverEmptied

-----------------------------------------------------------------------------
(* The auto strategy: what it has recorded.                                 *)

(* What is trimmed off is off the front: a round that is left was there.    *)
LEMMA RecentRounds ==
  ASSUME NEW S, NEW rs \in Seq(S), NEW ticks
  PROVE  /\ Recent(rs, ticks) \in Seq(S)
         /\ \A i \in DOMAIN Recent(rs, ticks) : \E j \in DOMAIN rs : Recent(rs, ticks)[i] = rs[j]
<1> DEFINE aged == {i \in DOMAIN rs : \A j \in 1 .. i : rs[j].age > ticks}
           n == Cardinality(aged)
<1>1. IsFiniteSet(aged)
  <2>1. DOMAIN rs = 1 .. Len(rs) /\ Len(rs) \in Nat
    OBVIOUS
  <2>2. IsFiniteSet(DOMAIN rs)
    BY <2>1, FS_Interval
  <2>3. aged \subseteq DOMAIN rs
    OBVIOUS
  <2>4. QED
    BY <2>2, <2>3, FS_Subset
<1>2. n \in Nat
  BY <1>1, FS_CardinalityType
<1>3. Recent(rs, ticks) = SubSeq(rs, n + 1, Len(rs))
  BY DEF Recent
<1> HIDE DEF n
<1>4. QED
  BY <1>2, <1>3

\* What is known of a round: nothing, when the uplink was down.
HidesAll(r) == r.uplinkDown => \A k \in Members : r.nodes[k].state \notin {"alive", "dead"}
GoodRounds == {r \in Rounds : HidesAll(r)}
AutoInv == AutoTypeOK /\ rounds \in Seq(GoodRounds)

LEMMA RoundIsGood ==
  ASSUME NEW found \in Finds, NEW elsewhere \in BOOLEAN, NEW pick \in Picks, NEW parked
  PROVE  Round(found, elsewhere, pick, parked) \in GoodRounds
<1> DEFINE in == DOMAIN found
           sampled == \E k \in in : found[k] # "unknown"
           alive == elsewhere \/ \E k \in in : found[k] = "alive"
           down == sampled /\ ~alive
           before == {k \in Members : \E i \in DOMAIN rounds : rounds[i].nodes[k].state # "none"}
           Sample(k) ==
             CASE k \in in -> [state |-> IF found[k] = "dead" /\ down THEN "uplink" ELSE found[k], picked |-> k \in pick]
               [] k \notin in /\ k \in before \cap parked -> [state |-> "parked", picked |-> FALSE]
               [] OTHER -> NoSample
           r == Round(found, elsewhere, pick, parked)
<1>1. PICK S \in SUBSET Members : found \in [S -> {"unknown", "alive", "dead"}]
  BY AutoAssumption
<1>2. r = [age |-> 0, uplinkDown |-> down, ranked |-> pick # {}, nodes |-> [k \in Members |-> Sample(k)]]
  BY DEF Round
<1>3. ASSUME NEW k \in Members
      PROVE  Sample(k) \in Samples /\ (down => Sample(k).state \notin {"alive", "dead"})
  <2>1. CASE k \in in
    <3>1. Sample(k) = [state |-> IF found[k] = "dead" /\ down THEN "uplink" ELSE found[k], picked |-> k \in pick]
      BY <2>1
    <3>2. found[k] \in {"unknown", "alive", "dead"}
      BY <1>1, <2>1
    <3>3. down => found[k] # "alive"
      BY <2>1
    <3> HIDE DEF Sample, down
    <3>4. QED
      BY <3>1, <3>2, <3>3 DEF Samples, States
  <2>2. CASE k \notin in /\ k \in before \cap parked
    <3>1. Sample(k) = [state |-> "parked", picked |-> FALSE]
      BY <2>2
    <3> HIDE DEF Sample
    <3>2. QED
      BY <3>1 DEF Samples, States
  <2>3. CASE k \notin in /\ k \notin before \cap parked
    <3>1. Sample(k) = NoSample
      BY <2>3
    <3> HIDE DEF Sample
    <3>2. QED
      BY <3>1 DEF Samples, NoSample
  <2>4. QED
    BY <2>1, <2>2, <2>3
<1>4. down \in BOOLEAN /\ 0 \in 0 .. Kept + 1
  BY AutoAssumption
<1> HIDE DEF Sample, down, r
<1>5. QED
  BY <1>2, <1>3, <1>4 DEF r, GoodRounds, HidesAll, Rounds

LEMMA AgedAreGood ==
  ASSUME NEW rs \in Seq(GoodRounds)
  PROVE  Aged(rs) \in Seq(GoodRounds)
<1>1. Kept \in Nat
  BY AutoAssumption
<1>2. ASSUME NEW r \in GoodRounds
      PROVE  [r EXCEPT !.age = IF @ > Kept THEN @ ELSE @ + 1] \in GoodRounds
  BY <1>1 DEF GoodRounds, HidesAll, Rounds
<1>3. \A i \in DOMAIN rs : rs[i] \in GoodRounds
  OBVIOUS
<1>4. DOMAIN rs = 1 .. Len(rs) /\ Len(rs) \in Nat
  OBVIOUS
<1>5. Aged(rs) \in [1 .. Len(rs) -> GoodRounds]
  BY <1>2, <1>3, <1>4 DEF Aged
<1>6. QED
  BY <1>4, <1>5

LEMMA AutoInvariance == AutoSpec => []AutoInv
<1>1. AutoInit => AutoInv
  <2>1. <<>> \in Seq(Rounds) /\ <<>> \in Seq(GoodRounds)
    OBVIOUS
  <2>2. Calm \in 0 .. Calm
    BY AutoAssumption
  <2>3. QED
    BY <2>1, <2>2 DEF AutoInit, AutoInv, AutoTypeOK
<1>2. AutoInv /\ [AutoNext]_autoVars => AutoInv'
  <2> SUFFICES ASSUME AutoInv, [AutoNext]_autoVars PROVE AutoInv'
    OBVIOUS
  <2>1. rounds \in Seq(GoodRounds) /\ agile \in BOOLEAN /\ odd \in BOOLEAN /\ calm \in 0 .. Calm /\ Calm \in Nat
    BY AutoAssumption DEF AutoInv, AutoTypeOK
  <2>2. SUFFICES /\ rounds' \in Seq(GoodRounds)
                 /\ agile' \in BOOLEAN /\ odd' \in BOOLEAN /\ calm' \in 0 .. Calm
    <3>1. GoodRounds \subseteq Rounds
      BY DEF GoodRounds
    <3>2. rounds' \in Seq(GoodRounds) => rounds' \in Seq(Rounds)
      BY <3>1
    <3>3. QED
      BY <3>2 DEF AutoInv, AutoTypeOK
  <2>3. CASE SomePoll
    <3>1. PICK found \in Finds, elsewhere \in BOOLEAN, pick \in Picks :
            Poll(found, elsewhere, pick, Members \ DOMAIN found)
      BY <2>3 DEF SomePoll
    <3> DEFINE r == Round(found, elsewhere, pick, Members \ DOMAIN found)
               now == Recent(Append(Aged(rounds), r), Kept)
    <3>2. r \in GoodRounds
      BY RoundIsGood
    <3> HIDE DEF r
    <3>3. Append(Aged(rounds), r) \in Seq(GoodRounds)
      BY <2>1, <3>2, AgedAreGood
    <3>4. now \in Seq(GoodRounds)
      BY <3>3, RecentRounds
    <3>5. rounds' = now /\ Evaluate(now) /\ odd' = ~odd
      BY <3>1 DEF Poll, r
    <3> HIDE DEF now
    <3>6. agile' \in BOOLEAN /\ calm' \in 0 .. Calm
      BY <2>1, <3>5 DEF Evaluate, Flapping
    <3>7. QED
      BY <3>4, <3>5, <3>6
  <2>4. CASE Misses
    BY <2>1, <2>4, AgedAreGood DEF Misses
  <2>5. CASE UNCHANGED autoVars
    BY <2>1, <2>5 DEF autoVars
  <2>6. QED
    BY <2>3, <2>4, <2>5 DEF AutoNext
<1>3. QED
  BY <1>1, <1>2, PTL DEF AutoSpec

(* The rounds, the mode and the calm of a pool are of their types.          *)
THEOREM AutoTypeCorrect == AutoSpec => []AutoTypeOK
<1>1. AutoInv => AutoTypeOK
  BY DEF AutoInv
<1>2. QED
  BY <1>1, AutoInvariance, PTL

(* An outage of the uplink adds no flip to any member's history.            *)
THEOREM OutageAddsNoFlip == AutoSpec => []OutageIsNoFlip
<1>1. AutoInv => OutageIsNoFlip
  <2> SUFFICES ASSUME AutoInv, NEW k \in Members
               PROVE  FlipsOf(rounds, k) = FlipsOf(Hidden(rounds), k)
    BY DEF OutageIsNoFlip
  <2> DEFINE bare == Hidden(rounds)
  <2>1. \A i \in DOMAIN rounds : rounds[i] \in Rounds /\ HidesAll(rounds[i])
    BY DEF AutoInv, GoodRounds
  <2>2. DOMAIN bare = DOMAIN rounds
    BY DEF Hidden
  <2>3. ASSUME NEW i \in DOMAIN rounds, rounds[i].uplinkDown
        PROVE  bare[i].nodes[k].state = "none"
    BY <2>1, <2>3 DEF Hidden, Rounds, NoSample
  <2>4. \A i \in DOMAIN rounds : ~rounds[i].uplinkDown => bare[i] = rounds[i]
    BY DEF Hidden
  <2> HIDE DEF bare
  <2>5. Known(bare, k) = Known(rounds, k)
    BY <2>1, <2>2, <2>3, <2>4 DEF Known, HidesAll
  <2>6. \A i \in Known(rounds, k) : bare[i].nodes[k].state = rounds[i].nodes[k].state
    BY <2>1, <2>4 DEF Known, HidesAll
  <2>7. FlipsOf(bare, k) = FlipsOf(rounds, k)
    BY <2>5, <2>6 DEF FlipsOf
  <2>8. QED
    BY <2>7 DEF bare
<1>2. QED
  BY <1>1, AutoInvariance, PTL

-----------------------------------------------------------------------------
(* Links.                                                                  *)

(* A stream is its network, what it says about security and what about the  *)
(* transport.                                                               *)
LEMMA NetworkIsNormal == \A t : NormNetwork(NormNetwork(t)) = NormNetwork(t)
<1> TAKE t
<1>1. NormNetwork(t) \in {"tcp", "ws", "grpc", "http", "xhttp", "kcp", "httpupgrade", "quic"}
  BY DEF NormNetwork, Blank
<1>2. QED
  BY <1>1 DEF NormNetwork, Blank

LEMMA PinIsNormal == \A p : NormalizeCertPin(NormalizeCertPin(p)) = NormalizeCertPin(p)
BY DEF NormalizeCertPin

LEMMA SecurityIs ==
  ASSUME NEW q
  PROVE  /\ q.security = "reality" => Security(q) = RealitySettings(q)
         /\ q.security \in {Blank, "none"} => Security(q) = [security |-> Blank]
         /\ q.security \notin {Blank, "none", "reality"} => Security(q) = ApplyTLS(q, Blank)
BY DEF Security, Blank

LEMMA TLSIs ==
  ASSUME NEW q, NEW fallback
  PROVE  LET s == ApplyTLS(q, fallback)
         IN  /\ DOMAIN s = {"security", "sni", "fp", "alpn", "pin", "vcn"}
             /\ s.security = "tls" /\ s.sni = OrDefault(OrDefault(q.sni, q.peer), fallback)
             /\ s.fp = q.fp /\ s.alpn = q.alpn /\ s.vcn = q.vcn
             /\ s.pin = NormalizeCertPin(OrDefault(q.pcs, q.pinSHA256))
             /\ s = [x \in DOMAIN s |-> s[x]]
BY DEF ApplyTLS, CertPin, ++

\* The query r says of security what the stream s has.
SaysSecurity(r, s) ==
  /\ r.peer = Blank /\ r.pinSHA256 = Blank
  /\ s.security = "reality" => /\ r.security = "reality"
                               /\ r.sni = s.sni /\ r.fp = s.fp /\ r.pbk = s.pbk /\ r.sid = s.sid /\ r.spx = s.spx
  /\ s.security = "tls" => /\ r.security = "tls"
                           /\ r.sni = s.sni /\ r.fp = s.fp /\ r.alpn = s.alpn /\ r.pcs = s.pin /\ r.vcn = s.vcn
  /\ s.security = Blank => r.security \in {Blank, "none"}

\* The pin of what is parsed is in xray's form, and that of nothing is nothing.
LEMMA SameTLS ==
  ASSUME NEW q, NEW fallback, NEW r, SaysSecurity(r, ApplyTLS(q, fallback))
  PROVE  ApplyTLS(r, Blank) = ApplyTLS(q, fallback)
<1> DEFINE s == ApplyTLS(q, fallback)
           t == ApplyTLS(r, Blank)
<1>1. /\ DOMAIN s = {"security", "sni", "fp", "alpn", "pin", "vcn"}
      /\ s.security = "tls" /\ s.pin = NormalizeCertPin(OrDefault(q.pcs, q.pinSHA256))
      /\ s = [x \in DOMAIN s |-> s[x]]
  BY TLSIs
<1>2. /\ DOMAIN t = {"security", "sni", "fp", "alpn", "pin", "vcn"}
      /\ t.security = "tls" /\ t.sni = OrDefault(OrDefault(r.sni, r.peer), Blank)
      /\ t.fp = r.fp /\ t.alpn = r.alpn /\ t.vcn = r.vcn
      /\ t.pin = NormalizeCertPin(OrDefault(r.pcs, r.pinSHA256))
      /\ t = [x \in DOMAIN t |-> t[x]]
  BY TLSIs
<1>3. r.peer = Blank /\ r.pinSHA256 = Blank /\ r.sni = s.sni /\ r.fp = s.fp /\ r.alpn = s.alpn /\ r.pcs = s.pin /\ r.vcn = s.vcn
  BY <1>1 DEF SaysSecurity
<1> HIDE DEF s, t
<1>4. t.sni = s.sni
  BY <1>2, <1>3 DEF OrDefault
<1>5. t.pin = s.pin
  <2>1. OrDefault(r.pcs, r.pinSHA256) = s.pin
    BY <1>3 DEF OrDefault
  <2>2. QED
    BY <1>1, <1>2, <2>1, PinIsNormal
<1>6. \A x \in DOMAIN s : t[x] = s[x]
  BY <1>1, <1>2, <1>3, <1>4, <1>5
<1>7. t = s
  BY <1>1, <1>2, <1>6
<1>8. QED
  BY <1>7 DEF s, t

LEMMA SameSecurity ==
  ASSUME NEW q, NEW r, SaysSecurity(r, Security(q))
  PROVE  Security(r) = Security(q)
<1>1. CASE q.security = "reality"
  <2>1. Security(q) = RealitySettings(q)
    BY <1>1, SecurityIs
  <2>2. r.security = "reality" /\ r.peer = Blank
    BY <2>1 DEF SaysSecurity, RealitySettings
  <2>3. Security(r) = RealitySettings(r)
    BY <2>2, SecurityIs
  <2>4. /\ r.sni = OrDefault(q.sni, q.peer) /\ r.fp = q.fp /\ r.pbk = q.pbk
        /\ r.sid = q.sid /\ r.spx = q.spx
    BY <2>1 DEF SaysSecurity, RealitySettings
  <2>5. OrDefault(r.sni, r.peer) = r.sni
    BY <2>2 DEF OrDefault
  <2>6. QED
    BY <2>1, <2>3, <2>4, <2>5 DEF RealitySettings
<1>2. CASE q.security \in {Blank, "none"}
  <2>1. Security(q) = [security |-> Blank]
    BY <1>2, SecurityIs
  <2>2. r.security \in {Blank, "none"}
    BY <2>1 DEF SaysSecurity
  <2>3. QED
    BY <2>1, <2>2, SecurityIs
<1>3. CASE q.security \notin {Blank, "none", "reality"}
  <2>1. Security(q) = ApplyTLS(q, Blank)
    BY <1>3, SecurityIs
  <2>2. r.security = "tls"
    BY <2>1, TLSIs DEF SaysSecurity
  <2>3. Security(r) = ApplyTLS(r, Blank)
    BY <2>2, SecurityIs DEF Blank
  <2>4. QED
    BY <2>1, <2>3, SameTLS
<1>4. QED
  BY <1>1, <1>2, <1>3

\* The query r says of the transport what the stream s of network n has.
SaysTransport(r, n, s) ==
  /\ n \in {"ws", "httpupgrade", "http", "xhttp"} => r.path = s.path /\ r.host = s.host
  /\ n = "xhttp" => r.mode = s.mode \/ (r.mode = Blank /\ s.mode = "auto")
  /\ n = "grpc" => r.serviceName = s.serviceName /\ r.mode = s.mode
  /\ n = "tcp" => IF s.header = "http" THEN r.headerType = "http" /\ r.host = s.host ELSE r.headerType # "http"

\* s has the settings of t.
HasAll(s, t) == \A x \in DOMAIN t : s[x] = t[x]

LEMMA SameTransport ==
  ASSUME NEW q, NEW n, NEW r, NEW s, HasAll(s, Transport(n, q)), SaysTransport(r, n, s)
  PROVE  Transport(n, r) = Transport(n, q)
<1> DEFINE path(k) == OrDefault(k.path, "/")
<1>0. \A v, d : d # Blank => OrDefault(OrDefault(v, d), d) = OrDefault(v, d)
  BY DEF OrDefault
<1>1. CASE n \in {"ws", "httpupgrade", "http"}
  <2>1. \A k : Transport(n, k) = [path |-> path(k), host |-> k.host]
    BY <1>1 DEF Transport
  <2>2. r.path = path(q) /\ r.host = q.host
    BY <1>1, <2>1 DEF SaysTransport, HasAll
  <2>3. path(r) = path(q)
    BY <1>0, <2>2 DEF Blank
  <2>4. QED
    BY <2>1, <2>2, <2>3
<1>2. CASE n = "xhttp"
  <2>1. \A k : Transport(n, k) = [path |-> path(k), host |-> k.host, mode |-> OrDefault(k.mode, "auto")]
    BY <1>2 DEF Transport
  <2>2. /\ r.path = path(q) /\ r.host = q.host
        /\ r.mode = OrDefault(q.mode, "auto") \/ (r.mode = Blank /\ OrDefault(q.mode, "auto") = "auto")
    BY <1>2, <2>1 DEF SaysTransport, HasAll
  <2>3. path(r) = path(q) 
    BY <1>0, <2>2 DEF Blank
  <2>5. OrDefault(r.mode, "auto") = OrDefault(q.mode, "auto")
    BY <2>2 DEF Blank, OrDefault
  <2>4. QED
    BY <2>1, <2>2, <2>3, <2>5
<1>3. CASE n = "grpc"
  <2>1. \A k : Transport(n, k) = [serviceName |-> k.serviceName, mode |-> IF k.mode = "multi" THEN "multi" ELSE Blank]
    BY <1>3 DEF Transport
  <2>2. r.serviceName = q.serviceName /\ r.mode = IF q.mode = "multi" THEN "multi" ELSE Blank
    BY <1>3, <2>1 DEF SaysTransport, HasAll
  <2>3. QED
    BY <2>1, <2>2 DEF Blank
<1>4. CASE n = "tcp" /\ q.headerType = "http"
  <2>1. \A k : k.headerType = "http" => Transport(n, k) = [header |-> "http", host |-> k.host]
    BY <1>4 DEF Transport
  <2>2. r.headerType = "http" /\ r.host = q.host
    BY <1>4, <2>1 DEF SaysTransport, HasAll
  <2>3. QED
    BY <1>4, <2>1, <2>2
<1>5. CASE n = "tcp" /\ q.headerType # "http"
  <2>1. \A k : k.headerType # "http" => Transport(n, k) = [header |-> Blank]
    BY <1>5 DEF Transport
  <2>4. DOMAIN Transport(n, q) = {"header"} /\ Transport(n, q).header = Blank
    BY <1>5, <2>1
  <2>2. r.headerType # "http"
    BY <1>5, <2>4 DEF SaysTransport, HasAll, Blank
  <2>3. QED
    BY <1>5, <2>1, <2>2
<1>6. CASE n \notin {"ws", "httpupgrade", "http", "xhttp", "grpc", "tcp"}
  BY <1>6 DEF Transport
<1>7. QED
  BY <1>1, <1>2, <1>3, <1>4, <1>5, <1>6

(* What a record has that is laid over another.                            *)
LEMMA Extends ==
  ASSUME NEW f, NEW g
  PROVE  /\ DOMAIN (f ++ g) = DOMAIN f \cup DOMAIN g
         /\ \A x \in DOMAIN f : (f ++ g)[x] = f[x]
         /\ \A x \in DOMAIN g \ DOMAIN f : (f ++ g)[x] = g[x]
BY DEF ++

SecurityFields == {"security", "sni", "fp", "alpn", "pin", "vcn", "pbk", "sid", "spx"}
TransportFields == {"path", "host", "mode", "serviceName", "header"}

LEMMA SecurityHas ==
  ASSUME NEW q
  PROVE  /\ DOMAIN Security(q) \subseteq SecurityFields
         /\ \/ /\ Security(q).security = "reality"
               /\ DOMAIN Security(q) = {"security", "sni", "fp", "pbk", "sid", "spx"}
            \/ /\ Security(q).security = "tls"
               /\ DOMAIN Security(q) = {"security", "sni", "fp", "alpn", "pin", "vcn"}
            \/ /\ Security(q).security = Blank
               /\ DOMAIN Security(q) = {"security"}
<1>1. CASE q.security = "reality"
  BY <1>1, SecurityIs DEF RealitySettings, SecurityFields
<1>2. CASE q.security \in {Blank, "none"}
  BY <1>2, SecurityIs DEF SecurityFields
<1>3. CASE q.security \notin {Blank, "none", "reality"}
  BY <1>3, SecurityIs, TLSIs DEF SecurityFields
<1>4. QED
  BY <1>1, <1>2, <1>3

LEMMA TransportHas ==
  ASSUME NEW n, NEW q
  PROVE  DOMAIN Transport(n, q) \subseteq TransportFields
BY DEF Transport, TransportFields

LEMMA StreamHas ==
  ASSUME NEW q, NEW n, n = NormNetwork(q.type)
  PROVE  /\ Stream(BuildStream(q)).network = n
         /\ HasAll(Stream(BuildStream(q)), Security(q))
         /\ HasAll(Stream(BuildStream(q)), Transport(n, q))
         /\ BuildStream(q).security = Security(q).security
<1> DEFINE net == [network |-> n]
           a == net ++ Security(q)
           b == a ++ Transport(n, q)
<1>1. BuildStream(q) = b
  BY DEF BuildStream
<1>2. DOMAIN net = {"network"} /\ net["network"] = n
  OBVIOUS
<1> HIDE DEF net
<1>3. /\ DOMAIN a = {"network"} \cup DOMAIN Security(q)
      /\ a["network"] = n
      /\ \A x \in DOMAIN Security(q) : a[x] = Security(q)[x]
  <2>1. DOMAIN a = DOMAIN net \cup DOMAIN Security(q)
    BY Extends
  <2>2. (\A x \in DOMAIN net : a[x] = net[x]) /\ (\A x \in DOMAIN Security(q) \ DOMAIN net : a[x] = Security(q)[x])
    BY Extends
  <2>3. "network" \notin DOMAIN Security(q)
    BY SecurityHas DEF SecurityFields
  <2> HIDE DEF a
  <2>4. QED
    BY <1>2, <2>1, <2>2, <2>3
<1> HIDE DEF a
<1>4. /\ DOMAIN b = {"network"} \cup DOMAIN Security(q) \cup DOMAIN Transport(n, q)
      /\ b["network"] = n
      /\ \A x \in DOMAIN Security(q) : b[x] = Security(q)[x]
      /\ \A x \in DOMAIN Transport(n, q) : b[x] = Transport(n, q)[x]
  <2>1. DOMAIN b = DOMAIN a \cup DOMAIN Transport(n, q)
    BY Extends
  <2>2. (\A x \in DOMAIN a : b[x] = a[x]) /\ (\A x \in DOMAIN Transport(n, q) \ DOMAIN a : b[x] = Transport(n, q)[x])
    BY Extends
  <2>3. DOMAIN Transport(n, q) \cap DOMAIN a = {}
    BY <1>3, SecurityHas, TransportHas DEF SecurityFields, TransportFields
  <2> HIDE DEF b
  <2>4. QED
    BY <1>3, <2>1, <2>2, <2>3
<1> HIDE DEF b
<1>5. \A x \in DOMAIN b : Stream(b)[x] = b[x]
  BY Extends DEF Stream
<1>6. "security" \in DOMAIN Security(q)
  BY SecurityHas
<1>7. QED
  BY <1>1, <1>4, <1>5, <1>6 DEF HasAll

\* What is said of a stream that has all of another is said of that one.
LEMMA SaysOfPart ==
  ASSUME NEW q, NEW r, NEW s, HasAll(s, Security(q)), SaysSecurity(r, s)
  PROVE  SaysSecurity(r, Security(q))
<1>1. "security" \in DOMAIN Security(q)
  BY SecurityHas
<1>2. s.security = Security(q).security
  BY <1>1 DEF HasAll
<1>3. CASE Security(q).security = "reality"
  BY <1>2, <1>3, SecurityHas DEF HasAll, SaysSecurity, Blank
<1>4. CASE Security(q).security = "tls"
  BY <1>2, <1>4, SecurityHas DEF HasAll, SaysSecurity, Blank
<1>5. CASE Security(q).security = Blank
  BY <1>2, <1>5, SecurityHas DEF HasAll, SaysSecurity, Blank
<1>6. QED
  BY <1>3, <1>4, <1>5, SecurityHas

\* A query that says what a parsed stream has is parsed into that stream.
LEMMA SaidIsBuilt ==
  ASSUME NEW q, NEW r, NEW s, NEW n, n = NormNetwork(q.type), NormNetwork(r.type) = n,
         HasAll(s, Security(q)), HasAll(s, Transport(n, q)),
         SaysSecurity(r, s), SaysTransport(r, n, s)
  PROVE  BuildStream(r) = BuildStream(q)
<1>1. Security(r) = Security(q)
  BY SaysOfPart, SameSecurity
<1>2. Transport(n, r) = Transport(n, q)
  BY SameTransport
<1>3. QED
  BY <1>1, <1>2 DEF BuildStream

(* What a link says of a stream, and what is made of that.                  *)
LEMMA QueryOf ==
  ASSUME NEW f, NEW x \in Params
  PROVE  Query(f)[x] = IF x \in DOMAIN f THEN f[x] ELSE Blank
<1> DEFINE blanks == [p \in Params |-> Blank]
<1>1. DOMAIN blanks = Params /\ blanks[x] = Blank
  OBVIOUS
<1> HIDE DEF blanks
<1>2. Query(f) = f ++ blanks
  BY DEF Query, blanks
<1>3. QED
  BY <1>1, <1>2 DEF ++

LEMMA SecurityQueryHas ==
  ASSUME NEW s, s.security \in {"reality", "tls", Blank}
  PROVE  LET sq == SecurityQuery(s)
         IN  /\ sq.security = s.security
             /\ s.security = "reality" =>
                  /\ DOMAIN sq = {"security", "sni", "fp", "pbk", "sid", "spx"}
                  /\ sq.sni = s.sni /\ sq.fp = s.fp /\ sq.pbk = s.pbk /\ sq.sid = s.sid /\ sq.spx = s.spx
             /\ s.security = "tls" =>
                  /\ DOMAIN sq = {"security", "sni", "fp", "alpn", "pcs", "vcn"}
                  /\ sq.sni = s.sni /\ sq.fp = s.fp /\ sq.alpn = s.alpn /\ sq.pcs = s.pin /\ sq.vcn = s.vcn
             /\ s.security = Blank => DOMAIN sq = {"security"}
<1>1. CASE s.security = "reality"
  BY <1>1 DEF SecurityQuery, Blank
<1>2. CASE s.security = "tls"
  BY <1>2 DEF SecurityQuery, Blank
<1>3. CASE s.security = Blank
  BY <1>3 DEF SecurityQuery, Blank
<1>4. QED
  BY <1>1, <1>2, <1>3

LEMMA TransportQueryHas ==
  ASSUME NEW n, NEW s
  PROVE  LET tq == TransportQuery(n, s)
         IN  /\ DOMAIN tq \subseteq {"path", "host", "mode", "serviceName", "headerType"}
             /\ n \in {"ws", "httpupgrade", "http"} =>
                  DOMAIN tq = {"path", "host"} /\ tq.path = s.path /\ tq.host = s.host
             /\ n = "xhttp" => /\ DOMAIN tq = {"path", "host", "mode"}
                               /\ tq.path = s.path /\ tq.host = s.host /\ tq.mode = s.mode
             /\ n = "grpc" => /\ DOMAIN tq = {"serviceName", "mode"}
                              /\ tq.serviceName = s.serviceName /\ tq.mode = s.mode
             /\ n = "tcp" /\ s.header = "http" =>
                  DOMAIN tq = {"headerType", "host"} /\ tq.headerType = "http" /\ tq.host = s.host
             /\ n = "tcp" /\ s.header # "http" => DOMAIN tq = {"headerType"} /\ tq.headerType = Blank
<1>1. CASE n \in {"ws", "httpupgrade", "http"}
  BY <1>1 DEF TransportQuery
<1>2. CASE n = "xhttp"
  BY <1>2 DEF TransportQuery
<1>3. CASE n = "grpc"
  BY <1>3 DEF TransportQuery
<1>4. CASE n = "tcp" /\ s.header = "http"
  BY <1>4 DEF TransportQuery
<1>5. CASE n = "tcp" /\ s.header # "http"
  BY <1>5 DEF TransportQuery
<1>6. CASE n \notin {"ws", "httpupgrade", "http", "xhttp", "grpc", "tcp"}
  BY <1>6 DEF TransportQuery
<1>7. QED
  BY <1>1, <1>2, <1>3, <1>4, <1>5, <1>6

\* The parameters of a stream's query, one by one.
LEMMA StreamQueryOf ==
  ASSUME NEW s, s.security \in {"reality", "tls", Blank}, NEW n, n = NormNetwork(s.network)
  PROVE  LET sq == SecurityQuery(s)
             tq == TransportQuery(n, s)
         IN  /\ "security" \in DOMAIN StreamQuery(s) /\ StreamQuery(s).security = s.security
             /\ Query(StreamQuery(s)).type = n
             /\ Query(StreamQuery(s)).security = s.security
             /\ \A x \in Params \ {"type"} : Query(StreamQuery(s))[x] =
                  IF x \in DOMAIN sq THEN sq[x] ELSE IF x \in DOMAIN tq THEN tq[x] ELSE Blank
<1> DEFINE sq == SecurityQuery(s)
           tq == TransportQuery(n, s)
           t == [type |-> n]
           a == t ++ sq
           b == a ++ tq
<1>1. StreamQuery(s) = b
  BY DEF StreamQuery
<1>2. DOMAIN t = {"type"} /\ t["type"] = n
  OBVIOUS
<1> HIDE DEF t
<1>3. DOMAIN sq \subseteq {"security", "sni", "fp", "alpn", "pcs", "vcn", "pbk", "sid", "spx"} /\ "security" \in DOMAIN sq
  BY SecurityQueryHas
<1>4. DOMAIN tq \subseteq {"path", "host", "mode", "serviceName", "headerType"}
  BY TransportQueryHas
<1>5. sq.security = s.security
  BY SecurityQueryHas
<1> HIDE DEF sq, tq
<1>6. /\ DOMAIN a = DOMAIN t \cup DOMAIN sq
      /\ \A x \in DOMAIN t : a[x] = t[x]
      /\ \A x \in DOMAIN sq \ DOMAIN t : a[x] = sq[x]
  BY Extends
<1> HIDE DEF a
<1>7. /\ DOMAIN b = DOMAIN a \cup DOMAIN tq
      /\ \A x \in DOMAIN a : b[x] = a[x]
      /\ \A x \in DOMAIN tq \ DOMAIN a : b[x] = tq[x]
  BY Extends
<1> HIDE DEF b
<1>8. "type" \in DOMAIN b /\ b["type"] = n
  BY <1>2, <1>6, <1>7
<1>9. "security" \in DOMAIN b /\ b["security"] = s.security
  BY <1>2, <1>3, <1>5, <1>6, <1>7
<1>10. ASSUME NEW x \in Params \ {"type"}
       PROVE  Query(b)[x] = IF x \in DOMAIN sq THEN sq[x] ELSE IF x \in DOMAIN tq THEN tq[x] ELSE Blank
  <2>1. Query(b)[x] = IF x \in DOMAIN b THEN b[x] ELSE Blank
    BY QueryOf
  <2>2. x \in DOMAIN sq => x \in DOMAIN b /\ b[x] = sq[x]
    BY <1>2, <1>6, <1>7
  <2>3. x \notin DOMAIN sq /\ x \in DOMAIN tq => x \in DOMAIN b /\ b[x] = tq[x]
    BY <1>2, <1>6, <1>7
  <2>4. x \notin DOMAIN sq /\ x \notin DOMAIN tq => x \notin DOMAIN b
    BY <1>2, <1>6, <1>7
  <2>5. QED
    BY <2>1, <2>2, <2>3, <2>4
<1>11. Query(b)["type"] = n
  BY <1>8, QueryOf DEF Params
<1>12. Query(b)["security"] = s.security
  BY <1>9, QueryOf DEF Params
<1>13. QED
  BY <1>1, <1>9, <1>10, <1>11, <1>12 DEF sq, tq

\* What a stream is shown as says what the stream has.
LEMMA StreamQuerySays ==
  ASSUME NEW s, s.security \in {"reality", "tls", Blank}, NEW n, n = NormNetwork(s.network)
  PROVE  LET r == Query(StreamQuery(s))
         IN  SaysSecurity(r, s) /\ SaysTransport(r, n, s)
<1> DEFINE r == Query(StreamQuery(s))
           sq == SecurityQuery(s)
           tq == TransportQuery(n, s)
<1>1. /\ r.type = n /\ r.security = s.security
      /\ \A x \in Params \ {"type"} : r[x] =
           IF x \in DOMAIN sq THEN sq[x] ELSE IF x \in DOMAIN tq THEN tq[x] ELSE Blank
  BY StreamQueryOf
<1>2. DOMAIN sq \subseteq {"security", "sni", "fp", "alpn", "pcs", "vcn", "pbk", "sid", "spx"}
  BY SecurityQueryHas
<1>3. DOMAIN tq \subseteq {"path", "host", "mode", "serviceName", "headerType"}
  BY TransportQueryHas
<1> HIDE DEF r
<1>4. r.peer = Blank /\ r.pinSHA256 = Blank
  BY <1>1, <1>2, <1>3 DEF Params
<1>5. SaysSecurity(r, s)
  <2>0. \A x \in {"sni", "fp", "alpn", "pcs", "vcn", "pbk", "sid", "spx"} :
           x \in DOMAIN sq => r[x] = sq[x]
    BY <1>1 DEF Params
  <2>1. CASE s.security = "reality"
    <3>1. /\ DOMAIN sq = {"security", "sni", "fp", "pbk", "sid", "spx"}
          /\ sq.sni = s.sni /\ sq.fp = s.fp /\ sq.pbk = s.pbk /\ sq.sid = s.sid /\ sq.spx = s.spx
      BY <2>1, SecurityQueryHas
    <3> HIDE DEF sq
    <3>2. r.sni = s.sni /\ r.fp = s.fp /\ r.pbk = s.pbk /\ r.sid = s.sid /\ r.spx = s.spx
      BY <2>0, <3>1
    <3>3. QED
      BY <1>1, <1>4, <2>1, <3>2 DEF SaysSecurity, Blank
  <2>2. CASE s.security = "tls"
    <3>1. /\ DOMAIN sq = {"security", "sni", "fp", "alpn", "pcs", "vcn"}
          /\ sq.sni = s.sni /\ sq.fp = s.fp /\ sq.alpn = s.alpn /\ sq.pcs = s.pin /\ sq.vcn = s.vcn
      BY <2>2, SecurityQueryHas
    <3> HIDE DEF sq
    <3>2. r.sni = s.sni /\ r.fp = s.fp /\ r.alpn = s.alpn /\ r.pcs = s.pin /\ r.vcn = s.vcn
      BY <2>0, <3>1
    <3>3. QED
      BY <1>1, <1>4, <2>2, <3>2 DEF SaysSecurity, Blank
  <2>3. CASE s.security = Blank
    BY <1>1, <1>4, <2>3 DEF SaysSecurity, Blank
  <2>4. QED
    BY <2>1, <2>2, <2>3
<1>6. \A x \in {"path", "host", "mode", "serviceName", "headerType"} :
         r[x] = IF x \in DOMAIN tq THEN tq[x] ELSE Blank
  BY <1>1, <1>2 DEF Params
<1>7. SaysTransport(r, n, s)
  <2>1. CASE n \in {"ws", "httpupgrade", "http"}
    BY <1>6, <2>1, TransportQueryHas DEF SaysTransport
  <2>2. CASE n = "xhttp"
    BY <1>6, <2>2, TransportQueryHas DEF SaysTransport
  <2>3. CASE n = "grpc"
    BY <1>6, <2>3, TransportQueryHas DEF SaysTransport
  <2>4. CASE n = "tcp" /\ s.header = "http"
    BY <1>6, <2>4, TransportQueryHas DEF SaysTransport
  <2>5. CASE n = "tcp" /\ s.header # "http"
    BY <1>6, <2>5, TransportQueryHas DEF SaysTransport, Blank
  <2>6. CASE n \notin {"ws", "httpupgrade", "http", "xhttp", "grpc", "tcp"}
    BY <2>6 DEF SaysTransport
  <2>7. QED
    BY <2>1, <2>2, <2>3, <2>4, <2>5, <2>6
<1>8. QED
  BY <1>5, <1>7 DEF r

\* The stream of a parsed link.
LEMMA ParsedStream ==
  ASSUME NEW q, NEW n, n = NormNetwork(q.type), NEW s, s = Stream(BuildStream(q))
  PROVE  /\ s.security \in {"reality", "tls", Blank} /\ n = NormNetwork(s.network)
         /\ HasAll(s, Security(q)) /\ HasAll(s, Transport(n, q))
<1>1. s.network = n /\ HasAll(s, Security(q)) /\ HasAll(s, Transport(n, q))
  BY StreamHas
<1>2. "security" \in DOMAIN Security(q) /\ Security(q).security \in {"reality", "tls", Blank}
  BY SecurityHas
<1>3. s.security \in {"reality", "tls", Blank}
  BY <1>1, <1>2 DEF HasAll
<1>4. n = NormNetwork(s.network)
  BY <1>1, NetworkIsNormal
<1>5. QED
  BY <1>1, <1>3, <1>4

LEMMA RealityIs ==
  ASSUME NEW q, Security(q).security = "reality"
  PROVE  Security(q) = RealitySettings(q)
<1>1. CASE q.security = "reality"
  BY <1>1, SecurityIs
<1>2. CASE q.security \in {Blank, "none"}
  <2>1. Security(q).security = Blank
    BY <1>2, SecurityIs
  <2>2. QED
    BY <2>1 DEF Blank
<1>3. CASE q.security \notin {Blank, "none", "reality"}
  <2>1. Security(q).security = "tls"
    BY <1>3, SecurityIs, TLSIs
  <2>2. QED
    BY <2>1
<1>4. QED
  BY <1>1, <1>2, <1>3

LEMMA NoSecurityIs ==
  ASSUME NEW q, Security(q).security = Blank
  PROVE  Security(q) = [security |-> Blank]
<1>1. CASE q.security = "reality"
  <2>1. Security(q).security = "reality"
    BY <1>1, SecurityIs DEF RealitySettings
  <2>2. QED
    BY <2>1 DEF Blank
<1>2. CASE q.security \in {Blank, "none"}
  BY <1>2, SecurityIs
<1>3. CASE q.security \notin {Blank, "none", "reality"}
  <2>1. Security(q).security = "tls"
    BY <1>3, SecurityIs, TLSIs
  <2>2. QED
    BY <2>1 DEF Blank
<1>4. QED
  BY <1>1, <1>2, <1>3

\* A query with parameters of its own before those of a stream.
LEMMA QueryOfMore ==
  ASSUME NEW m, NEW f, NEW x \in Params
  PROVE  Query(m ++ f)[x] = IF x \in DOMAIN m THEN m[x] ELSE Query(f)[x]
<1>1. DOMAIN (m ++ f) = DOMAIN m \cup DOMAIN f
  BY Extends
<1>2. Query(m ++ f)[x] = IF x \in DOMAIN (m ++ f) THEN (m ++ f)[x] ELSE Blank
  BY QueryOf
<1>3. Query(f)[x] = IF x \in DOMAIN f THEN f[x] ELSE Blank
  BY QueryOf
<1>4. (x \in DOMAIN m => (m ++ f)[x] = m[x]) /\ (x \in DOMAIN f \ DOMAIN m => (m ++ f)[x] = f[x])
  BY DEF ++
<1>5. QED
  BY <1>1, <1>2, <1>3, <1>4

StreamParams == Params \ {"security", "encryption", "flow", "scy"}

\* Queries with the same parameters about the stream say the same of it.
LEMMA SaysTheSame ==
  ASSUME NEW s, NEW n, NEW r, SaysSecurity(r, s), SaysTransport(r, n, s),
         NEW t, \A x \in StreamParams : t[x] = r[x],
         t.security = r.security \/ (s.security = Blank /\ t.security = "none")
  PROVE  SaysSecurity(t, s) /\ SaysTransport(t, n, s)
<1>1. /\ t.peer = r.peer /\ t.pinSHA256 = r.pinSHA256 /\ t.sni = r.sni /\ t.fp = r.fp /\ t.pbk = r.pbk
      /\ t.sid = r.sid /\ t.spx = r.spx /\ t.alpn = r.alpn /\ t.pcs = r.pcs /\ t.vcn = r.vcn
  BY DEF StreamParams, Params
<1>2. /\ t.path = r.path /\ t.host = r.host /\ t.mode = r.mode
      /\ t.serviceName = r.serviceName /\ t.headerType = r.headerType
  BY DEF StreamParams, Params
<1>3. SaysSecurity(t, s)
  BY <1>1 DEF SaysSecurity, Blank
<1>4. SaysTransport(t, n, s)
  BY <1>2 DEF SaysTransport
<1>5. QED
  BY <1>3, <1>4

(* Protocol by protocol.                                                   *)
LEMMA VLESSRoundTrips ==
  ASSUME NEW l
  PROVE  ParseVLESS(VLESSLink(ParseVLESS(l))) = ParseVLESS(l)
<1> DEFINE q == l.query
           n == NormNetwork(q.type)
           s == Stream(BuildStream(q))
           e == OrDefault(q.encryption, "none")
           m == [encryption |-> OrDefault(e, "none"), flow |-> q.flow]
           r == Query(m ++ StreamQuery(s))
           r0 == Query(StreamQuery(s))
<1>1. VLESSLink(ParseVLESS(l)) = [scheme |-> "vless", address |-> l.address, user |-> l.user, query |-> r]
  BY DEF VLESSLink, ParseVLESS, Outbound, Link
<1>2. OrDefault(e, "none") = e
  BY DEF OrDefault, Blank
<1>3. DOMAIN m = {"encryption", "flow"} /\ m["encryption"] = e /\ m["flow"] = q.flow
  BY <1>2
<1> HIDE DEF m, e
<1>4. \A x \in Params : r[x] = IF x \in DOMAIN m THEN m[x] ELSE r0[x]
  BY QueryOfMore
<1>5. /\ s.security \in {"reality", "tls", Blank} /\ n = NormNetwork(s.network)
      /\ HasAll(s, Security(q)) /\ HasAll(s, Transport(n, q))
  BY ParsedStream
<1> HIDE DEF s, n
<1>6. SaysSecurity(r0, s) /\ SaysTransport(r0, n, s) /\ r0.type = n
  BY <1>5, StreamQuerySays, StreamQueryOf
<1> HIDE DEF r, r0
<1>7. r.encryption = e /\ r.flow = q.flow /\ r.type = r0.type /\ r.security = r0.security
  BY <1>3, <1>4 DEF Params
<1>8. \A x \in StreamParams : r[x] = r0[x]
  BY <1>3, <1>4 DEF StreamParams
<1>9. SaysSecurity(r, s) /\ SaysTransport(r, n, s)
  BY <1>6, <1>7, <1>8, SaysTheSame
<1>10. NormNetwork(r.type) = n /\ n = NormNetwork(q.type)
  BY <1>6, <1>7, NetworkIsNormal DEF n
<1>11. BuildStream(r) = BuildStream(q)
  BY <1>5, <1>9, <1>10, SaidIsBuilt
<1>12. OrDefault(r.encryption, "none") = e
  BY <1>2, <1>7
<1>13. QED
  BY <1>1, <1>7, <1>11, <1>12 DEF ParseVLESS, e

LEMMA VMessRoundTrips ==
  ASSUME NEW l
  PROVE  ParseVMess(VMessLink(ParseVMess(l))) = ParseVMess(l)
<1> DEFINE Said == {"type", "security", "host", "path", "sni", "fp", "alpn", "pcs", "vcn", "headerType"}
           Of(k) == [p \in Params |-> IF p = "serviceName" THEN k.path
                                      ELSE IF p \in Said THEN k[p] ELSE Blank]
           q == Of(l.query)
           n == NormNetwork(q.type)
           s == Stream(BuildStream(q))
           a == OrDefault(l.query.scy, "auto")
           r0 == Query(StreamQuery(s))
           path == IF r0.type = "grpc" THEN r0.serviceName ELSE r0.path
           m == [scy |-> OrDefault(a, "auto"), path |-> path, headerType |-> OrDefault(r0.headerType, "none"),
                 type |-> r0.type, host |-> r0.host, security |-> r0.security, sni |-> r0.sni, alpn |-> r0.alpn,
                 fp |-> r0.fp, pcs |-> r0.pcs, vcn |-> r0.vcn]
           k == Query(m)
           r == Of(k)
<1>0. \A j : ParseVMess(j) = Outbound("vmess", j.address, j.user, <<OrDefault(j.query.scy, "auto")>>, BuildStream(Of(j.query)))
  BY DEF ParseVMess
<1>1. VMessLink(ParseVMess(l)) = [scheme |-> "vmess", address |-> l.address, user |-> l.user, query |-> k]
  BY DEF VMessLink, ParseVMess, Outbound, Link
<1>2. OrDefault(a, "auto") = a
  BY DEF OrDefault, Blank
<1>3. /\ k.scy = a /\ k.path = path /\ k.headerType = OrDefault(r0.headerType, "none")
      /\ k.type = r0.type /\ k.host = r0.host /\ k.security = r0.security /\ k.sni = r0.sni /\ k.alpn = r0.alpn
      /\ k.fp = r0.fp /\ k.pcs = r0.pcs /\ k.vcn = r0.vcn
  <2>1. /\ DOMAIN m = {"scy", "path", "headerType", "type", "host", "security", "sni", "alpn", "fp", "pcs", "vcn"}
        /\ m.scy = a /\ m.path = path /\ m.headerType = OrDefault(r0.headerType, "none")
        /\ m.type = r0.type /\ m.host = r0.host /\ m.security = r0.security /\ m.sni = r0.sni /\ m.alpn = r0.alpn
        /\ m.fp = r0.fp /\ m.pcs = r0.pcs /\ m.vcn = r0.vcn
    BY <1>2
  <2> HIDE DEF m
  <2>2. \A x \in DOMAIN m : k[x] = m[x]
    BY <2>1, QueryOf DEF Params
  <2> HIDE DEF k
  <2>3. QED
    BY <2>1, <2>2
<1>4. /\ s.security \in {"reality", "tls", Blank} /\ n = NormNetwork(s.network)
      /\ HasAll(s, Security(q)) /\ HasAll(s, Transport(n, q))
  BY ParsedStream
<1>5. SaysSecurity(r0, s) /\ SaysTransport(r0, n, s) /\ r0.type = n
  BY <1>4, StreamQuerySays, StreamQueryOf
<1>6. /\ q.peer = Blank /\ q.pbk = Blank /\ q.sid = Blank /\ q.spx = Blank /\ q.mode = Blank
  BY DEF Params
<1>7. /\ r.peer = Blank /\ r.pinSHA256 = Blank /\ r.pbk = Blank /\ r.sid = Blank /\ r.spx = Blank /\ r.mode = Blank
      /\ r.serviceName = k.path
      /\ r.type = k.type /\ r.security = k.security /\ r.host = k.host /\ r.path = k.path /\ r.sni = k.sni
      /\ r.fp = k.fp /\ r.alpn = k.alpn /\ r.pcs = k.pcs /\ r.vcn = k.vcn /\ r.headerType = k.headerType
  BY DEF Params
<1>8. s.security = "reality" => s.pbk = Blank /\ s.sid = Blank /\ s.spx = Blank
  <2> SUFFICES ASSUME s.security = "reality" PROVE s.pbk = Blank /\ s.sid = Blank /\ s.spx = Blank
    OBVIOUS
  <2>1. Security(q).security = "reality"
    BY <1>4, SecurityHas DEF HasAll
  <2>2. Security(q) = RealitySettings(q)
    BY <2>1, RealityIs
  <2> HIDE DEF s, n, q
  <2>3. QED
    BY <1>4, <1>6, <2>2 DEF RealitySettings, HasAll
<1>9. n = "xhttp" => s.mode = "auto"
  <2> SUFFICES ASSUME n = "xhttp" PROVE s.mode = "auto"
    OBVIOUS
  <2> HIDE DEF s, n, q
  <2>1. Transport(n, q) = [path |-> OrDefault(q.path, "/"), host |-> q.host, mode |-> OrDefault(q.mode, "auto")]
    BY DEF Transport
  <2>2. QED
    BY <1>4, <1>6, <2>1 DEF HasAll, OrDefault
<1>10. n = "grpc" => s.mode = Blank
  <2> SUFFICES ASSUME n = "grpc" PROVE s.mode = Blank
    OBVIOUS
  <2> HIDE DEF s, n, q
  <2>1. Transport(n, q) = [serviceName |-> q.serviceName, mode |-> IF q.mode = "multi" THEN "multi" ELSE Blank]
    BY DEF Transport
  <2>4. q.mode # "multi"
    BY <1>6 DEF Blank
  <2>2. Transport(n, q).mode = Blank /\ "mode" \in DOMAIN Transport(n, q)
    BY <2>1, <2>4
  <2>3. QED
    BY <1>4, <2>2 DEF HasAll
<1> HIDE DEF s, n, q, r0, k, r
<1>11. SaysSecurity(r, s)
  BY <1>3, <1>5, <1>7, <1>8 DEF SaysSecurity, Blank
<1>12. SaysTransport(r, n, s)
  <2>1. CASE n \in {"ws", "httpupgrade", "http"}
    BY <1>3, <1>5, <1>7, <2>1 DEF SaysTransport
  <2>2. CASE n = "xhttp"
    BY <1>3, <1>5, <1>7, <1>9, <2>2 DEF SaysTransport
  <2>3. CASE n = "grpc"
    BY <1>3, <1>5, <1>7, <1>10, <2>3 DEF SaysTransport
  <2>4. CASE n = "tcp" /\ s.header = "http"
    BY <1>3, <1>5, <1>7, <2>4 DEF SaysTransport, OrDefault, Blank
  <2>5. CASE n = "tcp" /\ s.header # "http"
    BY <1>3, <1>5, <1>7, <2>5 DEF SaysTransport, OrDefault, Blank
  <2>6. CASE n \notin {"ws", "httpupgrade", "http", "xhttp", "grpc", "tcp"}
    BY <2>6 DEF SaysTransport
  <2>7. QED
    BY <2>1, <2>2, <2>3, <2>4, <2>5, <2>6
<1>13. NormNetwork(r.type) = n /\ n = NormNetwork(q.type)
  BY <1>3, <1>5, <1>7, NetworkIsNormal DEF n
<1>14. BuildStream(r) = BuildStream(q)
  BY <1>4, <1>11, <1>12, <1>13, SaidIsBuilt
<1>15. OrDefault(k.scy, "auto") = a
  BY <1>2, <1>3
<1>16. ParseVMess(VMessLink(ParseVMess(l))) = Outbound("vmess", l.address, l.user, <<OrDefault(k.scy, "auto")>>, BuildStream(r))
  BY <1>0, <1>1 DEF r
<1>17. ParseVMess(l) = Outbound("vmess", l.address, l.user, <<a>>, BuildStream(q))
  BY <1>0 DEF q
<1>18. QED
  BY <1>14, <1>15, <1>16, <1>17

LEMMA ExtendsInTurn ==
  ASSUME NEW a, NEW t, NEW b, NEW c, DOMAIN a \cap DOMAIN t = {}, DOMAIN b \subseteq DOMAIN t
  PROVE  a ++ t ++ c = t ++ (a ++ b ++ c)
<1> DEFINE left == (a ++ t) ++ c
           right == t ++ ((a ++ b) ++ c)
<1>1. /\ DOMAIN (a ++ t) = DOMAIN a \cup DOMAIN t
      /\ DOMAIN (a ++ b) = DOMAIN a \cup DOMAIN b
      /\ DOMAIN left = DOMAIN (a ++ t) \cup DOMAIN c
      /\ DOMAIN ((a ++ b) ++ c) = DOMAIN (a ++ b) \cup DOMAIN c
      /\ DOMAIN right = DOMAIN t \cup DOMAIN ((a ++ b) ++ c)
  BY DEF ++
<1>2. DOMAIN left = DOMAIN right
  BY <1>1
<1>3. ASSUME NEW x \in DOMAIN left PROVE left[x] = right[x]
  <2>1. CASE x \in DOMAIN t
    <3>1. (a ++ t)[x] = t[x] /\ x \in DOMAIN (a ++ t)
      BY <1>1, <2>1 DEF ++
    <3>2. left[x] = (a ++ t)[x]
      BY <1>1, <3>1 DEF ++
    <3>3. right[x] = t[x]
      BY <1>1, <2>1 DEF ++
    <3>4. QED
      BY <3>1, <3>2, <3>3
  <2>2. CASE x \in DOMAIN a
    <3>1. (a ++ t)[x] = a[x] /\ (a ++ b)[x] = a[x]
      BY <1>1, <2>2 DEF ++
    <3>2. left[x] = a[x] /\ ((a ++ b) ++ c)[x] = a[x]
      BY <1>1, <2>2, <3>1 DEF ++
    <3>3. right[x] = ((a ++ b) ++ c)[x]
      BY <1>1, <2>2 DEF ++
    <3>4. QED
      BY <3>2, <3>3
  <2>3. CASE x \notin DOMAIN t /\ x \notin DOMAIN a
    <3>1. left[x] = c[x] /\ ((a ++ b) ++ c)[x] = c[x]
      BY <1>1, <2>3 DEF ++
    <3>2. right[x] = ((a ++ b) ++ c)[x]
      BY <1>1, <2>3 DEF ++
    <3>3. QED
      BY <3>1, <3>2
  <2>4. QED
    BY <2>1, <2>2, <2>3
<1>4. left = [x \in DOMAIN left |-> left[x]] /\ right = [x \in DOMAIN right |-> right[x]]
  BY DEF ++
<1> HIDE DEF left, right
<1>5. left = right
  BY <1>2, <1>3, <1>4
<1>6. QED
  BY <1>5 DEF left, right

\* TLS in a stream that had none.
LEMMA TLSStream ==
  ASSUME NEW q, NEW n, n = NormNetwork(q.type), Security(q) = [security |-> Blank], NEW fallback,
         NEW t, t = ApplyTLS(q, fallback)
  PROVE  /\ t ++ BuildStream(q) = [network |-> n] ++ t ++ Transport(n, q)
         /\ LET s == Stream(t ++ BuildStream(q))
            IN  s.network = n /\ s.security = "tls" /\ HasAll(s, t) /\ HasAll(s, Transport(n, q))
<1> DEFINE net == [network |-> n]
           b == [security |-> Blank]
           c == Transport(n, q)
           at == net ++ t
           all == at ++ c
           s == Stream(all)
<1>1. DOMAIN net = {"network"} /\ net["network"] = n
  OBVIOUS
<1>2. DOMAIN b = {"security"}
  OBVIOUS
<1>3. DOMAIN t = {"security", "sni", "fp", "alpn", "pin", "vcn"} /\ t.security = "tls"
  BY TLSIs
<1>4. DOMAIN c \subseteq TransportFields
  BY TransportHas
<1>5. BuildStream(q) = net ++ b ++ c
  BY DEF BuildStream
<1> HIDE DEF net, b, c
<1>6. all = t ++ BuildStream(q)
  <2>1. DOMAIN net \cap DOMAIN t = {} /\ DOMAIN b \subseteq DOMAIN t
    BY <1>1, <1>2, <1>3
  <2>2. QED
    BY <1>5, <2>1, ExtendsInTurn
<1>7. DOMAIN at = {"network"} \cup DOMAIN t /\ at["network"] = n /\ \A x \in DOMAIN t : at[x] = t[x]
  <2>1. DOMAIN at = DOMAIN net \cup DOMAIN t
    BY Extends
  <2>2. (\A x \in DOMAIN net : at[x] = net[x]) /\ (\A x \in DOMAIN t \ DOMAIN net : at[x] = t[x])
    BY DEF ++
  <2> HIDE DEF at
  <2>3. QED
    BY <1>1, <1>3, <2>1, <2>2
<1> HIDE DEF at
<1>8. /\ DOMAIN all = DOMAIN at \cup DOMAIN c
      /\ (\A x \in DOMAIN at : all[x] = at[x]) /\ (\A x \in DOMAIN c \ DOMAIN at : all[x] = c[x])
  BY DEF ++
<1> HIDE DEF all
<1>9. \A x \in DOMAIN all : s[x] = all[x]
  BY Extends DEF Stream
<1> HIDE DEF s
<1>10. DOMAIN at \cap DOMAIN c = {}
  BY <1>3, <1>4, <1>7 DEF TransportFields
<1>11. s.network = n
  BY <1>7, <1>8, <1>9
<1>12. HasAll(s, t)
  BY <1>7, <1>8, <1>9 DEF HasAll
<1>13. HasAll(s, c)
  BY <1>8, <1>9, <1>10 DEF HasAll
<1>14. s.security = "tls"
  BY <1>3, <1>12 DEF HasAll
<1>15. all = [network |-> n] ++ t ++ Transport(n, q)
  BY DEF all, at, net, c
<1>16. QED
  BY <1>6, <1>11, <1>12, <1>13, <1>14, <1>15 DEF s, c

\* The link of a trojan outbound says of security what its stream has.
LEMMA TrojanLinkSays ==
  ASSUME NEW s, s.security \in {"reality", "tls"}, NEW n, n = NormNetwork(s.network),
         NEW r, r = Query([security |-> OrDefault(StreamQuery(s).security, "none")] ++ StreamQuery(s))
  PROVE  r.type = n /\ r.security = s.security /\ SaysSecurity(r, s) /\ SaysTransport(r, n, s)
<1> DEFINE m == [security |-> OrDefault(StreamQuery(s).security, "none")]
           f == StreamQuery(s)
           r0 == Query(f)
<1>1. r0.type = n /\ r0.security = s.security /\ f.security = s.security
  BY StreamQueryOf
<1>2. SaysSecurity(r0, s) /\ SaysTransport(r0, n, s)
  BY StreamQuerySays
<1>3. DOMAIN m = {"security"} /\ m["security"] = s.security
  BY <1>1 DEF OrDefault, Blank
<1> HIDE DEF m, f
<1>4. \A x \in Params : r[x] = IF x \in DOMAIN m THEN m[x] ELSE r0[x]
  BY QueryOfMore DEF m, f
<1> HIDE DEF r0
<1>5. r.security = s.security /\ r.type = n
  BY <1>1, <1>3, <1>4 DEF Params
<1>6. \A x \in StreamParams : r[x] = r0[x]
  BY <1>3, <1>4 DEF StreamParams
<1>7. SaysSecurity(r, s) /\ SaysTransport(r, n, s)
  BY <1>1, <1>2, <1>5, <1>6, SaysTheSame
<1>8. QED
  BY <1>5, <1>7

LEMMA TrojanRoundTrips ==
  ASSUME NEW l
  PROVE  ParseTrojan(TrojanLink(ParseTrojan(l))) = ParseTrojan(l)
<1> DEFINE q == l.query
           n == NormNetwork(q.type)
           t == ApplyTLS(q, l.address[1])
           StreamOf(k, a) == IF BuildStream(k).security # Blank THEN BuildStream(k) ELSE ApplyTLS(k, a) ++ BuildStream(k)
           s == Stream(StreamOf(q, l.address[1]))
           r == Query([security |-> OrDefault(StreamQuery(s).security, "none")] ++ StreamQuery(s))
           k == TrojanLink(ParseTrojan(l))
<1>1. \A j : ParseTrojan(j) = Outbound("trojan", j.address, j.user, <<>>, StreamOf(j.query, j.address[1]))
  BY DEF ParseTrojan
<1>2. k = [scheme |-> "trojan", address |-> l.address, user |-> l.user, query |-> r]
  BY <1>1 DEF TrojanLink, Outbound, Link
<1>3. /\ ParseTrojan(l) = Outbound("trojan", l.address, l.user, <<>>, StreamOf(q, l.address[1]))
      /\ ParseTrojan(k) = Outbound("trojan", l.address, l.user, <<>>, StreamOf(r, l.address[1]))
  <2> HIDE DEF k, r, StreamOf
  <2>1. QED
    BY <1>1, <1>2
<1>4. BuildStream(q).security = Security(q).security
  BY StreamHas
<1>5. NormNetwork(n) = n
  BY NetworkIsNormal
<1>6. StreamOf(r, l.address[1]) = StreamOf(q, l.address[1])
  <2>1. CASE BuildStream(q).security # Blank
    <3>1. s = Stream(BuildStream(q))
      BY <2>1
    <3> HIDE DEF s
    <3>2. /\ s.security \in {"reality", "tls", Blank} /\ n = NormNetwork(s.network)
          /\ HasAll(s, Security(q)) /\ HasAll(s, Transport(n, q))
      BY <3>1, ParsedStream
    <3>3. "security" \in DOMAIN Security(q)
      BY SecurityHas
    <3>4. s.security = BuildStream(q).security
      BY <1>4, <3>2, <3>3 DEF HasAll
    <3>5. s.security \in {"reality", "tls"}
      BY <2>1, <3>2, <3>4
    <3>6. r.type = n /\ SaysSecurity(r, s) /\ SaysTransport(r, n, s)
      BY <3>2, <3>5, TrojanLinkSays
    <3> HIDE DEF r
    <3>7. BuildStream(r) = BuildStream(q)
      BY <1>5, <3>2, <3>6, SaidIsBuilt
    <3>8. QED
      BY <2>1, <3>7
  <2>2. CASE BuildStream(q).security = Blank
    <3>1. Security(q) = [security |-> Blank]
      <4>1. Security(q).security = Blank
        BY <1>4, <2>2
      <4>2. QED
        BY <4>1, NoSecurityIs
    <3>2. s = Stream(t ++ BuildStream(q))
      BY <2>2
    <3>3. /\ t ++ BuildStream(q) = [network |-> n] ++ t ++ Transport(n, q)
          /\ s.network = n /\ s.security = "tls" /\ HasAll(s, t) /\ HasAll(s, Transport(n, q))
      BY <3>1, <3>2, TLSStream
    <3> HIDE DEF s
    <3>4. r.type = n /\ r.security = "tls" /\ SaysSecurity(r, s) /\ SaysTransport(r, n, s)
      BY <1>5, <3>3, TrojanLinkSays
    <3> HIDE DEF r
    <3>5. DOMAIN t = {"security", "sni", "fp", "alpn", "pin", "vcn"} /\ t.security = "tls"
      BY TLSIs
    <3> HIDE DEF t
    <3>6. SaysSecurity(r, t)
      BY <3>3, <3>4, <3>5 DEF SaysSecurity, HasAll, Blank
    <3>7. ApplyTLS(r, Blank) = t
      BY <3>6, SameTLS DEF t
    <3>8. Security(r) = t
      BY <3>4, <3>7, SecurityIs DEF Blank
    <3>9. Transport(n, r) = Transport(n, q)
      BY <3>3, <3>4, SameTransport
    <3>10. BuildStream(r) = [network |-> n] ++ t ++ Transport(n, q)
      BY <1>5, <3>4, <3>8, <3>9 DEF BuildStream
    <3>11. BuildStream(r).security # Blank
      <4>1. BuildStream(r).security = "tls"
        BY <3>5, <3>8, StreamHas
      <4>2. QED
        BY <4>1 DEF Blank
    <3>12. StreamOf(r, l.address[1]) = [network |-> n] ++ t ++ Transport(n, q)
      BY <3>10, <3>11
    <3>13. StreamOf(q, l.address[1]) = [network |-> n] ++ t ++ Transport(n, q)
      BY <2>2, <3>3 DEF t
    <3>14. QED
      BY <3>12, <3>13
  <2>3. QED
    BY <2>1, <2>2
<1> HIDE DEF StreamOf, k, r, q
<1>7. QED
  BY <1>3, <1>6 DEF k

LEMMA Hysteria2RoundTrips ==
  ASSUME NEW l
  PROVE  ParseHysteria2(Hysteria2Link(ParseHysteria2(l))) = [ParseHysteria2(l) EXCEPT !.stream.vcn = Blank]
<1> DEFINE q == l.query
           Node(p, v, sni) == [pin |-> p, vcn |-> v] ++ [network |-> "hysteria", security |-> "tls", sni |-> sni]
           p == NormalizeCertPin(OrDefault(q.pcs, q.pinSHA256))
           s == Stream(Node(p, q.vcn, q.sni))
           r == Query([sni |-> s.sni, pinSHA256 |-> s.pin])
           k == Hysteria2Link(ParseHysteria2(l))
<1>1. \A j : ParseHysteria2(j) =
               Outbound("hysteria", j.address, j.user, <<>>,
                        Node(NormalizeCertPin(OrDefault(j.query.pcs, j.query.pinSHA256)), j.query.vcn, j.query.sni))
  BY DEF ParseHysteria2, CertPin
<1>2. k = [scheme |-> "hysteria2", address |-> l.address, user |-> l.user, query |-> r]
  BY <1>1 DEF Hysteria2Link, Outbound, Link
<1>3. \A a, v, i : /\ DOMAIN Stream(Node(a, v, i)) = Settings
                   /\ Stream(Node(a, v, i)).pin = a /\ Stream(Node(a, v, i)).vcn = v /\ Stream(Node(a, v, i)).sni = i
                   /\ Stream(Node(a, v, i)).network = "hysteria" /\ Stream(Node(a, v, i)).security = "tls"
                   /\ \A x \in Settings \ {"pin", "vcn", "sni", "network", "security"} : Stream(Node(a, v, i))[x] = Blank
                   /\ Stream(Node(a, v, i)) = [x \in Settings |-> Stream(Node(a, v, i))[x]]
  <2> SUFFICES ASSUME NEW a, NEW v, NEW i
      PROVE  /\ DOMAIN Stream(Node(a, v, i)) = Settings
             /\ Stream(Node(a, v, i)).pin = a /\ Stream(Node(a, v, i)).vcn = v /\ Stream(Node(a, v, i)).sni = i
             /\ Stream(Node(a, v, i)).network = "hysteria" /\ Stream(Node(a, v, i)).security = "tls"
             /\ \A x \in Settings \ {"pin", "vcn", "sni", "network", "security"} : Stream(Node(a, v, i))[x] = Blank
             /\ Stream(Node(a, v, i)) = [x \in Settings |-> Stream(Node(a, v, i))[x]]
    OBVIOUS
  <2> DEFINE f == Node(a, v, i)
             g == [x \in Settings |-> Blank]
  <2>1. DOMAIN f = {"pin", "vcn", "network", "security", "sni"}
    BY DEF ++
  <2>2. f.pin = a /\ f.vcn = v /\ f.sni = i /\ f.network = "hysteria" /\ f.security = "tls"
    BY DEF ++
  <2> HIDE DEF Node
  <2>3. DOMAIN g = Settings /\ \A x \in Settings : g[x] = Blank
    OBVIOUS
  <2>4. Stream(f) = f ++ g
    BY DEF Stream
  <2> HIDE DEF f, g
  <2>5. /\ DOMAIN Stream(f) = Settings
        /\ \A x \in DOMAIN f : Stream(f)[x] = f[x]
        /\ \A x \in Settings \ DOMAIN f : Stream(f)[x] = Blank
        /\ Stream(f) = [x \in Settings |-> Stream(f)[x]]
    <3>1. DOMAIN f \cup DOMAIN g = Settings
      BY <2>1, <2>3 DEF Settings
    <3>2. Stream(f) = [x \in Settings |-> IF x \in DOMAIN f THEN f[x] ELSE g[x]]
      BY <2>4, <3>1 DEF ++
    <3>3. QED
      BY <2>1, <2>3, <3>1, <3>2
  <2>6. QED
    BY <2>1, <2>2, <2>5 DEF f
<1> HIDE DEF Node
<1>4. s.pin = p /\ s.sni = q.sni
  BY <1>3
<1> HIDE DEF s
<1>5. r.sni = q.sni /\ r.pinSHA256 = p /\ r.pcs = Blank /\ r.vcn = Blank
  BY <1>4, QueryOf DEF Params
<1>6. NormalizeCertPin(OrDefault(r.pcs, r.pinSHA256)) = p
  BY <1>5, PinIsNormal DEF OrDefault
<1> HIDE DEF r, k, p
<1>7. ParseHysteria2(k) = Outbound("hysteria", l.address, l.user, <<>>, Node(p, Blank, q.sni))
  BY <1>1, <1>2, <1>5, <1>6
<1>8. ParseHysteria2(l) = Outbound("hysteria", l.address, l.user, <<>>, Node(p, q.vcn, q.sni))
  BY <1>1 DEF p
<1>9. Stream(Node(p, Blank, q.sni)) = [Stream(Node(p, q.vcn, q.sni)) EXCEPT !.vcn = Blank]
  <2> DEFINE u == Stream(Node(p, Blank, q.sni))
             v == Stream(Node(p, q.vcn, q.sni))
  <2>1. /\ DOMAIN u = Settings /\ u = [x \in Settings |-> u[x]] /\ DOMAIN v = Settings /\ v = [x \in Settings |-> v[x]]
        /\ u.pin = v.pin /\ u.sni = v.sni /\ u.network = v.network /\ u.security = v.security /\ u.vcn = Blank
        /\ \A x \in Settings \ {"pin", "vcn", "sni", "network", "security"} : u[x] = v[x]
    BY <1>3
  <2> HIDE DEF u, v
  <2>2. \A x \in Settings : u[x] = [v EXCEPT !.vcn = Blank][x]
    BY <2>1 DEF Settings
  <2>3. u = [v EXCEPT !.vcn = Blank]
    BY <2>1, <2>2
  <2>4. QED
    BY <2>3 DEF u, v
<1>10. QED
  BY <1>7, <1>8, <1>9 DEF Outbound, k

LEMMA SSRoundTrips ==
  ASSUME NEW l
  PROVE  LET o == ParseSS(l)
         IN  ParseSS(Link("ss", o.address, o.user, [type |-> Blank])) = o
BY DEF ParseSS, Link, Outbound

\* What a node is kept as: all of it, but for the name a hysteria certificate
\* is checked by.
\* A node but for what its link has no word for.
AsRead(o) == IF o.protocol = "hysteria" THEN [o EXCEPT !.stream.vcn = Blank] ELSE o

(* Whatever link a node was read from, the link it is shown as is read back *)
(* as the same node, but for the name a hysteria node verifies.             *)
THEOREM LinksRoundTrip ==
  ASSUME NEW l, ParseLink(l) # None
  PROVE  ParseLink(OutboundLink(ParseLink(l))) = AsRead(ParseLink(l))
<1>1. l.scheme \in Schemes /\ l.address # <<>> /\ l.user # Blank
  BY DEF ParseLink
<1> DEFINE o == ParseLink(l)
<1>2. \A j : j.address = l.address /\ j.user = l.user =>
        /\ j.scheme = "vless" => ParseLink(j) = ParseVLESS(j)
        /\ j.scheme = "trojan" => ParseLink(j) = ParseTrojan(j)
        /\ j.scheme = "hysteria2" => ParseLink(j) = ParseHysteria2(j)
        /\ j.scheme = "vmess" => ParseLink(j) = ParseVMess(j)
        /\ j.scheme = "ss" => ParseLink(j) = ParseSS(j)
  BY <1>1 DEF ParseLink, Schemes
<1>3. CASE l.scheme = "vless"
  <2>1. o = ParseVLESS(l)
    BY <1>2, <1>3
  <2>2. o.protocol = "vless" /\ OutboundLink(o) = VLESSLink(o)
    BY <2>1 DEF ParseVLESS, Outbound, OutboundLink
  <2>3. VLESSLink(o).scheme = "vless" /\ VLESSLink(o).address = l.address /\ VLESSLink(o).user = l.user
    BY <2>1 DEF VLESSLink, ParseVLESS, Outbound, Link
  <2> HIDE DEF o
  <2>4. ParseLink(VLESSLink(o)) = ParseVLESS(VLESSLink(o))
    BY <1>2, <2>3
  <2>5. ParseVLESS(VLESSLink(o)) = o
    BY <2>1, VLESSRoundTrips
  <2>6. QED
    BY <2>2, <2>4, <2>5 DEF AsRead, o
<1>4. CASE l.scheme = "trojan"
  <2>1. o = ParseTrojan(l)
    BY <1>2, <1>4
  <2>2. o.protocol = "trojan" /\ OutboundLink(o) = TrojanLink(o)
    BY <2>1 DEF ParseTrojan, Outbound, OutboundLink
  <2>3. TrojanLink(o).scheme = "trojan" /\ TrojanLink(o).address = l.address /\ TrojanLink(o).user = l.user
    BY <2>1 DEF TrojanLink, ParseTrojan, Outbound, Link
  <2> HIDE DEF o
  <2>4. ParseLink(TrojanLink(o)) = ParseTrojan(TrojanLink(o))
    BY <1>2, <2>3
  <2>5. ParseTrojan(TrojanLink(o)) = o
    BY <2>1, TrojanRoundTrips
  <2>6. QED
    BY <2>2, <2>4, <2>5 DEF AsRead, o
<1>5. CASE l.scheme = "hysteria2"
  <2>1. o = ParseHysteria2(l)
    BY <1>2, <1>5
  <2>2. o.protocol = "hysteria" /\ OutboundLink(o) = Hysteria2Link(o)
    BY <2>1 DEF ParseHysteria2, Outbound, OutboundLink
  <2>3. Hysteria2Link(o).scheme = "hysteria2" /\ Hysteria2Link(o).address = l.address /\ Hysteria2Link(o).user = l.user
    BY <2>1 DEF Hysteria2Link, ParseHysteria2, Outbound, Link
  <2> HIDE DEF o
  <2>4. ParseLink(Hysteria2Link(o)) = ParseHysteria2(Hysteria2Link(o))
    BY <1>2, <2>3
  <2>5. ParseHysteria2(Hysteria2Link(o)) = [o EXCEPT !.stream.vcn = Blank]
    BY <2>1, Hysteria2RoundTrips
  <2>6. QED
    BY <2>2, <2>4, <2>5 DEF AsRead, o
<1>6. CASE l.scheme = "vmess"
  <2>1. o = ParseVMess(l)
    BY <1>2, <1>6
  <2>2. o.protocol = "vmess" /\ OutboundLink(o) = VMessLink(o)
    BY <2>1 DEF ParseVMess, Outbound, OutboundLink
  <2>3. VMessLink(o).scheme = "vmess" /\ VMessLink(o).address = l.address /\ VMessLink(o).user = l.user
    BY <2>1 DEF VMessLink, ParseVMess, Outbound, Link
  <2> HIDE DEF o
  <2>4. ParseLink(VMessLink(o)) = ParseVMess(VMessLink(o))
    BY <1>2, <2>3
  <2>5. ParseVMess(VMessLink(o)) = o
    BY <2>1, VMessRoundTrips
  <2>6. QED
    BY <2>2, <2>4, <2>5 DEF AsRead, o
<1>7. CASE l.scheme = "ss"
  <2> DEFINE k == Link("ss", o.address, o.user, [type |-> Blank])
  <2>1. o = ParseSS(l)
    BY <1>2, <1>7
  <2>2. o.protocol = "shadowsocks" /\ OutboundLink(o) = k
    BY <2>1 DEF ParseSS, Outbound, OutboundLink
  <2>3. k.scheme = "ss" /\ k.address = l.address /\ k.user = l.user
    BY <2>1 DEF ParseSS, Outbound, Link
  <2> HIDE DEF o, k
  <2>4. ParseLink(k) = ParseSS(k)
    BY <1>2, <2>3
  <2>5. ParseSS(k) = o
    BY <2>1, SSRoundTrips DEF k
  <2>6. QED
    BY <2>2, <2>4, <2>5 DEF AsRead, o
<1>8. QED
  BY <1>1, <1>3, <1>4, <1>5, <1>6, <1>7 DEF Schemes

-----------------------------------------------------------------------------
(* Bodies.                                                                 *)

\* One more line of a body.
ParsedLine(nodes, link) ==
  LET o == ParseLink(link)
  IN  IF o = None \/ o \in ToSet(nodes) THEN nodes ELSE Append(nodes, o)

LEMMA BodyLineByLine ==
  ASSUME NEW X, NEW s \in Seq(X), NEW R, <<>> \in R, \A x \in X : \A a \in R : ParsedLine(a, x) \in R
  PROVE  ParseSubscriptionBody(s) \in R
<1> DEFINE N == Len(s)
           AddOne(a, x) == ParsedLine(a, x)
           Do == [n \in 1 .. N |-> [a \in R |-> AddOne(a, s[n])]]
           Body(it) == [t \in SUBSET DOMAIN s |->
                          IF t = {} THEN <<>> ELSE AddOne(it[t \ {Max(t)}], s[Max(t)])]
           g == CHOOSE it : it = Body(it)
<1>1. N \in Nat /\ DOMAIN s = 1 .. N
  OBVIOUS
<1>2. \A n \in 1 .. N : \A a \in R : AddOne(a, s[n]) \in R
  OBVIOUS
<1>3. Do \in Steps(N, R)
  BY <1>2 DEF Steps
<1>4. \A n \in 1 .. N : \A a \in R : Do[n][a] = AddOne(a, s[n])
  OBVIOUS
<1> HIDE DEF N, AddOne, Do
<1>5. PICK it : Folds(it, N, R, <<>>, Do)
  BY <1>1, <1>3, FoldExists
<1>6. it = Body(it)
  <2>1. it \in [SUBSET (1 .. N) -> R] /\ it[{}] = <<>>
    BY <1>5 DEF Folds
  <2>2. ASSUME NEW t \in SUBSET (1 .. N), t # {}
        PROVE  it[t] = AddOne(it[t \ {Max(t)}], s[Max(t)])
    <3>1. Max(t) \in 1 .. N
      BY <1>1, <2>2, MaxIsIn
    <3>2. it[t \ {Max(t)}] \in R
      BY <2>1
    <3>3. it[t] = Do[Max(t)][it[t \ {Max(t)}]]
      BY <1>5, <2>2 DEF Folds
    <3>4. QED
      BY <1>4, <3>1, <3>2, <3>3
  <2>3. QED
    BY <1>1, <2>1, <2>2
<1>7. g = Body(g)
  BY <1>6
<1>8. ParseSubscriptionBody(s) = g[DOMAIN s]
  BY DEF ParseSubscriptionBody, FoldLeft, MapThenFoldSet, AddOne, ParsedLine
<1> HIDE DEF g
<1> DEFINE T == {n \in 0 .. N : g[1 .. n] \in R}
<1>9. 0 \in T
  <2>1. 1 .. 0 = {} /\ {} \in SUBSET DOMAIN s /\ 0 \in 0 .. N
    BY <1>1
  <2>2. g[{}] = <<>>
    BY <1>7, <2>1
  <2>3. QED
    BY <2>1, <2>2
<1>10. ASSUME NEW n \in 1 .. N, n - 1 \in T
       PROVE  n \in T
  <2> DEFINE t == 1 .. n
  <2>0. (1 .. n) \ {n} = 1 .. n - 1
    OBVIOUS
  <2>1. t \in SUBSET (1 .. N) /\ n \in t
    BY <1>1
  <2>2. Max(t) = n
    BY <1>1, <2>1, MaxOfPositions
  <2>3. t \ {n} = 1 .. n - 1
    BY <2>0
  <2> HIDE DEF t
  <2>4. g[t] = AddOne(g[t \ {Max(t)}], s[Max(t)])
    BY <1>1, <1>7, <2>1
  <2>5. g[t] = AddOne(g[1 .. n - 1], s[n])
    BY <2>2, <2>3, <2>4
  <2>6. g[1 .. n - 1] \in R
    BY <1>10
  <2>7. g[1 .. n] \in R
    BY <1>2, <2>5, <2>6 DEF t
  <2>8. n \in 0 .. N
    BY <1>1
  <2>9. QED
    BY <2>7, <2>8
<1> HIDE DEF T
<1>11. N \in T
  <2>1. 0 .. N \subseteq T
    BY <1>1, <1>9, <1>10, Induction
  <2>2. QED
    BY <1>1, <2>1
<1>12. g[1 .. N] \in R
  BY <1>11 DEF T
<1>13. QED
  BY <1>1, <1>8, <1>12

\* The node o was parsed from a link.
IsParsed(o) == \E l : o = ParseLink(l) /\ o # None

LEMMA BodyIsParsed ==
  ASSUME NEW X, NEW lines \in Seq(X)
  PROVE  LET nodes == ParseSubscriptionBody(lines)
         IN  /\ nodes \in Seq(ToSet(nodes))
             /\ \A i \in DOMAIN nodes : IsParsed(nodes[i])
<1> DEFINE Y == {ParseLink(x) : x \in X} \ {None}
           R == Seq(Y)
           nodes == ParseSubscriptionBody(lines)
<1>1. <<>> \in R
  OBVIOUS
<1>2. ASSUME NEW x \in X, NEW a \in R
      PROVE  ParsedLine(a, x) \in R
  <2>1. ParseLink(x) # None => ParseLink(x) \in Y
    OBVIOUS
  <2> HIDE DEF Y
  <2>2. QED
    BY <2>1 DEF ParsedLine
<1> HIDE DEF R
<1>3. nodes \in R
  BY <1>1, <1>2, BodyLineByLine
<1> HIDE DEF nodes
<1>4. nodes \in Seq(Y) /\ \A i \in DOMAIN nodes : nodes[i] \in Y
  BY <1>3 DEF R
<1>5. \A i \in DOMAIN nodes : IsParsed(nodes[i])
  BY <1>4 DEF IsParsed
<1>6. nodes \in Seq(ToSet(nodes))
  BY <1>4 DEF ToSet
<1>7. QED
  BY <1>5, <1>6 DEF nodes

-----------------------------------------------------------------------------
(* Batches.                                                                *)

\* A batch that can be tested at once, and a division into such batches.
IsBatch(its, b) ==
  /\ b \in Seq(DOMAIN its) /\ Len(b) > 0
  /\ \A k, m \in 1 .. Len(b) : k # m => b[k] # b[m] /\ ~SameSession(its, b[k], b[m])
Apart(b, c) == \A k \in 1 .. Len(b), m \in 1 .. Len(c) : b[k] # c[m]
IsPlan(its, plan) ==
  /\ plan \in Seq(Seq(DOMAIN its))
  /\ \A n \in 1 .. Len(plan) : IsBatch(its, plan[n])
  /\ \A n, m \in 1 .. Len(plan) : n # m => Apart(plan[n], plan[m])
\* The items that are in a batch of the plan.
Planned(plan) == UNION {ToSet(plan[n]) : n \in 1 .. Len(plan)}

\* One more item in the first batch that has room for it.
FitsIn(its, size, b, i) == Len(b) < size /\ \A j \in ToSet(b) : ~SameSession(its, i, j)
PlaceOne(its, size, plan, i) ==
  LET fits == {b \in DOMAIN plan : FitsIn(its, size, plan[b], i)}
  IN  IF fits = {} THEN Append(plan, <<i>>) ELSE [plan EXCEPT ![Min(fits)] = Append(@, i)]

LEMMA PlannedIs ==
  \A plan, x : x \in Planned(plan) <=> \E n \in 1 .. Len(plan) : x \in ToSet(plan[n])
BY DEF Planned

LEMMA SessionsAreMutual ==
  \A its, i, j : SameSession(its, i, j) => SameSession(its, j, i)
BY DEF SameSession

LEMMA MinIsIn ==
  ASSUME NEW T \in SUBSET Nat, T # {}
  PROVE  Min(T) \in T
<1>1. \E n \in T : \A m \in T : n <= m
  BY LeastNumber
<1>2. QED
  BY <1>1 DEF Min

\* One place more at the end of a batch.
LEMMA BatchGrows ==
  ASSUME NEW its, NEW b, b \in Seq(DOMAIN its), \A k, m \in 1 .. Len(b) : k # m => b[k] # b[m] /\ ~SameSession(its, b[k], b[m]),
         NEW i \in DOMAIN its, i \notin ToSet(b), \A j \in ToSet(b) : ~SameSession(its, i, j)
  PROVE  IsBatch(its, Append(b, i)) /\ ToSet(Append(b, i)) = ToSet(b) \cup {i}
<1> DEFINE c == Append(b, i)
<1>1. /\ c \in Seq(DOMAIN its) /\ Len(b) \in Nat /\ Len(c) = Len(b) + 1 /\ c[Len(b) + 1] = i
      /\ DOMAIN c = 1 .. Len(b) + 1 /\ DOMAIN b = 1 .. Len(b)
      /\ \A k \in 1 .. Len(b) : c[k] = b[k]
  OBVIOUS
<1> HIDE DEF c
<1>2. \A k \in 1 .. Len(b) : b[k] # i /\ ~SameSession(its, i, b[k]) /\ ~SameSession(its, b[k], i)
  BY <1>1, SessionsAreMutual DEF ToSet
<1>3. ASSUME NEW k \in 1 .. Len(c), NEW m \in 1 .. Len(c), k # m
      PROVE  c[k] # c[m] /\ ~SameSession(its, c[k], c[m])
  <2>1. CASE k \in 1 .. Len(b) /\ m \in 1 .. Len(b)
    BY <1>1, <1>3, <2>1
  <2>2. CASE k \in 1 .. Len(b) /\ m = Len(b) + 1
    BY <1>1, <1>2, <2>2
  <2>3. CASE k = Len(b) + 1 /\ m \in 1 .. Len(b)
    BY <1>1, <1>2, <2>3
  <2>4. QED
    BY <1>1, <1>3, <2>1, <2>2, <2>3
<1>4. ToSet(c) = ToSet(b) \cup {i}
  <2>1. \A x \in ToSet(c) : x \in ToSet(b) \cup {i}
    BY <1>1 DEF ToSet
  <2>2. \A x \in ToSet(b) : x \in ToSet(c)
    BY <1>1 DEF ToSet
  <2>3. i \in ToSet(c)
    BY <1>1 DEF ToSet
  <2>4. QED
    BY <2>1, <2>2, <2>3
<1>5. IsBatch(its, c)
  BY <1>1, <1>3 DEF IsBatch
<1>6. QED
  BY <1>4, <1>5 DEF c

LEMMA ApartIs ==
  ASSUME NEW X, NEW b \in Seq(X), NEW c \in Seq(X)
  PROVE  Apart(b, c) <=> ToSet(b) \cap ToSet(c) = {}
<1>1. DOMAIN b = 1 .. Len(b) /\ DOMAIN c = 1 .. Len(c)
  OBVIOUS
<1>2. QED
  BY <1>1 DEF Apart, ToSet

LEMMA PlacedOne ==
  ASSUME NEW N \in Nat, NEW its, DOMAIN its = 1 .. N, NEW size, NEW plan, IsPlan(its, plan),
         NEW i \in 1 .. N, i \notin Planned(plan)
  PROVE  /\ IsPlan(its, PlaceOne(its, size, plan, i))
         /\ Planned(PlaceOne(its, size, plan, i)) = Planned(plan) \cup {i}
<1> DEFINE L == Len(plan)
           fits == {b \in DOMAIN plan : FitsIn(its, size, plan[b], i)}
           S == DOMAIN its
<1>1. /\ plan \in Seq(Seq(S)) /\ L \in Nat /\ DOMAIN plan = 1 .. L /\ i \in S
      /\ \A n \in 1 .. L : plan[n] \in Seq(S) /\ IsBatch(its, plan[n]) /\ i \notin ToSet(plan[n])
      /\ \A n, m \in 1 .. L : n # m => Apart(plan[n], plan[m])
  BY PlannedIs DEF IsPlan
<1>2. CASE fits = {}
  <2> DEFINE new == Append(plan, <<i>>)
             one == <<i>>
  <2>0. PlaceOne(its, size, plan, i) = new
    BY <1>2 DEF PlaceOne
  <2>1. one \in Seq(S) /\ Len(one) = 1 /\ one[1] = i /\ ToSet(one) = {i}
    BY <1>1 DEF ToSet
  <2>2. IsBatch(its, one)
    BY <2>1 DEF IsBatch
  <2>3. /\ new \in Seq(Seq(S)) /\ Len(new) = L + 1 /\ new[L + 1] = one
        /\ \A n \in 1 .. L : new[n] = plan[n]
    BY <1>1, <2>1
  <2> HIDE DEF new, one
  <2>4. \A n \in 1 .. Len(new) : IsBatch(its, new[n])
    <3>1. \A n \in 1 .. L + 1 : n \in 1 .. L \/ n = L + 1
      BY <1>1
    <3>2. QED
      BY <1>1, <2>2, <2>3, <3>1
  <2>5. \A n \in 1 .. L : Apart(plan[n], one) /\ Apart(one, plan[n])
    BY <1>1, <2>1, ApartIs
  <2>6. ASSUME NEW n \in 1 .. Len(new), NEW m \in 1 .. Len(new), n # m
        PROVE  Apart(new[n], new[m])
    <3>1. CASE n \in 1 .. L /\ m \in 1 .. L
      BY <1>1, <2>3, <2>6, <3>1
    <3>2. CASE n \in 1 .. L /\ m = L + 1
      BY <2>3, <2>5, <3>2
    <3>3. CASE n = L + 1 /\ m \in 1 .. L
      BY <2>3, <2>5, <3>3
    <3>4. QED
      BY <1>1, <2>3, <2>6, <3>1, <3>2, <3>3
  <2>7. Planned(new) = Planned(plan) \cup {i}
    <3>1. \A x \in Planned(new) : x \in Planned(plan) \cup {i}
      <4> SUFFICES ASSUME NEW x \in Planned(new) PROVE x \in Planned(plan) \cup {i}
        OBVIOUS
      <4>1. PICK n \in 1 .. L + 1 : x \in ToSet(new[n])
        BY <2>3, PlannedIs
      <4>2. CASE n \in 1 .. L
        BY <2>3, <4>1, <4>2, PlannedIs
      <4>3. CASE n = L + 1
        BY <2>1, <2>3, <4>1, <4>3
      <4>4. QED
        BY <1>1, <4>2, <4>3
    <3>2. \A x \in Planned(plan) : x \in Planned(new)
      <4> SUFFICES ASSUME NEW x \in Planned(plan) PROVE x \in Planned(new)
        OBVIOUS
      <4>1. PICK n \in 1 .. L : x \in ToSet(plan[n])
        BY PlannedIs
      <4>2. n \in 1 .. Len(new) /\ x \in ToSet(new[n])
        BY <1>1, <2>3, <4>1
      <4>3. QED
        BY <4>2, PlannedIs
    <3>3. i \in Planned(new)
      <4>1. L + 1 \in 1 .. Len(new) /\ i \in ToSet(new[L + 1])
        BY <1>1, <2>1, <2>3
      <4>2. QED
        BY <4>1, PlannedIs
    <3>4. QED
      BY <3>1, <3>2, <3>3
  <2>8. IsPlan(its, new)
    BY <2>3, <2>4, <2>6 DEF IsPlan
  <2>9. QED
    BY <2>0, <2>7, <2>8
<1>3. CASE fits # {}
  <2> DEFINE f == Min(fits)
             b == Append(plan[f], i)
             new == [plan EXCEPT ![f] = b]
  <2>0. PlaceOne(its, size, plan, i) = new
    BY <1>3 DEF PlaceOne
  <2>1. fits \in SUBSET Nat
    BY <1>1
  <2>2. f \in fits
    BY <1>3, <2>1, MinIsIn
  <2>3. f \in 1 .. L /\ FitsIn(its, size, plan[f], i)
    BY <1>1, <2>2
  <2> HIDE DEF f
  <2>4. /\ plan[f] \in Seq(S) /\ i \notin ToSet(plan[f]) /\ \A j \in ToSet(plan[f]) : ~SameSession(its, i, j)
        /\ \A k, m \in 1 .. Len(plan[f]) : k # m => plan[f][k] # plan[f][m] /\ ~SameSession(its, plan[f][k], plan[f][m])
    BY <1>1, <2>3 DEF FitsIn, IsBatch
  <2>5. IsBatch(its, b) /\ ToSet(b) = ToSet(plan[f]) \cup {i}
    BY <1>1, <2>4, BatchGrows
  <2>6. b \in Seq(S)
    BY <2>5 DEF IsBatch
  <2>7. /\ new \in Seq(Seq(S)) /\ Len(new) = L /\ new[f] = b
        /\ \A n \in 1 .. L : n # f => new[n] = plan[n]
    <3> HIDE DEF b
    <3>1. QED
      BY <1>1, <2>3, <2>6
  <2> HIDE DEF new, b
  <2>8. \A n \in 1 .. L : IsBatch(its, new[n])
    BY <1>1, <2>5, <2>7
  <2>9. \A n \in 1 .. L : n # f => Apart(plan[n], b) /\ Apart(b, plan[n])
    <3> SUFFICES ASSUME NEW n \in 1 .. L, n # f PROVE Apart(plan[n], b) /\ Apart(b, plan[n])
      OBVIOUS
    <3>1. ToSet(plan[n]) \cap ToSet(plan[f]) = {}
      BY <1>1, <2>3, ApartIs
    <3>2. ToSet(plan[n]) \cap ToSet(b) = {}
      BY <1>1, <2>5, <3>1
    <3>3. QED
      BY <1>1, <2>6, <3>2, ApartIs
  <2>10. ASSUME NEW n \in 1 .. L, NEW m \in 1 .. L, n # m
         PROVE  Apart(new[n], new[m])
    <3>1. CASE n # f /\ m # f
      BY <1>1, <2>7, <2>10, <3>1
    <3>2. CASE n = f
      BY <2>7, <2>9, <2>10, <3>2
    <3>3. CASE m = f
      BY <2>7, <2>9, <2>10, <3>3
    <3>4. QED
      BY <3>1, <3>2, <3>3
  <2>11. Planned(new) = Planned(plan) \cup {i}
    <3>1. \A n \in 1 .. L : ToSet(new[n]) \subseteq ToSet(plan[n]) \cup {i}
      BY <1>1, <2>5, <2>7
    <3>2. \A x \in Planned(new) : x \in Planned(plan) \cup {i}
      BY <2>7, <3>1, PlannedIs
    <3>3. \A n \in 1 .. L : ToSet(plan[n]) \subseteq ToSet(new[n])
      BY <1>1, <2>5, <2>7
    <3>4. \A x \in Planned(plan) : x \in Planned(new)
      BY <2>7, <3>3, PlannedIs
    <3>5. i \in Planned(new)
      BY <2>3, <2>5, <2>7, PlannedIs
    <3>6. QED
      BY <3>2, <3>4, <3>5
  <2>12. IsPlan(its, new)
    BY <2>7, <2>8, <2>10 DEF IsPlan
  <2>13. QED
    BY <2>0, <2>11, <2>12
<1>4. QED
  BY <1>2, <1>3

LEMMA PlanOneByOne ==
  ASSUME NEW N \in Nat, NEW its, DOMAIN its = 1 .. N, NEW size
  PROVE  \E f : /\ f[0] = <<>> /\ PlanProbeBatches(its, size) = f[N]
                /\ \A n \in 1 .. N : f[n] = PlaceOne(its, size, f[n - 1], n)
<1> DEFINE s == [i \in DOMAIN its |-> i]
           R == Seq(Seq(1 .. N))
           AddOne(a, x) == PlaceOne(its, size, a, x)
           Do == [n \in 1 .. N |-> [a \in R |-> AddOne(a, s[n])]]
           Body(it) == [t \in SUBSET DOMAIN s |->
                          IF t = {} THEN <<>> ELSE AddOne(it[t \ {Max(t)}], s[Max(t)])]
           g == CHOOSE it : it = Body(it)
<1>1. DOMAIN s = 1 .. N /\ <<>> \in R /\ \A n \in 1 .. N : s[n] = n
  OBVIOUS
<1> HIDE DEF s
<1>2. \A n \in 1 .. N : \A a \in R : AddOne(a, s[n]) \in R
  <2> SUFFICES ASSUME NEW n \in 1 .. N, NEW a \in R PROVE PlaceOne(its, size, a, n) \in R
    BY <1>1
  <2> DEFINE fits == {b \in DOMAIN a : FitsIn(its, size, a[b], n)}
  <2>1. CASE fits = {}
    <3>1. PlaceOne(its, size, a, n) = Append(a, <<n>>)
      BY <2>1 DEF PlaceOne
    <3>2. <<n>> \in Seq(1 .. N)
      OBVIOUS
    <3>3. QED
      BY <3>1, <3>2
  <2>2. CASE fits # {}
    <3>1. fits \in SUBSET Nat
      OBVIOUS
    <3>2. Min(fits) \in fits
      BY <2>2, <3>1, MinIsIn
    <3> DEFINE m == Min(fits)
    <3>3. m \in DOMAIN a
      BY <3>2
    <3>4. PlaceOne(its, size, a, n) = [a EXCEPT ![m] = Append(a[m], n)]
      BY <2>2 DEF PlaceOne
    <3> HIDE DEF m
    <3>5. a[m] \in Seq(1 .. N)
      BY <3>3
    <3>6. Append(a[m], n) \in Seq(1 .. N)
      BY <3>5
    <3>7. QED
      BY <3>3, <3>4, <3>6
  <2>3. QED
    BY <2>1, <2>2
<1>3. Do \in Steps(N, R)
  BY <1>2 DEF Steps
<1>4. \A n \in 1 .. N : \A a \in R : Do[n][a] = AddOne(a, s[n])
  OBVIOUS
<1> HIDE DEF R, AddOne, Do
<1>5. PICK it : Folds(it, N, R, <<>>, Do)
  BY <1>1, <1>3, FoldExists
<1>6. it = Body(it)
  <2>1. it \in [SUBSET (1 .. N) -> R] /\ it[{}] = <<>>
    BY <1>5 DEF Folds
  <2>2. ASSUME NEW t \in SUBSET (1 .. N), t # {}
        PROVE  it[t] = AddOne(it[t \ {Max(t)}], s[Max(t)])
    <3>1. Max(t) \in 1 .. N
      BY <1>1, <2>2, MaxIsIn
    <3>2. it[t \ {Max(t)}] \in R
      BY <2>1
    <3>3. it[t] = Do[Max(t)][it[t \ {Max(t)}]]
      BY <1>5, <2>2 DEF Folds
    <3>4. QED
      BY <1>4, <3>1, <3>2, <3>3
  <2>3. QED
    BY <1>1, <2>1, <2>2
<1>7. g = Body(g)
  BY <1>6
<1>8. PlanProbeBatches(its, size) = g[DOMAIN s]
  BY DEF PlanProbeBatches, FoldLeft, MapThenFoldSet, AddOne, PlaceOne, FitsIn, s
<1> HIDE DEF g
<1> DEFINE f == [n \in 0 .. N |-> g[1 .. n]]
<1>9. f[0] = <<>>
  <2>1. 1 .. 0 = {} /\ {} \in SUBSET DOMAIN s /\ 0 \in 0 .. N
    BY <1>1
  <2>2. g[{}] = <<>>
    BY <1>7, <2>1
  <2>3. QED
    BY <2>1, <2>2
<1>10. ASSUME NEW n \in 1 .. N
       PROVE  f[n] = AddOne(f[n - 1], n)
  <2> DEFINE t == 1 .. n
  <2>0. (1 .. n) \ {n} = 1 .. n - 1
    OBVIOUS
  <2>1. t \in SUBSET (1 .. N) /\ n \in t
    BY <1>1
  <2>2. Max(t) = n
    BY <1>1, <2>1, MaxOfPositions
  <2>3. t \ {n} = 1 .. n - 1
    BY <2>0
  <2> HIDE DEF t
  <2>4. g[t] = AddOne(g[t \ {Max(t)}], s[Max(t)])
    BY <1>1, <1>7, <2>1
  <2>5. g[t] = AddOne(g[1 .. n - 1], n)
    BY <1>1, <2>2, <2>3, <2>4
  <2>6. QED
    BY <1>1, <2>5 DEF t
<1>11. PlanProbeBatches(its, size) = f[N]
  BY <1>1, <1>8
<1> HIDE DEF f
<1>12. QED
  BY <1>9, <1>10, <1>11 DEF AddOne

\* Every item is in one batch, with none of its session.
(* Every node is in one batch, and no batch has two of one session.         *)
THEOREM PlanIsPlan ==
  ASSUME NEW N \in Nat, NEW its, DOMAIN its = 1 .. N, NEW size
  PROVE  LET plan == PlanProbeBatches(its, size)
         IN  IsPlan(its, plan) /\ Planned(plan) = 1 .. N
<1>1. PICK f : /\ f[0] = <<>> /\ PlanProbeBatches(its, size) = f[N]
               /\ \A n \in 1 .. N : f[n] = PlaceOne(its, size, f[n - 1], n)
  BY PlanOneByOne
<1> DEFINE T == {n \in 0 .. N : IsPlan(its, f[n]) /\ Planned(f[n]) = 1 .. n}
<1>2. 0 \in T
  <2>1. f[0] \in Seq(Seq(DOMAIN its)) /\ Len(f[0]) = 0 /\ 1 .. 0 = {}
    BY <1>1
  <2>2. IsPlan(its, f[0])
    BY <2>1 DEF IsPlan
  <2>3. Planned(f[0]) = {}
    BY <2>1, PlannedIs
  <2>4. QED
    BY <2>1, <2>2, <2>3
<1>3. ASSUME NEW n \in 1 .. N, n - 1 \in T
      PROVE  n \in T
  <2>1. IsPlan(its, f[n - 1]) /\ Planned(f[n - 1]) = 1 .. n - 1
    BY <1>3
  <2>2. n \notin Planned(f[n - 1]) /\ n \in 1 .. N
    BY <2>1
  <2>3. f[n] = PlaceOne(its, size, f[n - 1], n)
    BY <1>1
  <2> DEFINE was == f[n - 1]
             now == PlaceOne(its, size, was, n)
  <2> HIDE DEF T, was
  <2>4. IsPlan(its, now) /\ Planned(now) = Planned(was) \cup {n}
    <3>1. IsPlan(its, was) /\ n \notin Planned(was)
      BY <2>1, <2>2 DEF was
    <3> HIDE DEF now
    <3>2. IsPlan(its, PlaceOne(its, size, was, n)) /\ Planned(PlaceOne(its, size, was, n)) = Planned(was) \cup {n}
      BY <2>2, <3>1, PlacedOne
    <3>3. QED
      BY <3>2 DEF now
  <2>5. (1 .. n - 1) \cup {n} = 1 .. n
    OBVIOUS
  <2>6. f[n] = now /\ Planned(was) = 1 .. n - 1
    BY <2>1, <2>3 DEF was
  <2> HIDE DEF now
  <2>7. IsPlan(its, f[n]) /\ Planned(f[n]) = 1 .. n
    BY <2>4, <2>5, <2>6
  <2>8. n \in 0 .. N
    OBVIOUS
  <2>9. QED
    BY <2>7, <2>8 DEF T
<1> HIDE DEF T
<1>4. N \in T
  <2>1. 0 .. N \subseteq T
    BY <1>2, <1>3, Induction
  <2>2. QED
    BY <2>1
<1>5. QED
  BY <1>1, <1>4 DEF T

\* What is left of a plan.
LEMMA TailOfPlan ==
  ASSUME NEW its, NEW plan, IsPlan(its, plan), plan # <<>>
  PROVE  /\ IsPlan(its, Tail(plan))
         /\ Head(plan) = plan[1] /\ IsBatch(its, Head(plan))
         /\ Planned(Tail(plan)) \cap ToSet(Head(plan)) = {}
         /\ Planned(plan) = Planned(Tail(plan)) \cup ToSet(Head(plan))
<1> DEFINE S == DOMAIN its
           L == Len(plan)
           rest == Tail(plan)
           b == Head(plan)
<1>1. /\ plan \in Seq(Seq(S)) /\ L \in Nat /\ L > 0
      /\ \A n \in 1 .. L : plan[n] \in Seq(S) /\ IsBatch(its, plan[n])
      /\ \A n, m \in 1 .. L : n # m => Apart(plan[n], plan[m])
  BY DEF IsPlan
<1>2. /\ rest \in Seq(Seq(S)) /\ Len(rest) = L - 1 /\ b = plan[1] /\ 1 \in 1 .. L
      /\ \A n \in 1 .. L - 1 : rest[n] = plan[n + 1] /\ n + 1 \in 1 .. L
  BY <1>1
<1> HIDE DEF rest, b, L
<1>3. IsPlan(its, rest)
  <2>1. \A n \in 1 .. L - 1 : IsBatch(its, rest[n])
    BY <1>1, <1>2
  <2>2. ASSUME NEW n \in 1 .. L - 1, NEW m \in 1 .. L - 1, n # m
        PROVE  Apart(rest[n], rest[m])
    <3>1. n + 1 # m + 1
      BY <1>1, <2>2
    <3>2. QED
      BY <1>1, <1>2, <3>1
  <2>3. QED
    BY <1>2, <2>1, <2>2 DEF IsPlan
<1>4. Planned(rest) \cap ToSet(b) = {}
  <2> SUFFICES ASSUME NEW x \in Planned(rest) PROVE x \notin ToSet(b)
    OBVIOUS
  <2>1. PICK n \in 1 .. L - 1 : x \in ToSet(rest[n])
    BY <1>2, PlannedIs
  <2>2. n + 1 \in 1 .. L /\ n + 1 # 1 /\ rest[n] = plan[n + 1]
    BY <1>1, <1>2
  <2>3. Apart(plan[n + 1], plan[1])
    BY <1>1, <1>2, <2>2
  <2>4. ToSet(plan[n + 1]) \cap ToSet(plan[1]) = {}
    BY <1>1, <1>2, <2>2, <2>3, ApartIs
  <2>5. QED
    BY <1>2, <2>1, <2>2, <2>4
<1>5. \A x \in Planned(plan) : x \in Planned(rest) \cup ToSet(b)
  <2> SUFFICES ASSUME NEW x \in Planned(plan) PROVE x \in Planned(rest) \cup ToSet(b)
    OBVIOUS
  <2>1. PICK n \in 1 .. L : x \in ToSet(plan[n])
    BY PlannedIs DEF L
  <2>2. CASE n = 1
    BY <1>2, <2>1, <2>2
  <2>3. CASE n # 1
    <3>1. n - 1 \in 1 .. L - 1 /\ plan[(n - 1) + 1] = plan[n]
      BY <1>1, <2>3
    <3>2. rest[n - 1] = plan[n]
      BY <1>2, <3>1
    <3>3. QED
      BY <1>2, <2>1, <3>1, <3>2, PlannedIs
  <2>4. QED
    BY <2>2, <2>3
<1>6. \A x \in Planned(rest) : x \in Planned(plan)
  <2> SUFFICES ASSUME NEW x \in Planned(rest) PROVE x \in Planned(plan)
    OBVIOUS
  <2>1. PICK n \in 1 .. L - 1 : x \in ToSet(rest[n])
    BY <1>2, PlannedIs
  <2>2. n + 1 \in 1 .. L /\ x \in ToSet(plan[n + 1])
    BY <1>2, <2>1
  <2>3. QED
    BY <2>2, PlannedIs DEF L
<1>7. \A x \in ToSet(b) : x \in Planned(plan)
  BY <1>2, PlannedIs DEF L
<1>8. IsBatch(its, b) /\ b = plan[1]
  BY <1>1, <1>2
<1>9. QED
  BY <1>3, <1>4, <1>5, <1>6, <1>7, <1>8 DEF rest, b

\* A batch of more than one is two batches.
LEMMA HalvesAre ==
  ASSUME NEW its, NEW b, IsBatch(its, b), Len(b) # 1
  PROVE  LET h == Halves(b)
         IN  /\ h = <<h[1], h[2]>>
             /\ IsBatch(its, h[1]) /\ IsBatch(its, h[2])
             /\ ToSet(h[1]) \cap ToSet(h[2]) = {}
             /\ ToSet(b) = ToSet(h[1]) \cup ToSet(h[2])
<1> DEFINE L == Len(b)
           half == L \div 2
           S == DOMAIN its
           one == SubSeq(b, 1, half)
           two == SubSeq(b, half + 1, L)
<1>1. /\ b \in Seq(S) /\ L \in Nat /\ L > 1 /\ DOMAIN b = 1 .. L
      /\ \A k, m \in 1 .. L : k # m => b[k] # b[m] /\ ~SameSession(its, b[k], b[m])
  <2>1. b \in Seq(S) /\ Len(b) > 0
    BY DEF IsBatch
  <2>2. Len(b) \in Nat /\ DOMAIN b = 1 .. Len(b)
    BY <2>1
  <2>3. Len(b) > 1
    BY <2>1, <2>2
  <2>4. QED
    BY <2>1, <2>2, <2>3 DEF IsBatch
<1>2. half \in 1 .. L - 1
  <2> HIDE DEF L
  <2>1. QED
    BY <1>1
<1>3. Halves(b) = <<one, two>>
  BY DEF Halves
<1> HIDE DEF half
<1>4. one \in Seq(S) /\ Len(one) = half /\ \A k \in 1 .. half : one[k] = b[k] /\ k \in 1 .. L
  BY <1>1, <1>2
<1>5. two \in Seq(S) /\ Len(two) = L - half /\ \A k \in 1 .. L - half : two[k] = b[half + k] /\ half + k \in 1 .. L
  BY <1>1, <1>2
<1> HIDE DEF one, two, L
<1>6. IsBatch(its, one)
  BY <1>1, <1>2, <1>4 DEF IsBatch
<1>7. IsBatch(its, two)
  <2>1. ASSUME NEW k \in 1 .. L - half, NEW m \in 1 .. L - half, k # m
        PROVE  two[k] # two[m] /\ ~SameSession(its, two[k], two[m])
    <3>1. half + k # half + m
      BY <1>1, <1>2, <2>1
    <3>2. QED
      BY <1>1, <1>5, <3>1
  <2>2. QED
    BY <1>1, <1>2, <1>5, <2>1 DEF IsBatch
<1>8. Apart(one, two)
  <2>1. ASSUME NEW k \in 1 .. half, NEW m \in 1 .. L - half
        PROVE  one[k] # two[m]
    <3>1. k # half + m
      BY <1>1, <1>2
    <3>2. QED
      BY <1>1, <1>4, <1>5, <3>1
  <2>2. QED
    BY <1>4, <1>5, <2>1 DEF Apart
<1>9. ToSet(one) \cap ToSet(two) = {}
  BY <1>4, <1>5, <1>8, ApartIs
<1>10. DOMAIN one = 1 .. half /\ DOMAIN two = 1 .. L - half
  BY <1>4, <1>5
<1>11. \A x \in ToSet(b) : x \in ToSet(one) \cup ToSet(two)
  <2> SUFFICES ASSUME NEW k \in 1 .. L PROVE b[k] \in ToSet(one) \cup ToSet(two)
    BY <1>1 DEF ToSet
  <2>1. CASE k \in 1 .. half
    BY <1>4, <1>10, <2>1 DEF ToSet
  <2>2. CASE k \notin 1 .. half
    <3>1. k - half \in 1 .. L - half /\ b[half + (k - half)] = b[k]
      BY <1>1, <1>2, <2>2
    <3>2. two[k - half] = b[k]
      BY <1>5, <3>1
    <3>3. QED
      BY <1>10, <3>1, <3>2 DEF ToSet
  <2>3. QED
    BY <2>1, <2>2
<1>12. ToSet(one) \subseteq ToSet(b) /\ ToSet(two) \subseteq ToSet(b)
  <2>1. \A k \in 1 .. half : one[k] \in ToSet(b)
    BY <1>1, <1>4 DEF ToSet
  <2>2. \A k \in 1 .. L - half : two[k] \in ToSet(b)
    BY <1>1, <1>5 DEF ToSet
  <2>3. QED
    BY <1>10, <2>1, <2>2 DEF ToSet
<1>13. QED
  BY <1>3, <1>6, <1>7, <1>9, <1>11, <1>12

\* The halves of a plan's first batch, and the rest of the plan.
LEMMA HalvedPlan ==
  ASSUME NEW its, NEW plan, IsPlan(its, plan), plan # <<>>, Len(Head(plan)) # 1
  PROVE  LET new == Halves(Head(plan)) \o Tail(plan)
         IN  IsPlan(its, new) /\ Planned(new) = Planned(plan)
<1> DEFINE S == DOMAIN its
           rest == Tail(plan)
           b == Head(plan)
           one == Halves(b)[1]
           two == Halves(b)[2]
           new == <<one, two>> \o rest
           L == Len(rest)
<1>1. /\ IsPlan(its, rest) /\ IsBatch(its, b) /\ Planned(rest) \cap ToSet(b) = {}
      /\ Planned(plan) = Planned(rest) \cup ToSet(b)
  BY TailOfPlan
<1>2. /\ Halves(b) = <<one, two>>
      /\ IsBatch(its, one) /\ IsBatch(its, two) /\ ToSet(one) \cap ToSet(two) = {}
      /\ ToSet(b) = ToSet(one) \cup ToSet(two)
  BY <1>1, HalvesAre
<1>3. Halves(b) \o rest = new
  BY <1>2
<1> HIDE DEF rest, b, one, two
<1>4. /\ rest \in Seq(Seq(S)) /\ L \in Nat /\ one \in Seq(S) /\ two \in Seq(S)
      /\ \A n \in 1 .. L : rest[n] \in Seq(S) /\ IsBatch(its, rest[n])
      /\ \A n, m \in 1 .. L : n # m => Apart(rest[n], rest[m])
  BY <1>1, <1>2 DEF IsPlan, IsBatch
<1>5. /\ new \in Seq(Seq(S)) /\ Len(new) = L + 2 /\ new[1] = one /\ new[2] = two
      /\ \A n \in 3 .. L + 2 : new[n] = rest[n - 2]
  BY <1>4
<1>6. \A n \in 1 .. L + 2 : n = 1 \/ n = 2 \/ (n \in 3 .. L + 2 /\ n - 2 \in 1 .. L)
  BY <1>4
<1>7. \A n \in 1 .. L : n + 2 \in 3 .. L + 2 /\ new[n + 2] = rest[n]
  <2> SUFFICES ASSUME NEW n \in 1 .. L PROVE n + 2 \in 3 .. L + 2 /\ new[n + 2] = rest[n]
    OBVIOUS
  <2>1. n + 2 \in 3 .. L + 2 /\ (n + 2) - 2 = n
    BY <1>4
  <2> HIDE DEF new
  <2>2. new[n + 2] = rest[(n + 2) - 2]
    BY <1>5, <2>1
  <2>3. QED
    BY <2>1, <2>2
<1> HIDE DEF new, L
<1>8. \A n \in 1 .. L + 2 : IsBatch(its, new[n])
  BY <1>2, <1>4, <1>5, <1>6
<1>9. \A n \in 1 .. L : ToSet(rest[n]) \subseteq Planned(rest)
  BY PlannedIs DEF L
<1>10. \A n \in 1 .. L : /\ Apart(rest[n], one) /\ Apart(one, rest[n])
                         /\ Apart(rest[n], two) /\ Apart(two, rest[n])
  <2> SUFFICES ASSUME NEW n \in 1 .. L
      PROVE  /\ Apart(rest[n], one) /\ Apart(one, rest[n])
             /\ Apart(rest[n], two) /\ Apart(two, rest[n])
    OBVIOUS
  <2>1. ToSet(rest[n]) \cap ToSet(one) = {} /\ ToSet(rest[n]) \cap ToSet(two) = {}
    BY <1>1, <1>2, <1>9
  <2>2. QED
    BY <1>4, <2>1, ApartIs
<1>11. Apart(one, two) /\ Apart(two, one)
  BY <1>2, <1>4, ApartIs
<1>12. ASSUME NEW n \in 1 .. L + 2, NEW m \in 1 .. L + 2, n # m
       PROVE  Apart(new[n], new[m])
  <2>1. CASE n \in 3 .. L + 2 /\ m \in 3 .. L + 2
    <3>1. n - 2 \in 1 .. L /\ m - 2 \in 1 .. L /\ n - 2 # m - 2
      BY <1>4, <1>6, <1>12, <2>1
    <3>2. QED
      BY <1>4, <1>5, <2>1, <3>1
  <2>2. CASE n \in 3 .. L + 2 /\ m \in {1, 2}
    BY <1>5, <1>6, <1>10, <2>2
  <2>3. CASE n \in {1, 2} /\ m \in 3 .. L + 2
    BY <1>5, <1>6, <1>10, <2>3
  <2>4. CASE n \in {1, 2} /\ m \in {1, 2}
    BY <1>5, <1>11, <1>12, <2>4
  <2>5. QED
    BY <1>6, <2>1, <2>2, <2>3, <2>4
<1>13. IsPlan(its, new)
  BY <1>5, <1>8, <1>12 DEF IsPlan
<1>14. \A x \in Planned(new) : x \in Planned(rest) \cup ToSet(b)
  <2> SUFFICES ASSUME NEW x \in Planned(new) PROVE x \in Planned(rest) \cup ToSet(b)
    OBVIOUS
  <2>1. PICK n \in 1 .. L + 2 : x \in ToSet(new[n])
    BY <1>5, PlannedIs
  <2>2. CASE n \in {1, 2}
    BY <1>2, <1>5, <2>1, <2>2
  <2>3. CASE n \in 3 .. L + 2
    BY <1>5, <1>6, <1>9, <2>1, <2>3
  <2>4. QED
    BY <1>6, <2>2, <2>3
<1>15. \A x \in Planned(rest) : x \in Planned(new)
  <2> SUFFICES ASSUME NEW x \in Planned(rest) PROVE x \in Planned(new)
    OBVIOUS
  <2>1. PICK n \in 1 .. L : x \in ToSet(rest[n])
    BY PlannedIs DEF L
  <2>2. n + 2 \in 1 .. L + 2 /\ x \in ToSet(new[n + 2])
    BY <1>4, <1>7, <2>1
  <2>3. QED
    BY <1>5, <2>2, PlannedIs
<1>16. \A x \in ToSet(b) : x \in Planned(new)
  <2>1. 1 \in 1 .. Len(new) /\ 2 \in 1 .. Len(new)
    BY <1>4, <1>5
  <2>2. QED
    BY <1>2, <1>5, <2>1, PlannedIs
<1>17. QED
  BY <1>1, <1>3, <1>13, <1>14, <1>15, <1>16 DEF rest, b

-----------------------------------------------------------------------------
(* What a template has: a kind of inbound that a link has words for.       *)
Protocols == {"vless", "vmess", "trojan", "hysteria", "socks"}
TemplateFields == {"protocol", "network", "security", "flow", "listen", "path"}
HasWords(in) ==
  /\ in.protocol \in Protocols
  /\ in.network \in {"tcp", "ws", "httpupgrade", "grpc", "xhttp", "hysteria"} /\ in.security \in {"none", "tls", "reality"}
  /\ in.protocol = "vless" => in.network # "hysteria"
  /\ in.protocol = "vmess" => in.network \notin {"hysteria", "xhttp"} /\ in.security # "reality"
  /\ in.protocol = "trojan" => in.network # "hysteria" /\ in.security = "tls"
  /\ in.protocol = "hysteria" => in.network = "hysteria" /\ in.security = "tls"
  /\ in.protocol = "socks" => in.network = "tcp" /\ in.security = "none"
  /\ in.listen = "socket" => in.protocol = "vless" /\ in.network = "xhttp" /\ in.security = "none"
IsTemplate(t) == DOMAIN t = TemplateFields /\ HasWords(t)

LEMMA TemplatesAre == \A name \in DOMAIN Templates : IsTemplate(Templates[name])
<1>1. /\ IsTemplate(Templates.vlessReality) /\ IsTemplate(Templates.vlessRealityGRPC)
      /\ IsTemplate(Templates.vlessRealityXHTTP) /\ IsTemplate(Templates.vlessTLS)
  BY DEF Templates, Template, At, Vision, IsTemplate, HasWords, TemplateFields, Protocols
<1>2. /\ IsTemplate(Templates.vlessTLSWS) /\ IsTemplate(Templates.vlessTLSXHTTP)
      /\ IsTemplate(Templates.vlessCaddyXHTTP) /\ IsTemplate(Templates.vlessTLSGRPC)
  BY DEF Templates, Template, At, Vision, IsTemplate, HasWords, TemplateFields, Protocols
<1>3. /\ IsTemplate(Templates.vlessTLSUpgrade) /\ IsTemplate(Templates.vmessWS)
      /\ IsTemplate(Templates.vmessTCP) /\ IsTemplate(Templates.vmessTLSWS)
  BY DEF Templates, Template, At, Vision, IsTemplate, HasWords, TemplateFields, Protocols
<1>4. /\ IsTemplate(Templates.trojanTLS) /\ IsTemplate(Templates.trojanTLSWS)
      /\ IsTemplate(Templates.hysteria2) /\ IsTemplate(Templates.socks) /\ IsTemplate(Templates.socksPublic)
  BY DEF Templates, Template, At, Vision, IsTemplate, HasWords, TemplateFields, Protocols
<1>5. DOMAIN Templates =
        {"vlessReality", "vlessRealityGRPC", "vlessRealityXHTTP", "vlessTLS", "vlessTLSWS", "vlessTLSXHTTP",
         "vlessCaddyXHTTP", "vlessTLSGRPC", "vlessTLSUpgrade", "vmessWS", "vmessTCP", "vmessTLSWS", "trojanTLS",
         "trojanTLSWS", "hysteria2", "socks", "socksPublic"}
  BY DEF Templates
<1>6. QED
  BY <1>1, <1>2, <1>3, <1>4, <1>5

(* The inbounds: each has its users, and finitely many.                    *)

HasUsers(in) == "users" \in DOMAIN in /\ IsFiniteSet(in.users)
InboundsInv == (\E S : inbounds \in Seq(S)) /\ \A k \in DOMAIN inbounds : HasUsers(inbounds[k])

LEMMA MaterializeKeepsUsers ==
  ASSUME NEW in, NEW n, "users" \in DOMAIN in
  PROVE  "users" \in DOMAIN Materialize(in, n) /\ Materialize(in, n).users = in.users
BY DEF Materialize

LEMMA AddsUsers ==
  ASSUME NEW req \in Requests, NEW n
  PROVE  HasUsers(Assigned(InboundAdd(req, n), {}))
<1> DEFINE blank == [port |-> 0, publicHost |-> Blank, host |-> Blank, mode |-> Blank, tlsSNI |-> Blank,
                     realitySNI |-> Blank, user |-> Blank, realityKey |-> Blank, realityPublicKey |-> Blank,
                     realityShortID |-> Blank, cert |-> Blank, users |-> {}]
           in == req.template ++ blank
           pre == IF IsCaddyXHTTP(in) THEN [CaddyEndpoint(in, n) EXCEPT !.mode = "packet-up"] ELSE in
           made == Materialize(pre, n)
           asked == [made EXCEPT !.publicHost = req.publicHost, !.path = OrDefault(req.path, @),
                                 !.mode = OrDefault(req.mode, @)]
<1>1. "users" \in DOMAIN blank /\ blank["users"] = {}
  OBVIOUS
<1> HIDE DEF blank
<1>2. "users" \in DOMAIN in /\ in["users"] = {}
  <2>1. "users" \notin DOMAIN req.template
    BY ProbeAssumption, TemplatesAre DEF IsTemplate, TemplateFields
  <2>2. QED
    BY <1>1, <2>1 DEF ++
<1> HIDE DEF in
<1>3. "users" \in DOMAIN pre /\ pre.users = {}
  BY <1>2 DEF CaddyEndpoint
<1> HIDE DEF pre
<1>4. "users" \in DOMAIN made /\ made.users = {}
  BY <1>3, MaterializeKeepsUsers
<1> HIDE DEF made
<1>5. "users" \in DOMAIN asked /\ asked.users = {}
  BY <1>4
<1>6. InboundAdd(req, n) = Materialize(asked, n)
  BY DEF InboundAdd, NewInboundFromTemplate, asked, made, pre, in, blank
<1> HIDE DEF asked
<1>7. "users" \in DOMAIN InboundAdd(req, n) /\ InboundAdd(req, n).users = {}
  BY <1>5, <1>6, MaterializeKeepsUsers
<1>8. QED
  BY <1>7, FS_EmptySet DEF Assigned, HasUsers

LEMMA EditKeepsUsers ==
  ASSUME NEW in, HasUsers(in), NEW edit, "users" \notin DOMAIN edit, NEW n
  PROVE  HasUsers(InboundSetConfig(in, edit, n))
<1> DEFINE both == edit ++ in
           made == Materialize(both, n)
<1>1. "users" \in DOMAIN both /\ both["users"] = in["users"]
  BY DEF HasUsers, ++
<1> HIDE DEF both
<1>2. "users" \in DOMAIN made /\ made.users = in.users
  BY <1>1, MaterializeKeepsUsers
<1>3. InboundSetConfig(in, edit, n) = [made EXCEPT !.port = IF Lacks(made) THEN in.port ELSE @]
  BY DEF InboundSetConfig, both
<1> HIDE DEF made
<1>4. QED
  BY <1>2, <1>3 DEF HasUsers

LEMMA DuplicateHasUsers ==
  ASSUME NEW src, HasUsers(src), NEW n, NEW used
  PROVE  HasUsers(Assigned(DuplicateInbound(src, n), used))
<1> DEFINE dup == [src EXCEPT !.port = 0, !.users = {},
                     !.realityKey = Blank, !.realityPublicKey = Blank, !.realityShortID = Blank, !.cert = Blank,
                     !.user = IF src.protocol \in {"hysteria", "socks"} THEN @ ELSE Blank]
           pre == IF IsCaddyXHTTP(src) THEN CaddyEndpoint(dup, n) ELSE dup
<1>1. "users" \in DOMAIN dup /\ dup.users = {}
  BY DEF HasUsers
<1> HIDE DEF dup
<1>2. "users" \in DOMAIN pre /\ pre.users = {}
  BY <1>1 DEF CaddyEndpoint
<1>3. DuplicateInbound(src, n) = Materialize(pre, n)
  BY DEF DuplicateInbound, pre, dup
<1> HIDE DEF pre
<1>4. "users" \in DOMAIN DuplicateInbound(src, n) /\ DuplicateInbound(src, n).users = {}
  BY <1>2, <1>3, MaterializeKeepsUsers
<1>5. QED
  BY <1>4, FS_EmptySet DEF Assigned, HasUsers

LEMMA InboundsStep ==
  ASSUME InboundsInv, Next
  PROVE  InboundsInv'
<1>0. PICK S : inbounds \in Seq(S)
  BY DEF InboundsInv
<1>1. CASE Add
  <2>1. PICK req \in Requests : inbounds' = <<Assigned(InboundAdd(req, calls), {})>>
    BY <1>1 DEF Add
  <2> DEFINE in == Assigned(InboundAdd(req, calls), {})
  <2>2. HasUsers(in)
    BY AddsUsers
  <2>3. inbounds' = <<in>>
    BY <2>1
  <2> HIDE DEF in
  <2>4. inbounds' \in Seq({in}) /\ \A k \in DOMAIN inbounds' : inbounds'[k] = in
    BY <2>3
  <2>5. QED
    BY <2>2, <2>4 DEF InboundsInv
<1>2. ASSUME NEW k \in DOMAIN inbounds, NEW in, HasUsers(in), inbounds' = [inbounds EXCEPT ![k] = in]
      PROVE  InboundsInv'
  <2>1. inbounds' \in Seq(S \cup {in})
    BY <1>0, <1>2
  <2>2. \A m \in DOMAIN inbounds' : m \in DOMAIN inbounds /\ (inbounds'[m] = in \/ inbounds'[m] = inbounds[m])
    BY <1>2
  <2>3. QED
    BY <1>2, <2>1, <2>2 DEF InboundsInv
<1>3. CASE Edit
  <2>1. PICK k \in DOMAIN inbounds : /\ Kind(inbounds[k]) \in DOMAIN Edits
                                     /\ \E edit \in Edits[Kind(inbounds[k])] :
                                          inbounds' = [inbounds EXCEPT ![k] = InboundSetConfig(inbounds[k], edit, calls)]
    BY <1>3 DEF Edit
  <2>2. PICK edit \in Edits[Kind(inbounds[k])] :
               inbounds' = [inbounds EXCEPT ![k] = InboundSetConfig(inbounds[k], edit, calls)]
    BY <2>1
  <2> DEFINE in == InboundSetConfig(inbounds[k], edit, calls)
  <2>3. "users" \notin DOMAIN edit
    BY <2>1, EditsAssumption
  <2>4. HasUsers(in)
    BY <2>3, EditKeepsUsers DEF InboundsInv
  <2>5. inbounds' = [inbounds EXCEPT ![k] = in]
    BY <2>2
  <2> HIDE DEF in
  <2>6. QED
    BY <1>2, <2>4, <2>5
<1>4. CASE Duplicate
  <2>1. PICK k \in DOMAIN inbounds :
               inbounds' = Append(inbounds, Assigned(DuplicateInbound(inbounds[k], calls), Used(inbounds)))
    BY <1>4 DEF Duplicate
  <2> DEFINE in == Assigned(DuplicateInbound(inbounds[k], calls), Used(inbounds))
  <2>2. HasUsers(in)
    BY DuplicateHasUsers DEF InboundsInv
  <2>3. inbounds' = Append(inbounds, in)
    BY <2>1
  <2> HIDE DEF in
  <2>4. inbounds' \in Seq(S \cup {in})
    BY <1>0, <2>3
  <2>5. \A m \in DOMAIN inbounds' : inbounds'[m] = in \/ (m \in DOMAIN inbounds /\ inbounds'[m] = inbounds[m])
    BY <1>0, <2>3
  <2>6. QED
    BY <2>2, <2>4, <2>5 DEF InboundsInv
<1>5. CASE UserAdd
  <2>1. PICK k \in DOMAIN inbounds :
               inbounds' = [inbounds EXCEPT ![k].users = @ \cup {NewInboundUser(calls)}]
    BY <1>5 DEF UserAdd
  <2> DEFINE in == [inbounds[k] EXCEPT !.users = @ \cup {NewInboundUser(calls)}]
  <2>2. HasUsers(inbounds[k])
    BY DEF InboundsInv
  <2>3. IsFiniteSet(inbounds[k].users \cup {NewInboundUser(calls)})
    BY <2>2, FS_AddElement DEF HasUsers
  <2>4. HasUsers(in)
    BY <2>2, <2>3 DEF HasUsers
  <2>5. inbounds' = [inbounds EXCEPT ![k] = in]
    BY <2>1
  <2> HIDE DEF in
  <2>6. QED
    BY <1>2, <2>4, <2>5
<1>6. CASE UserDisable
  <2>0. PICK k \in DOMAIN inbounds : \E u \in inbounds[k].users :
               inbounds' = [inbounds EXCEPT ![k].users = (@ \ {u}) \cup {[u EXCEPT !.enabled = FALSE]}]
    BY <1>6 DEF UserDisable
  <2>1. PICK u \in inbounds[k].users :
               inbounds' = [inbounds EXCEPT ![k].users = (@ \ {u}) \cup {[u EXCEPT !.enabled = FALSE]}]
    BY <2>0
  <2> DEFINE off == [u EXCEPT !.enabled = FALSE]
             in == [inbounds[k] EXCEPT !.users = (@ \ {u}) \cup {off}]
  <2>2. HasUsers(inbounds[k])
    BY DEF InboundsInv
  <2> HIDE DEF off
  <2>3. IsFiniteSet((inbounds[k].users \ {u}) \cup {off})
    BY <2>2, FS_AddElement, FS_RemoveElement DEF HasUsers
  <2>4. HasUsers(in)
    BY <2>2, <2>3 DEF HasUsers
  <2>5. inbounds' = [inbounds EXCEPT ![k] = in]
    BY <2>1 DEF off
  <2> HIDE DEF in
  <2>6. QED
    BY <1>2, <2>4, <2>5
<1>7. CASE Subscribe \/ Step \/ Cancel
  <2>1. UNCHANGED inbounds
    BY <1>7 DEF Subscribe, Step, Cancel, StartXray, StartFails, StartCancelled, ProbeThrough, EndBatch, Test, given
  <2>2. QED
    BY <2>1 DEF InboundsInv
<1>8. QED
  BY <1>1, <1>3, <1>4, <1>5, <1>6, <1>7 DEF Next

\* The links of the inbounds are finitely many.
LEMMA SharedAreFinite ==
  ASSUME InboundsInv, NEW ip
  PROVE  IsFiniteSet(UNION {SharedLinks(inbounds[k], ip) : k \in DOMAIN inbounds})
<1> DEFINE of == [k \in DOMAIN inbounds |-> SharedLinks(inbounds[k], ip)]
           all == {SharedLinks(inbounds[k], ip) : k \in DOMAIN inbounds}
<1>1. \A k \in DOMAIN inbounds : IsFiniteSet(SharedLinks(inbounds[k], ip))
  <2> SUFFICES ASSUME NEW k \in DOMAIN inbounds PROVE IsFiniteSet(SharedLinks(inbounds[k], ip))
    OBVIOUS
  <2> DEFINE in == inbounds[k]
             U == in.users
             T == {InboundUserInfo(in, ip, u) : u \in U}
             f == [u \in U |-> InboundUserInfo(in, ip, u)]
  <2>1. IsFiniteSet(U)
    BY DEF InboundsInv, HasUsers
  <2> HIDE DEF in, U
  <2>2. f \in Surjection(U, T)
    BY DEF Surjection
  <2> HIDE DEF f, T
  <2>3. IsFiniteSet(T)
    BY <2>1, <2>2, FS_Surjection
  <2>4. SharedLinks(in, ip) = T \cup {InboundInfo(in, ip)}
    BY DEF SharedLinks, T, U
  <2>5. IsFiniteSet(T \cup {InboundInfo(in, ip)})
    BY <2>3, FS_AddElement
  <2>6. QED
    BY <2>4, <2>5 DEF in
<1>2. IsFiniteSet(DOMAIN inbounds)
  <2>1. PICK S : inbounds \in Seq(S)
    BY DEF InboundsInv
  <2>2. DOMAIN inbounds = 1 .. Len(inbounds) /\ Len(inbounds) \in Nat
    BY <2>1
  <2>3. QED
    BY <2>2, FS_Interval
<1>3. of \in Surjection(DOMAIN inbounds, all)
  BY DEF Surjection
<1>4. \A T \in all : IsFiniteSet(T)
  BY <1>1
<1> HIDE DEF of
<1>5. IsFiniteSet(all)
  <2> HIDE DEF all
  <2>1. QED
    BY <1>2, <1>3, FS_Surjection
<1>6. IsFiniteSet(UNION all)
  <2> HIDE DEF all
  <2>1. QED
    BY <1>4, <1>5, FS_UNION
<1>7. QED
  BY <1>6

LEMMA SetToSeqIs ==
  ASSUME NEW S, IsFiniteSet(S)
  PROVE  SetToSeq(S) \in Seq(S)
<1> DEFINE n == Cardinality(S)
<1>1. n \in Nat /\ ExistsBijection(1 .. n, S)
  BY FS_CardinalityType
<1> HIDE DEF n
<1>2. PICK f \in Bijection(1 .. n, S) : TRUE
  BY <1>1 DEF ExistsBijection
<1>3. f \in [1 .. n -> S] /\ IsInjective(f)
  BY <1>2 DEF Bijection, Injection, IsInjective
<1>4. SetToSeq(S) \in [1 .. n -> S]
  BY <1>3 DEF SetToSeq, n
<1>5. QED
  BY <1>1, <1>4

-----------------------------------------------------------------------------
(* What a test has found out so far.                                       *)

Found == [ms : 0 .. 2, passed : Nat, err : {Blank, "start", "request"}]

ProbeTypeOK ==
  /\ items \in Seq(ToSet(items))
  /\ fate \in [DOMAIN items -> Fates]
  /\ tries \in [DOMAIN items -> 0 .. Attempts]
  /\ result \in [DOMAIN items -> Found]
  /\ latency \in [DOMAIN items -> 0 .. 9]
  /\ hiccups \in Nat
  /\ ctx \in BOOLEAN
  /\ pc \in {"managing", "start", "probing", "done"}

\* Whoever passed carries traffic, and only then has a figure.
Figures(i) ==
  /\ result[i].passed > 0 => fate[i] = "good"
  /\ result[i].passed = 0 => result[i].ms = 0
  /\ latency[i] \in 1 .. 2 => fate[i] = "good"

\* A node of the batch that is tried.
InProgress(i) ==
  /\ fate[i] # "poison"
  /\ result[i].err # "start"
  /\ result[i].passed <= tries[i]
  /\ tries[i] < Attempts => result[i].err = Blank
  /\ tries[i] = Attempts => (result[i].err = Blank <=> result[i].passed > 0)

\* A node whose turn is over.
RightlyBlamed(i) ==
  /\ result[i].err = "start" <=> fate[i] = "poison"
  /\ result[i].err = Blank <=> result[i].passed > 0
  /\ result[i].passed <= Attempts

Waiting == IF pc = "probing" THEN Planned(Tail(queue)) ELSE Planned(queue)

ProbeInv ==
  /\ ProbeTypeOK
  /\ IsPlan(items, queue)
  /\ pc = "probing" => queue # <<>> /\ \A i \in batch : InProgress(i)
  /\ pc = "done" => queue = <<>>
  /\ \A i \in DOMAIN items : Figures(i)
  /\ \A i \in Waiting : result[i] = Untested
  /\ ctx /\ hiccups = 0 => \A i \in DOMAIN items \ Planned(queue) : RightlyBlamed(i)

AllParsed == \A i \in DOMAIN items : IsParsed(items[i].out)

LEMMA ErrorsDiffer == Blank # "start" /\ Blank # "request" /\ "start" # "request"
BY DEF Blank

LEMMA PassedIs ==
  ASSUME NEW r \in Found, NEW ms \in 1 .. 2
  PROVE  /\ Passed(r, ms) \in Found
         /\ Passed(r, ms).passed = r.passed + 1 /\ Passed(r, ms).err = r.err
<1> DEFINE m == IF r.passed = 0 \/ ms < r.ms THEN ms ELSE r.ms
<1>1. r = [ms |-> r.ms, passed |-> r.passed, err |-> r.err]
      /\ r.ms \in 0 .. 2 /\ r.passed \in Nat /\ r.err \in {Blank, "start", "request"}
  BY DEF Found
<1>2. m \in 0 .. 2
  BY <1>1
<1>3. Passed(r, ms) = [r EXCEPT !.passed = r.passed + 1, !.ms = m]
  BY DEF Passed
<1> HIDE DEF m
<1>4. Passed(r, ms) = [ms |-> m, passed |-> r.passed + 1, err |-> r.err]
  BY <1>1, <1>3
<1>5. QED
  BY <1>1, <1>2, <1>4 DEF Found

LEMMA FailedIs ==
  ASSUME NEW r \in Found, NEW last \in BOOLEAN
  PROVE  /\ Failed(r, last) \in Found
         /\ Failed(r, last).passed = r.passed /\ Failed(r, last).ms = r.ms
         /\ Failed(r, last).err = IF last /\ r.passed = 0 THEN "request" ELSE r.err
BY DEF Failed, Found

LEMMA UntestedIs ==
  Untested \in Found /\ Untested.passed = 0 /\ Untested.ms = 0 /\ Untested.err = Blank
BY DEF Untested, Found

\* The batch at hand, and what comes after it.
LEMMA AtHand ==
  ASSUME ProbeInv, queue # <<>>
  PROVE  /\ batch \in SUBSET DOMAIN items
         /\ IsPlan(items, Tail(queue)) /\ IsBatch(items, Head(queue))
         /\ Planned(queue) = Planned(Tail(queue)) \cup batch
         /\ Planned(Tail(queue)) \cap batch = {}
<1>1. IsPlan(items, queue)
  BY DEF ProbeInv
<1>2. IsBatch(items, Head(queue))
  BY <1>1, TailOfPlan
<1>3. batch \in SUBSET DOMAIN items
  BY <1>2 DEF batch, ToSet, IsBatch
<1>4. QED
  BY <1>1, <1>3, TailOfPlan DEF batch

LEMMA PlannedAreItems ==
  ASSUME NEW its, NEW plan, IsPlan(its, plan)
  PROVE  Planned(plan) \in SUBSET DOMAIN its
<1>1. \A n \in 1 .. Len(plan) : ToSet(plan[n]) \in SUBSET DOMAIN its
  BY DEF IsPlan, IsBatch, ToSet
<1>2. \A x : x \in Planned(plan) => x \in DOMAIN its
  BY <1>1, PlannedIs
<1>3. QED
  BY <1>2

LEMMA NothingPlanned == Planned(<<>>) = {}
<1>1. Len(<<>>) = 0
  OBVIOUS
<1>2. \A x : x \notin Planned(<<>>)
  BY <1>1, PlannedIs
<1>3. QED
  BY <1>2

LEMMA EmptyPlan == \A its : IsPlan(its, <<>>)
<1>1. <<>> \in Seq(Seq({}))
  OBVIOUS
<1>2. \A its : <<>> \in Seq(Seq(DOMAIN its)) /\ Len(<<>>) = 0
  OBVIOUS
<1>3. QED
  BY <1>2 DEF IsPlan

(* The invariant, action by action.                                        *)
LEMMA CancelKeeps ==
  ASSUME ProbeInv, Cancel
  PROVE  ProbeInv'
<1>1. UNCHANGED <<items, fate, queue, tries, result, latency, hiccups, pc>> /\ ctx' = FALSE
  BY DEF Cancel, given
<1>2. (\A i \in DOMAIN items : Figures(i))'
  BY <1>1 DEF ProbeInv, Figures
<1>3. batch' = batch /\ Waiting' = Waiting
  BY <1>1 DEF batch, Waiting
<1>4. (pc = "probing" => queue # <<>> /\ \A i \in batch : InProgress(i))'
  BY <1>1, <1>3 DEF ProbeInv, InProgress
<1>5. (\A i \in Waiting : result[i] = Untested)'
  BY <1>1, <1>3 DEF ProbeInv
<1>6. ProbeTypeOK'
  BY <1>1 DEF ProbeInv, ProbeTypeOK
<1>7. IsPlan(items, queue)' /\ (pc = "done" => queue = <<>>)'
  BY <1>1 DEF ProbeInv
<1>8. QED
  BY <1>1, <1>2, <1>4, <1>5, <1>6, <1>7 DEF ProbeInv

LEMMA StartXrayKeeps ==
  ASSUME ProbeInv, StartXray
  PROVE  ProbeInv'
<1>1. /\ UNCHANGED <<items, fate, queue, result, latency, ctx, hiccups>> /\ pc' = "probing"
      /\ tries' = [i \in DOMAIN items |-> IF i \in batch THEN 0 ELSE Attempts]
      /\ pc = "start" /\ queue # <<>> /\ \A i \in batch : fate[i] # "poison"
  BY DEF StartXray, given
<1>2. (\A i \in DOMAIN items : Figures(i))'
  BY <1>1 DEF ProbeInv, Figures
<1>3. batch' = batch /\ Waiting = Planned(queue) /\ Waiting' = Planned(Tail(queue))
  BY <1>1 DEF batch, Waiting
<1>4. ASSUME NEW i \in batch
      PROVE  InProgress(i)'
  <2>1. i \in DOMAIN items /\ i \in Waiting
    BY <1>1, <1>3, AtHand
  <2>2. result[i] = Untested
    BY <2>1 DEF ProbeInv
  <2>3. tries'[i] = 0 /\ Attempts # 0
    BY <1>1, <2>1, ProbeAssumption
  <2>4. QED
    BY <1>1, <2>2, <2>3, UntestedIs, ErrorsDiffer DEF InProgress
<1>5. (\A i \in Waiting : result[i] = Untested)'
  BY <1>1, <1>3, AtHand DEF ProbeInv
<1>6. ProbeTypeOK'
  <2>1. tries' \in [DOMAIN items -> 0 .. Attempts]
    BY <1>1, ProbeAssumption
  <2>2. QED
    BY <1>1, <2>1 DEF ProbeInv, ProbeTypeOK
<1>7. IsPlan(items, queue)' /\ (pc = "done" => queue = <<>>)'
  BY <1>1 DEF ProbeInv
<1>8. (ctx /\ hiccups = 0 => \A i \in DOMAIN items \ Planned(queue) : RightlyBlamed(i))'
  BY <1>1 DEF ProbeInv, RightlyBlamed
<1>9. QED
  BY <1>1, <1>2, <1>3, <1>4, <1>5, <1>6, <1>7, <1>8 DEF ProbeInv

LEMMA StartCancelledKeeps ==
  ASSUME ProbeInv, StartCancelled
  PROVE  ProbeInv'
<1>1. UNCHANGED <<items, fate, tries, result, latency, ctx, hiccups, pc>> /\ queue' = <<>> /\ ~ctx /\ pc = "start"
  BY DEF StartCancelled, given
<1>2. (\A i \in DOMAIN items : Figures(i))'
  BY <1>1 DEF ProbeInv, Figures
<1>3. Waiting' = {}
  BY <1>1, NothingPlanned DEF Waiting
<1>4. ProbeTypeOK'
  BY <1>1 DEF ProbeInv, ProbeTypeOK
<1>5. IsPlan(items, queue)'
  BY <1>1, EmptyPlan
<1>6. QED
  BY <1>1, <1>2, <1>3, <1>4, <1>5 DEF ProbeInv

LEMMA TestKeeps ==
  ASSUME ProbeInv, Test
  PROVE  ProbeInv'
<1>1. /\ UNCHANGED <<items, fate, queue, tries, result, ctx, hiccups>> /\ pc' = "done"
      /\ latency' = [i \in DOMAIN items |-> result[i].ms] /\ pc = "start" /\ queue = <<>>
  BY DEF Test, given
<1>2. \A i \in DOMAIN items : result[i] \in Found
  BY DEF ProbeInv, ProbeTypeOK
<1>3. \A i \in DOMAIN items : latency'[i] = result[i].ms /\ result[i].ms \in 0 .. 2 /\ result[i].passed \in Nat
  BY <1>1, <1>2 DEF Found
<1>4. (\A i \in DOMAIN items : Figures(i))'
  BY <1>1, <1>3 DEF ProbeInv, Figures
<1>5. Waiting' = Waiting
  BY <1>1 DEF Waiting
<1>6. ProbeTypeOK'
  <2>1. latency' \in [DOMAIN items -> 0 .. 9]
    BY <1>1, <1>3
  <2>2. QED
    BY <1>1, <2>1 DEF ProbeInv, ProbeTypeOK
<1>7. (\A i \in Waiting : result[i] = Untested)'
  BY <1>1, <1>5 DEF ProbeInv
<1>8. (ctx /\ hiccups = 0 => \A i \in DOMAIN items \ Planned(queue) : RightlyBlamed(i))'
  BY <1>1 DEF ProbeInv, RightlyBlamed
<1>9. QED
  BY <1>1, <1>4, <1>6, <1>7, <1>8 DEF ProbeInv

LEMMA EndBatchKeeps ==
  ASSUME ProbeInv, EndBatch
  PROVE  ProbeInv'
<1>1. /\ UNCHANGED <<items, fate, tries, result, latency, ctx, hiccups>> /\ pc' = "start"
      /\ queue' = IF ctx THEN Tail(queue) ELSE <<>>
      /\ pc = "probing" /\ \A i \in batch : tries[i] = Attempts
  BY DEF EndBatch, given
<1>2. queue # <<>> /\ \A i \in batch : InProgress(i)
  BY <1>1 DEF ProbeInv
<1>3. (\A i \in DOMAIN items : Figures(i))'
  BY <1>1 DEF ProbeInv, Figures
<1>4. (\A i \in Waiting : result[i] = Untested)'
  <2>1. Waiting = Planned(Tail(queue)) /\ Waiting' = Planned(queue')
    BY <1>1 DEF Waiting
  <2>2. Waiting' \in SUBSET Waiting
    BY <1>1, <2>1, NothingPlanned
  <2>3. QED
    BY <1>1, <2>2 DEF ProbeInv
<1>5. ProbeTypeOK'
  BY <1>1 DEF ProbeInv, ProbeTypeOK
<1>6. IsPlan(items, queue)'
  BY <1>1, <1>2, AtHand, EmptyPlan
<1>7. ASSUME ctx', hiccups' = 0, NEW i \in DOMAIN items \ Planned(queue')
      PROVE  RightlyBlamed(i)'
  <2>1. ctx /\ hiccups = 0 /\ queue' = Tail(queue)
    BY <1>1, <1>7
  <2>2. i \in batch \/ i \in DOMAIN items \ Planned(queue)
    BY <1>2, <1>7, <2>1, AtHand
  <2>3. CASE i \in batch
    <3>1. InProgress(i) /\ tries[i] = Attempts
      BY <1>1, <1>2, <2>3
    <3>2. RightlyBlamed(i)
      BY <3>1 DEF InProgress, RightlyBlamed
    <3>3. QED
      BY <1>1, <3>2 DEF RightlyBlamed
  <2>4. CASE i \in DOMAIN items \ Planned(queue)
    BY <1>1, <2>1, <2>4 DEF ProbeInv, RightlyBlamed
  <2>5. QED
    BY <2>2, <2>3, <2>4
<1>8. QED
  BY <1>1, <1>3, <1>4, <1>5, <1>6, <1>7 DEF ProbeInv

\* A node that shares no session in its batch only passes by itself.
LEMMA OnlyTheGoodPass ==
  ASSUME ProbeInv, queue # <<>>, NEW i \in batch, MayPass(i)
  PROVE  fate[i] = "good"
<1>1. SUFFICES ASSUME NEW j \in batch, SameSession(items, i, j), fate[j] = "good" PROVE i = j
  BY DEF MayPass
<1>2. IsBatch(items, Head(queue)) /\ Head(queue) \in Seq(DOMAIN items)
  BY AtHand DEF IsBatch
<1>3. DOMAIN Head(queue) = 1 .. Len(Head(queue))
  BY <1>2
<1>4. PICK k \in 1 .. Len(Head(queue)) : Head(queue)[k] = i
  BY <1>3 DEF batch, ToSet
<1>5. PICK m \in 1 .. Len(Head(queue)) : Head(queue)[m] = j
  BY <1>3 DEF batch, ToSet
<1>6. QED
  BY <1>1, <1>2, <1>4, <1>5 DEF IsBatch

LEMMA ProbeThroughKeeps ==
  ASSUME ProbeInv, NEW i, ProbeThrough(i)
  PROVE  ProbeInv'
<1>1. /\ UNCHANGED <<items, fate, queue, latency, ctx, hiccups, pc>> /\ pc = "probing"
      /\ i \in batch /\ tries[i] < Attempts
      /\ tries' = [tries EXCEPT ![i] = @ + 1]
  BY DEF ProbeThrough, given
<1>2. queue # <<>> /\ \A j \in batch : InProgress(j)
  BY <1>1 DEF ProbeInv
<1>3. /\ i \in DOMAIN items /\ i \notin Planned(Tail(queue)) /\ i \in Planned(queue)
      /\ batch \in SUBSET DOMAIN items
  BY <1>1, <1>2, AtHand
<1>4. /\ result[i] \in Found /\ result[i].passed \in Nat /\ tries[i] \in Nat /\ Attempts \in Nat
      /\ fate \in [DOMAIN items -> Fates] /\ tries \in [DOMAIN items -> 0 .. Attempts]
      /\ result \in [DOMAIN items -> Found]
  BY <1>3, ProbeAssumption DEF ProbeInv, ProbeTypeOK, Found
<1>5. tries'[i] = tries[i] + 1 /\ \A j \in DOMAIN items \ {i} : tries'[j] = tries[j]
  BY <1>1, <1>3, <1>4
<1>6. InProgress(i) /\ Figures(i) /\ result[i].err = Blank
  BY <1>1, <1>2, <1>3 DEF InProgress, ProbeInv
\* What the request does to the result of i.
<1>7. \E r \in Found : /\ result' = [result EXCEPT ![i] = r]
                       /\ r.passed > 0 => fate[i] = "good"
                       /\ r.passed = 0 => r.ms = 0
                       /\ r.passed <= tries[i] + 1 /\ r.err # "start"
                       /\ tries[i] + 1 < Attempts => r.err = Blank
                       /\ tries[i] + 1 = Attempts => (r.err = Blank <=> r.passed > 0)
  <2>1. CASE /\ ctx /\ MayPass(i)
             /\ \E ms \in 1 .. 2 : result' = [result EXCEPT ![i] = Passed(@, ms)]
    <3>1. PICK ms \in 1 .. 2 : result' = [result EXCEPT ![i] = Passed(@, ms)]
      BY <2>1
    <3>2. fate[i] = "good"
      BY <1>1, <1>2, <2>1, OnlyTheGoodPass
    <3> DEFINE r == Passed(result[i], ms)
    <3>3. r \in Found /\ r.passed = result[i].passed + 1 /\ r.err = Blank
      BY <1>4, <1>6, PassedIs
    <3>4. result' = [result EXCEPT ![i] = r]
      BY <3>1
    <3> HIDE DEF r
    <3>5. result[i].passed <= tries[i]
      BY <1>6 DEF InProgress
    <3>6. r.passed > 0 /\ r.passed # 0 /\ r.passed <= tries[i] + 1
      BY <1>4, <3>3, <3>5
    <3>7. QED
      BY <3>2, <3>3, <3>4, <3>6, ErrorsDiffer
  <2>2. CASE result' = [result EXCEPT ![i] = Failed(@, tries'[i] = Attempts)]
    <3> DEFINE last == tries'[i] = Attempts
               r == Failed(result[i], last)
    <3>0. last \in BOOLEAN /\ (last <=> tries[i] + 1 = Attempts)
      BY <1>5
    <3>1. result' = [result EXCEPT ![i] = r]
      BY <2>2
    <3> HIDE DEF last
    <3>2. /\ r \in Found /\ r.passed = result[i].passed /\ r.ms = result[i].ms
          /\ r.err = IF last /\ result[i].passed = 0 THEN "request" ELSE Blank
      BY <1>4, <1>6, <3>0, FailedIs
    <3> HIDE DEF r
    <3>3. /\ result[i].passed <= tries[i] + 1
          /\ result[i].passed > 0 => fate[i] = "good"
          /\ result[i].passed = 0 => result[i].ms = 0
      BY <1>4, <1>6 DEF InProgress, Figures
    <3>4. r.err # "start" /\ (tries[i] + 1 < Attempts => r.err = Blank)
      BY <1>4, <3>0, <3>2, ErrorsDiffer
    <3>5. tries[i] + 1 = Attempts => (r.err = Blank <=> r.passed > 0)
      BY <1>4, <3>0, <3>2, ErrorsDiffer
    <3>6. QED
      BY <3>1, <3>2, <3>3, <3>4, <3>5
  <2>3. QED
    BY <2>1, <2>2 DEF ProbeThrough
<1>8. PICK r \in Found : /\ result' = [result EXCEPT ![i] = r]
                         /\ r.passed > 0 => fate[i] = "good"
                         /\ r.passed = 0 => r.ms = 0
                         /\ r.passed <= tries[i] + 1 /\ r.err # "start"
                         /\ tries[i] + 1 < Attempts => r.err = Blank
                         /\ tries[i] + 1 = Attempts => (r.err = Blank <=> r.passed > 0)
  BY <1>7
<1>9. result'[i] = r /\ \A j \in DOMAIN items \ {i} : result'[j] = result[j]
  BY <1>3, <1>4, <1>8
<1>10. (\A j \in DOMAIN items : Figures(j))'
  <2>1. ASSUME NEW j \in DOMAIN items PROVE Figures(j)'
    <3>1. CASE j = i
      <4>1. fate' = fate /\ latency' = latency /\ (latency[i] \in 1 .. 2 => fate[i] = "good")
        BY <1>1, <1>6 DEF Figures
      <4>2. QED
        BY <1>8, <1>9, <3>1, <4>1 DEF Figures
    <3>2. CASE j # i
      BY <1>1, <1>9, <3>2 DEF ProbeInv, Figures
    <3>3. QED
      BY <3>1, <3>2
  <2>2. QED
    BY <1>1, <2>1
<1>11. batch' = batch /\ Waiting = Planned(Tail(queue)) /\ Waiting' = Waiting
  BY <1>1 DEF batch, Waiting
<1>12. (\A j \in batch : InProgress(j))'
  <2>1. ASSUME NEW j \in batch PROVE InProgress(j)'
    <3>1. CASE j = i
      <4>1. fate'[i] # "poison"
        BY <1>1, <1>6 DEF InProgress
      <4>2. QED
        BY <1>5, <1>8, <1>9, <3>1, <4>1 DEF InProgress
    <3>2. CASE j # i
      <4>1. InProgress(j) /\ tries'[j] = tries[j] /\ result'[j] = result[j] /\ fate' = fate
        BY <1>1, <1>2, <1>3, <1>5, <1>9, <3>2
      <4>2. QED
        BY <4>1 DEF InProgress
    <3>3. QED
      BY <3>1, <3>2
  <2>2. QED
    BY <1>11, <2>1
<1>13. (\A j \in Waiting : result[j] = Untested)'
  <2>1. \A j \in Waiting : j \in DOMAIN items \ {i} /\ result[j] = Untested
    <3>1. Planned(Tail(queue)) \in SUBSET DOMAIN items
      BY <1>2, AtHand, PlannedAreItems
    <3>2. QED
      BY <1>3, <1>11, <3>1 DEF ProbeInv
  <2>2. QED
    BY <1>9, <1>11, <2>1
<1>14. ProbeTypeOK'
  <2>1. tries' \in [DOMAIN items -> 0 .. Attempts] /\ result' \in [DOMAIN items -> Found]
    <3>1. tries[i] + 1 \in 0 .. Attempts
      BY <1>1, <1>4
    <3>2. tries' \in [DOMAIN items -> 0 .. Attempts]
      BY <1>1, <1>3, <1>4, <3>1
    <3>3. result' \in [DOMAIN items -> Found]
      BY <1>3, <1>4, <1>8
    <3>4. QED
      BY <3>2, <3>3
  <2>2. QED
    BY <1>1, <2>1 DEF ProbeInv, ProbeTypeOK
<1>15. (ctx /\ hiccups = 0 => \A j \in DOMAIN items \ Planned(queue) : RightlyBlamed(j))'
  <2>1. ASSUME ctx, hiccups = 0, NEW j \in DOMAIN items \ Planned(queue)
        PROVE  RightlyBlamed(j)'
    <3>1. j # i /\ RightlyBlamed(j)
      BY <1>3, <2>1 DEF ProbeInv
    <3>2. result'[j] = result[j] /\ fate' = fate
      BY <1>1, <1>9, <3>1
    <3>3. QED
      BY <3>1, <3>2 DEF RightlyBlamed
  <2>2. QED
    BY <1>1, <2>1
<1>16. QED
  BY <1>1, <1>2, <1>10, <1>12, <1>13, <1>14, <1>15 DEF ProbeInv

LEMMA StartFailsKeeps ==
  ASSUME ProbeInv, StartFails
  PROVE  ProbeInv'
<1>1. /\ UNCHANGED <<items, fate, tries, latency, ctx, pc>> /\ pc = "start" /\ queue # <<>> /\ ctx
      /\ ((\E i \in batch : fate[i] = "poison") /\ UNCHANGED hiccups) \/ hiccups' = hiccups + 1
  BY DEF StartFails, given
<1>2. Waiting = Planned(queue) /\ Waiting' = Planned(queue')
  BY <1>1 DEF Waiting
<1>3. hiccups \in Nat /\ hiccups' \in Nat
  BY <1>1 DEF ProbeInv, ProbeTypeOK
<1>4. CASE Len(Head(queue)) = 1
  <2> DEFINE i == Head(queue)[1]
             r == [result[i] EXCEPT !.err = "start"]
  <2>1. result' = [result EXCEPT ![i] = r] /\ queue' = Tail(queue)
    BY <1>4 DEF StartFails
  <2>2. batch = {i}
    <3>1. Head(queue) \in Seq(DOMAIN items)
      BY <1>1, AtHand DEF IsBatch
    <3>2. DOMAIN Head(queue) = {1}
      BY <1>4, <3>1
    <3>3. QED
      BY <3>2 DEF batch, ToSet
  <2> HIDE DEF i
  <2>3. i \in DOMAIN items /\ i \in Planned(queue) /\ i \notin Planned(Tail(queue))
        /\ Planned(queue) = Planned(Tail(queue)) \cup {i}
    BY <1>1, <2>2, AtHand
  <2>4. result[i] = Untested
    BY <1>2, <2>3 DEF ProbeInv
  <2>5. r \in Found /\ r.err = "start" /\ r.passed = 0 /\ r.ms = 0
    BY <2>4 DEF Untested, Found
  <2> HIDE DEF r
  <2>6. result \in [DOMAIN items -> Found]
    BY DEF ProbeInv, ProbeTypeOK
  <2>7. result'[i] = r /\ \A j \in DOMAIN items \ {i} : result'[j] = result[j]
    BY <2>1, <2>3, <2>6
  <2>8. (\A j \in DOMAIN items : Figures(j))'
    <3>1. ASSUME NEW j \in DOMAIN items PROVE Figures(j)'
      <4>1. Figures(j) /\ fate' = fate /\ latency' = latency
        BY <1>1 DEF ProbeInv
      <4>2. CASE j = i
        BY <2>5, <2>7, <4>1, <4>2 DEF Figures
      <4>3. CASE j # i
        BY <2>7, <4>1, <4>3 DEF Figures
      <4>4. QED
        BY <4>2, <4>3
    <3>2. QED
      BY <1>1, <3>1
  <2>9. (\A j \in Waiting : result[j] = Untested)'
    <3>1. \A j \in Planned(queue') : j \in Waiting /\ j \in DOMAIN items \ {i}
      <4>1. Planned(queue) \in SUBSET DOMAIN items
        BY PlannedAreItems DEF ProbeInv
      <4>2. QED
        BY <1>2, <2>1, <2>3, <4>1
    <3>2. QED
      BY <1>2, <2>7, <3>1 DEF ProbeInv
  <2>10. ProbeTypeOK'
    <3>1. result' \in [DOMAIN items -> Found]
      BY <2>1, <2>5, <2>6
    <3>2. QED
      BY <1>1, <1>3, <3>1 DEF ProbeInv, ProbeTypeOK
  <2>11. IsPlan(items, queue)'
    BY <1>1, <2>1, AtHand
  <2>12. ASSUME hiccups' = 0, NEW j \in DOMAIN items \ Planned(queue')
         PROVE  RightlyBlamed(j)'
    <3>1. hiccups = 0 /\ fate[i] = "poison" /\ fate' = fate
      BY <1>1, <1>3, <2>2, <2>12
    <3>2. CASE j = i
      <4>1. result'[j] = r /\ fate'[j] = "poison"
        BY <2>7, <3>1, <3>2
      <4>2. QED
        BY <2>5, <4>1, ErrorsDiffer, ProbeAssumption DEF RightlyBlamed
    <3>3. CASE j # i
      <4>1. j \in DOMAIN items \ Planned(queue)
        BY <2>1, <2>3, <2>12, <3>3
      <4>2. RightlyBlamed(j) /\ result'[j] = result[j]
        BY <1>1, <2>7, <3>1, <3>3, <4>1 DEF ProbeInv
      <4>3. QED
        BY <3>1, <4>2 DEF RightlyBlamed
    <3>4. QED
      BY <3>2, <3>3
  <2>13. QED
    BY <1>1, <2>8, <2>9, <2>10, <2>11, <2>12 DEF ProbeInv
<1>5. CASE Len(Head(queue)) # 1
  <2>1. result' = result /\ queue' = Halves(Head(queue)) \o Tail(queue)
    BY <1>5 DEF StartFails
  <2>2. IsPlan(items, queue') /\ Planned(queue') = Planned(queue)
    BY <1>1, <1>5, <2>1, HalvedPlan DEF ProbeInv
  <2>3. (\A j \in DOMAIN items : Figures(j))'
    BY <1>1, <2>1 DEF ProbeInv, Figures
  <2>4. (\A j \in Waiting : result[j] = Untested)'
    BY <1>2, <2>1, <2>2 DEF ProbeInv
  <2>5. ProbeTypeOK'
    BY <1>1, <1>3, <2>1 DEF ProbeInv, ProbeTypeOK
  <2>6. ASSUME hiccups' = 0, NEW j \in DOMAIN items \ Planned(queue')
        PROVE  RightlyBlamed(j)'
    <3>1. hiccups = 0
      BY <1>1, <1>3, <2>6
    <3>2. RightlyBlamed(j)
      BY <1>1, <2>2, <2>6, <3>1 DEF ProbeInv
    <3>3. QED
      BY <1>1, <2>1, <3>2 DEF RightlyBlamed
  <2>7. QED
    BY <1>1, <2>2, <2>3, <2>4, <2>5, <2>6 DEF ProbeInv
<1>6. QED
  BY <1>4, <1>5

LEMMA ProbeInvInit == Init => ProbeInv /\ InboundsInv /\ AllParsed
<1> SUFFICES ASSUME Init PROVE ProbeInv /\ InboundsInv /\ AllParsed
  OBVIOUS
<1>1. /\ inbounds = <<>> /\ items = <<>> /\ fate = <<>> /\ queue = <<>> /\ tries = <<>> /\ result = <<>> /\ latency = <<>>
      /\ ctx = TRUE /\ hiccups = 0 /\ pc = "managing"
  BY DEF Init
<1>2. DOMAIN items = {} /\ DOMAIN inbounds = {} /\ inbounds \in Seq({}) /\ items \in Seq(ToSet(items))
  BY <1>1
<1>3. ProbeTypeOK
  BY <1>1, <1>2 DEF ProbeTypeOK
<1>4. IsPlan(items, queue) /\ Waiting = {}
  BY <1>1, EmptyPlan, NothingPlanned DEF Waiting
<1>5. ProbeInv
  BY <1>1, <1>2, <1>3, <1>4 DEF ProbeInv
<1>6. QED
  BY <1>2, <1>5 DEF InboundsInv, AllParsed

\* What is subscribed to: nodes that were parsed, each in one batch.
LEMMA SubscribeGives ==
  ASSUME NEW X, NEW body \in Seq(X), NEW via, Subscribed(body, via)
  PROVE  /\ items' \in Seq(ToSet(items'))
         /\ \A i \in DOMAIN items' : IsParsed(items'[i].out)
         /\ IsPlan(items', queue') /\ Planned(queue') = DOMAIN items'
<1> DEFINE nodes == ParseSubscriptionBody(body)
           N == Len(nodes)
<1>1. nodes \in Seq(ToSet(nodes)) /\ \A i \in DOMAIN nodes : IsParsed(nodes[i])
  BY BodyIsParsed
<1>2. items' = [i \in DOMAIN nodes |-> [out |-> nodes[i], via |-> via]]
      /\ queue' = PlanProbeBatches(items', Batch)
  BY DEF Subscribed, Items
<1> HIDE DEF nodes
<1>3. DOMAIN nodes = 1 .. N /\ N \in Nat
  BY <1>1
<1> HIDE DEF N
<1>4. DOMAIN items' = 1 .. N /\ \A i \in 1 .. N : items'[i] = [out |-> nodes[i], via |-> via]
  BY <1>2, <1>3
<1>5. \A i \in 1 .. N : IsParsed(items'[i].out)
  BY <1>1, <1>3, <1>4
<1>6. items' \in [1 .. N -> ToSet(items')]
  BY <1>2, <1>3, <1>4 DEF ToSet
<1>7. items' \in Seq(ToSet(items'))
  BY <1>3, <1>6
<1>8. IsPlan(items', queue') /\ Planned(queue') = 1 .. N
  BY <1>2, <1>3, <1>4, PlanIsPlan
<1>9. QED
  BY <1>4, <1>5, <1>7, <1>8

LEMMA BodyIsSequence ==
  ASSUME InboundsInv, Subscribe
  PROVE  \E body, via, X : body \in Seq(X) /\ Subscribed(body, via)
<1>1. CASE inbounds = <<>>
  <2>1. \E body \in Bodies, via \in Vias : Subscribed(body, via)
    BY <1>1 DEF Subscribe
  <2>2. \A body \in Bodies : body \in Seq(ToSet(body))
    BY ProbeAssumption
  <2>3. QED
    BY <2>1, <2>2
<1>2. CASE inbounds # <<>>
  <2>1. PICK ip \in PublicIPs :
               Subscribed(SetToSeq(UNION {SharedLinks(inbounds[k], ip) : k \in DOMAIN inbounds}), None)
    BY <1>2 DEF Subscribe
  <2> DEFINE all == UNION {SharedLinks(inbounds[k], ip) : k \in DOMAIN inbounds}
  <2>2. IsFiniteSet(all)
    BY SharedAreFinite
  <2>3. Subscribed(SetToSeq(all), None)
    BY <2>1
  <2> HIDE DEF all
  <2>4. SetToSeq(all) \in Seq(all)
    BY <2>2, SetToSeqIs
  <2>5. QED
    BY <2>3, <2>4
<1>3. QED
  BY <1>1, <1>2

LEMMA SubscribeKeeps ==
  ASSUME ProbeInv, InboundsInv, Subscribe
  PROVE  ProbeInv' /\ AllParsed'
<1>1. PICK body, via, X : body \in Seq(X) /\ Subscribed(body, via)
  BY BodyIsSequence
<1>2. /\ items' \in Seq(ToSet(items'))
      /\ \A i \in DOMAIN items' : IsParsed(items'[i].out)
      /\ IsPlan(items', queue') /\ Planned(queue') = DOMAIN items'
  BY <1>1, SubscribeGives
<1>3. /\ fate' \in [DOMAIN items' -> Fates]
      /\ tries' = [i \in DOMAIN items' |-> 0]
      /\ result' = [i \in DOMAIN items' |-> Untested]
      /\ latency' = [i \in DOMAIN items' |-> 9]
  BY <1>1 DEF Subscribed, Stored
<1>4. pc' = "start" /\ ctx' = ctx /\ hiccups' = hiccups
  BY DEF Subscribe
<1>5. ProbeTypeOK'
  <2>1. tries' \in [DOMAIN items' -> 0 .. Attempts]
    BY <1>3, ProbeAssumption
  <2>2. result' \in [DOMAIN items' -> Found]
    BY <1>3, UntestedIs
  <2>3. latency' \in [DOMAIN items' -> 0 .. 9]
    BY <1>3
  <2>4. hiccups' \in Nat /\ ctx' \in BOOLEAN
    BY <1>4 DEF ProbeInv, ProbeTypeOK
  <2>5. QED
    BY <1>2, <1>3, <1>4, <2>1, <2>2, <2>3, <2>4 DEF ProbeTypeOK
<1>6. (\A i \in DOMAIN items : Figures(i))'
  BY <1>3, UntestedIs DEF Figures
<1>7. Waiting' = DOMAIN items'
  BY <1>2, <1>4 DEF Waiting
<1>8. (\A i \in Waiting : result[i] = Untested)'
  BY <1>3, <1>7
<1>9. ProbeInv'
  BY <1>2, <1>4, <1>5, <1>6, <1>8 DEF ProbeInv
<1>10. QED
  BY <1>2, <1>9 DEF AllParsed

LEMMA TestUntouched ==
  ASSUME ProbeInv, UNCHANGED test
  PROVE  ProbeInv'
<1>1. UNCHANGED <<items, fate, queue, tries, result, latency, ctx, hiccups, pc>>
  BY DEF test
<1>2. batch' = batch /\ Waiting' = Waiting
  BY <1>1 DEF batch, Waiting
<1>3. ProbeTypeOK' /\ (\A i \in DOMAIN items : Figures(i))'
  BY <1>1 DEF ProbeInv, ProbeTypeOK, Figures
<1>4. (pc = "probing" => queue # <<>> /\ \A i \in batch : InProgress(i))'
  BY <1>1, <1>2 DEF ProbeInv, InProgress
<1>5. (ctx /\ hiccups = 0 => \A i \in DOMAIN items \ Planned(queue) : RightlyBlamed(i))'
  BY <1>1 DEF ProbeInv, RightlyBlamed
<1>6. (\A i \in Waiting : result[i] = Untested)' /\ IsPlan(items, queue)' /\ (pc = "done" => queue = <<>>)'
  BY <1>1, <1>2 DEF ProbeInv
<1>7. QED
  BY <1>3, <1>4, <1>5, <1>6 DEF ProbeInv

LEMMA ProbeStep ==
  ASSUME ProbeInv, InboundsInv, Next
  PROVE  ProbeInv'
<1>1. CASE Add \/ Edit \/ Duplicate \/ UserAdd \/ UserDisable
  <2>1. UNCHANGED test
    BY <1>1 DEF Add, Edit, Duplicate, UserAdd, UserDisable, Managing
  <2>2. QED
    BY <2>1, TestUntouched
<1>2. CASE Subscribe
  BY <1>2, SubscribeKeeps
<1>3. CASE Step
  BY <1>3, StartXrayKeeps, StartFailsKeeps, StartCancelledKeeps, ProbeThroughKeeps, EndBatchKeeps, TestKeeps DEF Step
<1>4. CASE Cancel
  BY <1>4, CancelKeeps
<1>5. QED
  BY <1>1, <1>2, <1>3, <1>4 DEF Next

LEMMA ParsedStep ==
  ASSUME AllParsed, ProbeInv, InboundsInv, Next
  PROVE  AllParsed'
<1>1. CASE Subscribe
  BY <1>1, SubscribeKeeps
<1>2. CASE UNCHANGED items
  BY <1>2 DEF AllParsed
<1>3. Subscribe \/ UNCHANGED items
  BY DEF Next, Add, Edit, Duplicate, UserAdd, UserDisable, Managing, test, Cancel, Step, StartXray, StartFails,
         StartCancelled, ProbeThrough, EndBatch, Test, given
<1>4. QED
  BY <1>1, <1>2, <1>3

LEMMA ProbeInvariance == Spec => [](ProbeInv /\ InboundsInv /\ AllParsed)
<1>1. ProbeInv /\ InboundsInv /\ AllParsed /\ [Next]_probeVars => (ProbeInv /\ InboundsInv /\ AllParsed)'
  <2> SUFFICES ASSUME ProbeInv, InboundsInv, AllParsed, [Next]_probeVars
               PROVE  (ProbeInv /\ InboundsInv /\ AllParsed)'
    OBVIOUS
  <2>1. CASE Next
    BY <2>1, ProbeStep, InboundsStep, ParsedStep
  <2>2. CASE UNCHANGED probeVars
    <3>1. UNCHANGED test /\ UNCHANGED inbounds /\ UNCHANGED items
      BY <2>2 DEF probeVars, test
    <3>2. QED
      BY <3>1, TestUntouched DEF InboundsInv, AllParsed
  <2>3. QED
    BY <2>1, <2>2
<1>2. QED
  BY <1>1, ProbeInvInit, PTL DEF Spec

(* A test's batches, tries and results are of their types at every step.    *)
THEOREM ProbeTypeCorrect == Spec => []ProbeTypeOK
<1>1. ProbeInv => ProbeTypeOK
  BY DEF ProbeInv
<1>2. QED
  BY <1>1, ProbeInvariance, PTL

(* A figure is only shown or stored for a node that carries traffic itself, *)
(* however the nodes are batched and however often a batch is halved.        *)
THEOREM NothingPassesFalsely == Spec => []NoFalsePass
<1>1. ProbeInv => NoFalsePass
  BY DEF ProbeInv, Figures, NoFalsePass
<1>2. QED
  BY <1>1, ProbeInvariance, PTL

(* A test that was not cancelled and lost no xray by chance blames exactly   *)
(* the nodes xray does not start with, and has tried all the others.         *)
THEOREM HalvingBlamesRightly == Spec => []BlameIsRight
<1>1. ProbeInv => BlameIsRight
  <2> SUFFICES ASSUME ProbeInv, pc = "done", ctx, hiccups = 0, NEW i \in DOMAIN items
               PROVE  RightlyBlamed(i)
    BY DEF BlameIsRight, RightlyBlamed
  <2>1. queue = <<>>
    BY DEF ProbeInv
  <2>2. i \in DOMAIN items \ Planned(queue)
    BY <2>1, NothingPlanned
  <2>3. QED
    BY <2>2 DEF ProbeInv
<1>2. QED
  BY <1>1, ProbeInvariance, PTL

(* The nodes of every subscription are shown as links that are read back.    *)
THEOREM LinksAreReadBack == Spec => []LinkRoundTrips
<1>1. AllParsed => LinkRoundTrips
  <2> SUFFICES ASSUME AllParsed, NEW i \in DOMAIN items
               PROVE  ParseLink(OutboundLink(items[i].out)) = AsRead(items[i].out)
    BY DEF LinkRoundTrips, AsRead
  <2>1. PICK l : items[i].out = ParseLink(l) /\ items[i].out # None
    BY DEF AllParsed, IsParsed
  <2>2. QED
    BY <2>1, LinksRoundTrip
<1>2. QED
  BY <1>1, ProbeInvariance, PTL

-----------------------------------------------------------------------------
(* What an inbound's link says: the query q says of security, and of the    *)
(* transport, what the inbound has.                                         *)
SecuritySaid(q, in) ==
  /\ q.peer = Blank /\ q.pinSHA256 = Blank
  /\ in.security = "reality" => /\ q.security = "reality" /\ q.sni = in.realitySNI
                                /\ q.pbk = in.realityPublicKey /\ q.sid = in.realityShortID
  /\ in.security = "tls" => q.security = "tls" /\ q.pcs = CertSHA256(in.cert)
  /\ in.security = "none" => q.security = IF in.port = 0 THEN "tls" ELSE Blank
TransportSaid(q, in) ==
  /\ NormNetwork(q.type) = in.network
  /\ in.network \in {"ws", "httpupgrade", "xhttp"} =>
       OrDefault(q.path, "/") = OrDefault(in.path, "/") /\ in.host \in {Blank, q.host}
  /\ in.network = "xhttp" => OrDefault(q.mode, "auto") = OrDefault(in.mode, "auto")
  /\ in.network = "grpc" => q.serviceName = in.path

\* Both sides of an inbound's security are of one key, and its pin is in xray's form.
KeysFit(in) ==
  /\ in.security = "reality" => in.realityPublicKey = PublicKey(in.realityKey)
  /\ in.security = "tls" => NormalizeCertPin(CertSHA256(in.cert)) = CertSHA256(in.cert)

LEMMA SecurityFits ==
  ASSUME NEW in, in.security \in {"none", "tls", "reality"}, KeysFit(in),
         NEW q, SecuritySaid(q, in), NEW s, HasAll(s, Security(q))
  PROVE  SecurityAgrees(s, BuildInbound(in))
<1> DEFINE sv == BuildInbound(in)
<1>1. sv.security = InboundSecurity(in) /\ sv.port = in.port
  BY DEF BuildInbound
<1> HIDE DEF sv
<1>2. CASE in.security = "reality"
  <2>1. /\ sv.security.security = "reality" /\ sv.security.names = {in.realitySNI}
        /\ sv.security.key = in.realityKey /\ sv.security.ids = {in.realityShortID}
    BY <1>1, <1>2 DEF InboundSecurity
  <2>2. Security(q) = RealitySettings(q)
    BY <1>2, SecurityIs DEF SecuritySaid
  <2>3. s.security = "reality" /\ s.sni = OrDefault(q.sni, q.peer) /\ s.pbk = q.pbk /\ s.sid = q.sid
    BY <2>2 DEF HasAll, RealitySettings
  <2>4. s.sni = in.realitySNI /\ s.pbk = in.realityPublicKey /\ s.sid = in.realityShortID
    BY <1>2, <2>3 DEF SecuritySaid, OrDefault
  <2>5. in.realityPublicKey = PublicKey(in.realityKey)
    BY <1>2 DEF KeysFit
  <2>6. QED
    BY <2>1, <2>3, <2>4, <2>5 DEF SecurityAgrees, sv
<1>3. CASE in.security = "tls"
  <2>1. sv.security.security = "tls" /\ sv.security.cert = in.cert
    BY <1>1, <1>3 DEF InboundSecurity
  <2>2. Security(q) = ApplyTLS(q, Blank)
    BY <1>3, SecurityIs DEF SecuritySaid, Blank
  <2>3. s.security = "tls" /\ s.pin = NormalizeCertPin(OrDefault(q.pcs, q.pinSHA256))
    BY <2>2, TLSIs DEF HasAll
  <2>4. OrDefault(q.pcs, q.pinSHA256) = CertSHA256(in.cert)
    BY <1>3 DEF SecuritySaid, OrDefault
  <2>5. s.pin = CertSHA256(in.cert)
    BY <1>3, <2>3, <2>4 DEF KeysFit
  <2>6. QED
    BY <2>1, <2>3, <2>5 DEF SecurityAgrees, sv
<1>4. CASE in.security = "none"
  <2>1. sv.security.security = Blank
    BY <1>1, <1>4 DEF InboundSecurity
  <2>2. s.security = IF in.port = 0 THEN "tls" ELSE Blank
    <3>1. CASE in.port = 0
      <4>1. q.security = "tls"
        BY <1>4, <3>1 DEF SecuritySaid
      <4>2. Security(q) = ApplyTLS(q, Blank)
        BY <4>1, SecurityIs DEF Blank
      <4>3. QED
        BY <3>1, <4>2, TLSIs DEF HasAll
    <3>2. CASE in.port # 0
      <4>1. q.security = Blank
        BY <1>4, <3>2 DEF SecuritySaid
      <4>2. Security(q) = [security |-> Blank]
        BY <4>1, SecurityIs
      <4>3. QED
        BY <3>2, <4>2 DEF HasAll
    <3>3. QED
      BY <3>1, <3>2
  <2>3. QED
    BY <1>1, <2>1, <2>2 DEF SecurityAgrees, Blank, sv
<1>5. QED
  BY <1>2, <1>3, <1>4

LEMMA TransportFits ==
  ASSUME NEW in, in.network \in {"tcp", "ws", "httpupgrade", "grpc", "xhttp", "hysteria"},
         NEW q, TransportSaid(q, in), NEW s, HasAll(s, Transport(in.network, q))
  PROVE  TransportAgrees(s, BuildInbound(in))
<1> DEFINE sv == BuildInbound(in)
           n == in.network
<1>1. sv.transport = InboundTransport(in) /\ sv.network = n
  BY DEF BuildInbound
<1> HIDE DEF sv
<1>2. CASE n \in {"ws", "httpupgrade"}
  <2>1. sv.transport = [path |-> OrDefault(in.path, "/"), host |-> in.host]
    BY <1>1, <1>2 DEF InboundTransport
  <2>2. Transport(n, q) = [path |-> OrDefault(q.path, "/"), host |-> q.host]
    BY <1>2 DEF Transport
  <2>3. s.path = OrDefault(q.path, "/") /\ s.host = q.host
    BY <2>2 DEF HasAll
  <2>4. s.path = OrDefault(in.path, "/") /\ in.host \in {Blank, s.host}
    BY <1>2, <2>3 DEF TransportSaid
  <2>5. QED
    <3>1. DOMAIN sv.transport = {"path", "host"}
      BY <2>1
    <3>2. s.path = sv.transport.path /\ sv.transport.host \in {Blank, s.host}
      BY <2>1, <2>4
    <3>3. QED
      BY <3>1, <3>2 DEF TransportAgrees, sv
<1>3. CASE n = "xhttp"
  <2>1. sv.transport = [path |-> OrDefault(in.path, "/"), host |-> in.host, mode |-> OrDefault(in.mode, "auto")]
    BY <1>1, <1>3 DEF InboundTransport
  <2>2. Transport(n, q) = [path |-> OrDefault(q.path, "/"), host |-> q.host, mode |-> OrDefault(q.mode, "auto")]
    BY <1>3 DEF Transport
  <2>3. s.path = OrDefault(q.path, "/") /\ s.host = q.host /\ s.mode = OrDefault(q.mode, "auto")
    BY <2>2 DEF HasAll
  <2>4. s.path = OrDefault(in.path, "/") /\ in.host \in {Blank, s.host} /\ s.mode = OrDefault(in.mode, "auto")
    BY <1>3, <2>3 DEF TransportSaid
  <2>5. QED
    <3>1. DOMAIN sv.transport = {"path", "host", "mode"}
      BY <2>1
    <3>2. s.path = sv.transport.path /\ sv.transport.host \in {Blank, s.host} /\ sv.transport.mode \in {"auto", s.mode}
      BY <2>1, <2>4
    <3>3. QED
      BY <3>1, <3>2 DEF TransportAgrees, sv
<1>4. CASE n = "grpc"
  <2>1. sv.transport = [serviceName |-> in.path]
    BY <1>1, <1>4 DEF InboundTransport
  <2>2. Transport(n, q) = [serviceName |-> q.serviceName, mode |-> IF q.mode = "multi" THEN "multi" ELSE Blank]
    BY <1>4 DEF Transport
  <2>3. s.serviceName = in.path
    BY <1>4, <2>2 DEF HasAll, TransportSaid
  <2>5. QED
    BY <1>1, <2>1, <2>3 DEF TransportAgrees, sv
<1>5. CASE n \in {"tcp", "hysteria"}
  <2>1. sv.transport = [path |-> Blank]
    BY <1>1, <1>5 DEF InboundTransport
  <2>2. QED
    BY <1>1, <1>5, <2>1 DEF TransportAgrees, sv
<1>6. QED
  BY <1>2, <1>3, <1>4, <1>5

\* The parameters of a query in three parts.
LEMMA QueryOfThree ==
  ASSUME NEW f, NEW g, NEW h, NEW x \in Params
  PROVE  Query(f ++ g ++ h)[x] = IF x \in DOMAIN f THEN f[x] ELSE IF x \in DOMAIN g THEN g[x]
                                 ELSE IF x \in DOMAIN h THEN h[x] ELSE Blank
<1> DEFINE a == f ++ g
<1>1. DOMAIN a = DOMAIN f \cup DOMAIN g
  BY Extends
<1>2. (x \in DOMAIN f => a[x] = f[x]) /\ (x \in DOMAIN g \ DOMAIN f => a[x] = g[x])
  BY DEF ++
<1> HIDE DEF a
<1>3. Query(a ++ h)[x] = IF x \in DOMAIN a THEN a[x] ELSE Query(h)[x]
  BY QueryOfMore
<1>4. Query(h)[x] = IF x \in DOMAIN h THEN h[x] ELSE Blank
  BY QueryOf
<1>5. QED
  BY <1>1, <1>2, <1>3, <1>4 DEF a

LEMMA HostQueryHas ==
  ASSUME NEW in
  PROVE  /\ DOMAIN HostQuery(in) \subseteq {"host"}
         /\ in.host # Blank => "host" \in DOMAIN HostQuery(in) /\ HostQuery(in)["host"] = in.host
BY DEF HostQuery

LEMMA SetTransportHas ==
  ASSUME NEW in, NEW t, t = SetTransportQuery(in)
  PROVE  /\ DOMAIN t \subseteq {"path", "host", "mode", "serviceName"}
         /\ in.network \in {"ws", "httpupgrade", "xhttp"} =>
              /\ "path" \in DOMAIN t /\ t["path"] = OrDefault(in.path, "/")
              /\ in.host # Blank => "host" \in DOMAIN t /\ t["host"] = in.host
         /\ in.network = "xhttp" => "mode" \in DOMAIN t /\ t["mode"] = OrDefault(in.mode, "auto")
         /\ in.network = "grpc" => "serviceName" \in DOMAIN t /\ t["serviceName"] = in.path
<1> DEFINE h == HostQuery(in)
<1>1. DOMAIN h \subseteq {"host"} /\ (in.host # Blank => "host" \in DOMAIN h /\ h["host"] = in.host)
  BY HostQueryHas
<1>2. CASE in.network \in {"ws", "httpupgrade"}
  <2> DEFINE p == [path |-> OrDefault(in.path, "/")]
  <2>1. t = p ++ h
    BY <1>2 DEF SetTransportQuery
  <2>2. DOMAIN p = {"path"} /\ p["path"] = OrDefault(in.path, "/")
    OBVIOUS
  <2> HIDE DEF p, h
  <2>3. QED
    <3>1. DOMAIN t = DOMAIN p \cup DOMAIN h
      BY <2>1, Extends
    <3>2. (\A x \in DOMAIN p : t[x] = p[x]) /\ (\A x \in DOMAIN h \ DOMAIN p : t[x] = h[x])
      BY <2>1 DEF ++
    <3>3. QED
      BY <1>1, <1>2, <2>2, <3>1, <3>2
<1>3. CASE in.network = "xhttp"
  <2> DEFINE p == [path |-> OrDefault(in.path, "/"), mode |-> OrDefault(in.mode, "auto")]
  <2>1. t = p ++ h
    BY <1>3 DEF SetTransportQuery
  <2>2. DOMAIN p = {"path", "mode"} /\ p["path"] = OrDefault(in.path, "/") /\ p["mode"] = OrDefault(in.mode, "auto")
    OBVIOUS
  <2> HIDE DEF p, h
  <2>3. QED
    <3>1. DOMAIN t = DOMAIN p \cup DOMAIN h
      BY <2>1, Extends
    <3>2. (\A x \in DOMAIN p : t[x] = p[x]) /\ (\A x \in DOMAIN h \ DOMAIN p : t[x] = h[x])
      BY <2>1 DEF ++
    <3>3. QED
      BY <1>1, <1>3, <2>2, <3>1, <3>2
<1>4. CASE in.network = "grpc"
  BY <1>4 DEF SetTransportQuery
<1>5. CASE in.network \notin {"ws", "httpupgrade", "xhttp", "grpc"}
  BY <1>5 DEF SetTransportQuery
<1>6. QED
  BY <1>2, <1>3, <1>4, <1>5

\* A link of three parts: the transport, the security, and what is left.
LEMMA PartsSay ==
  ASSUME NEW in, in.network \in {"tcp", "ws", "httpupgrade", "grpc", "xhttp"},
         NEW s, DOMAIN s \subseteq {"security", "sni", "fp", "pcs", "pbk", "sid", "host"},
         NEW m, DOMAIN m \subseteq {"encryption", "type", "flow"}, "type" \in DOMAIN m, m["type"] = in.network,
         NEW q, q = Query(SetTransportQuery(in) ++ s ++ m)
  PROVE  /\ TransportSaid(q, in)
         /\ q.peer = Blank /\ q.pinSHA256 = Blank
         /\ \A x \in {"security", "sni", "pcs", "pbk", "sid"} : q[x] = IF x \in DOMAIN s THEN s[x] ELSE Blank
         /\ "flow" \in DOMAIN m => q.flow = m["flow"]
<1> DEFINE t == SetTransportQuery(in)
<1>1. \A x \in Params : q[x] = IF x \in DOMAIN t THEN t[x] ELSE IF x \in DOMAIN s THEN s[x]
                               ELSE IF x \in DOMAIN m THEN m[x] ELSE Blank
  BY QueryOfThree
<1>2. /\ DOMAIN t \subseteq {"path", "host", "mode", "serviceName"}
      /\ in.network \in {"ws", "httpupgrade", "xhttp"} =>
           /\ "path" \in DOMAIN t /\ t["path"] = OrDefault(in.path, "/")
           /\ in.host # Blank => "host" \in DOMAIN t /\ t["host"] = in.host
      /\ in.network = "xhttp" => "mode" \in DOMAIN t /\ t["mode"] = OrDefault(in.mode, "auto")
      /\ in.network = "grpc" => "serviceName" \in DOMAIN t /\ t["serviceName"] = in.path
  BY SetTransportHas
<1> HIDE DEF t
<1>3. q.type = in.network
  BY <1>1, <1>2 DEF Params
<1>4. NormNetwork(q.type) = in.network
  BY <1>3 DEF NormNetwork, Blank
<1>5. q.peer = Blank /\ q.pinSHA256 = Blank
  BY <1>1, <1>2 DEF Params
<1>6. ASSUME NEW x \in {"security", "sni", "pcs", "pbk", "sid"} PROVE q[x] = IF x \in DOMAIN s THEN s[x] ELSE Blank
  BY <1>1, <1>2 DEF Params
<1>7. "flow" \in DOMAIN m => q.flow = m["flow"]
  BY <1>1, <1>2 DEF Params
<1>8. in.network \in {"ws", "httpupgrade", "xhttp"} =>
        OrDefault(q.path, "/") = OrDefault(in.path, "/") /\ in.host \in {Blank, q.host}
  <2> SUFFICES ASSUME in.network \in {"ws", "httpupgrade", "xhttp"}
               PROVE  OrDefault(q.path, "/") = OrDefault(in.path, "/") /\ in.host \in {Blank, q.host}
    OBVIOUS
  <2>1. q.path = OrDefault(in.path, "/")
    BY <1>1, <1>2 DEF Params
  <2>2. in.host # Blank => q.host = in.host
    BY <1>1, <1>2 DEF Params
  <2>3. QED
    BY <2>1, <2>2 DEF OrDefault, Blank
<1>9. in.network = "xhttp" => OrDefault(q.mode, "auto") = OrDefault(in.mode, "auto")
  <2> SUFFICES ASSUME in.network = "xhttp" PROVE OrDefault(q.mode, "auto") = OrDefault(in.mode, "auto")
    OBVIOUS
  <2>1. q.mode = OrDefault(in.mode, "auto")
    BY <1>1, <1>2 DEF Params
  <2>2. QED
    BY <2>1 DEF OrDefault, Blank
<1>10. in.network = "grpc" => q.serviceName = in.path
  BY <1>1, <1>2 DEF Params
<1>11. QED
  BY <1>4, <1>5, <1>6, <1>7, <1>8, <1>9, <1>10 DEF TransportSaid

LEMMA ShareTLSHas ==
  ASSUME NEW in, NEW s, s = ShareTLS(in)
  PROVE  DOMAIN s = {"security", "fp", "sni", "pcs"} /\ s["security"] = "tls" /\ s["pcs"] = CertSHA256(in.cert)
<1> DEFINE a == [security |-> "tls", fp |-> "chrome", sni |-> in.tlsSNI]
           b == SelfSignedPin(in)
<1>1. DOMAIN a = {"security", "fp", "sni"} /\ a["security"] = "tls"
  OBVIOUS
<1>2. DOMAIN b = {"pcs"} /\ b["pcs"] = CertSHA256(in.cert)
  BY DEF SelfSignedPin
<1>3. s = a ++ b
  BY DEF ShareTLS
<1> HIDE DEF a, b
<1>4. QED
  <2>1. DOMAIN s = DOMAIN a \cup DOMAIN b
    BY <1>3, Extends
  <2>2. (\A x \in DOMAIN a : s[x] = a[x]) /\ (\A x \in DOMAIN b \ DOMAIN a : s[x] = b[x])
    BY <1>3 DEF ++
  <2>3. QED
    BY <1>1, <1>2, <2>1, <2>2

\* An inbound has a port unless Caddy is before it.
PortFits(in) == IF IsUnixInbound(in) THEN in.port = 0 ELSE in.port # 0

LEMMA VLESSSays ==
  ASSUME NEW in, HasWords(in), in.protocol = "vless", PortFits(in), NEW host, NEW q, q = Query(ShareVLESS(in, host))
  PROVE  SecuritySaid(q, in) /\ TransportSaid(q, in) /\ q.flow = in.flow
<1> DEFINE s == CASE IsCaddyXHTTP(in) -> [security |-> "tls", sni |-> host, fp |-> "chrome", host |-> host]
                  [] in.security = "reality" -> ShareReality(in)
                  [] in.security = "tls"     -> ShareTLS(in)
                  [] OTHER                   -> <<>>
           m == [encryption |-> "none", type |-> in.network, flow |-> in.flow]
<1>1. q = Query(SetTransportQuery(in) ++ s ++ m)
  BY DEF ShareVLESS
<1>2. DOMAIN m = {"encryption", "type", "flow"} /\ m["type"] = in.network /\ m["flow"] = in.flow
  OBVIOUS
<1>3. in.network \in {"tcp", "ws", "httpupgrade", "grpc", "xhttp"}
  BY DEF HasWords
<1>4. in.security \in {"none", "tls", "reality"}
  BY DEF HasWords
<1>5. IsCaddyXHTTP(in) <=> IsUnixInbound(in)
  BY DEF HasWords, IsCaddyXHTTP, IsUnixInbound
<1>6. CASE IsCaddyXHTTP(in)
  <2>1. DOMAIN s = {"security", "sni", "fp", "host"} /\ s["security"] = "tls"
    BY <1>6 DEF IsCaddyXHTTP
  <2> HIDE DEF s, m
  <2>2. /\ TransportSaid(q, in) /\ q.peer = Blank /\ q.pinSHA256 = Blank /\ q.security = "tls" /\ q.flow = in.flow
    BY <1>1, <1>2, <1>3, <2>1, PartsSay
  <2>3. in.port = 0 /\ in.security = "none"
    BY <1>5, <1>6 DEF PortFits, IsCaddyXHTTP
  <2>4. QED
    BY <2>2, <2>3 DEF SecuritySaid
<1>7. CASE ~IsCaddyXHTTP(in) /\ in.security = "reality"
  <2>0. s = ShareReality(in)
    BY <1>7
  <2>1. /\ DOMAIN s = {"security", "sni", "fp", "pbk", "sid"} /\ s["security"] = "reality"
        /\ s["sni"] = in.realitySNI /\ s["pbk"] = in.realityPublicKey /\ s["sid"] = in.realityShortID
    BY <2>0 DEF ShareReality
  <2> HIDE DEF s, m
  <2>2. /\ TransportSaid(q, in) /\ q.peer = Blank /\ q.pinSHA256 = Blank /\ q.flow = in.flow
        /\ \A x \in {"security", "sni", "pcs", "pbk", "sid"} : q[x] = IF x \in DOMAIN s THEN s[x] ELSE Blank
    BY <1>1, <1>2, <1>3, <2>1, PartsSay
  <2>3. QED
    BY <1>7, <2>1, <2>2 DEF SecuritySaid
<1>8. CASE ~IsCaddyXHTTP(in) /\ in.security = "tls"
  <2>0. s = ShareTLS(in)
    BY <1>8
  <2>1. DOMAIN s = {"security", "fp", "sni", "pcs"} /\ s["security"] = "tls" /\ s["pcs"] = CertSHA256(in.cert)
    BY <2>0, ShareTLSHas
  <2> HIDE DEF s, m
  <2>2. /\ TransportSaid(q, in) /\ q.peer = Blank /\ q.pinSHA256 = Blank /\ q.flow = in.flow
        /\ \A x \in {"security", "sni", "pcs", "pbk", "sid"} : q[x] = IF x \in DOMAIN s THEN s[x] ELSE Blank
    BY <1>1, <1>2, <1>3, <2>1, PartsSay
  <2>3. QED
    BY <1>8, <2>1, <2>2 DEF SecuritySaid
<1>9. CASE ~IsCaddyXHTTP(in) /\ in.security = "none"
  <2>0. s = <<>>
    BY <1>9
  <2>1. DOMAIN s = {}
    BY <2>0
  <2> HIDE DEF s, m
  <2>2. /\ TransportSaid(q, in) /\ q.peer = Blank /\ q.pinSHA256 = Blank /\ q.flow = in.flow
        /\ \A x \in {"security", "sni", "pcs", "pbk", "sid"} : q[x] = IF x \in DOMAIN s THEN s[x] ELSE Blank
    BY <1>1, <1>2, <1>3, <2>1, PartsSay
  <2>3. in.port # 0
    BY <1>5, <1>9 DEF PortFits
  <2>4. QED
    BY <1>9, <2>1, <2>2, <2>3 DEF SecuritySaid
<1>10. QED
  BY <1>4, <1>6, <1>7, <1>8, <1>9

LEMMA TrojanSays ==
  ASSUME NEW in, HasWords(in), in.protocol = "trojan", NEW q, q = Query(ShareTrojan(in))
  PROVE  SecuritySaid(q, in) /\ TransportSaid(q, in)
<1> DEFINE s == ShareTLS(in)
           m == [type |-> in.network]
<1>1. in.security = "tls" /\ in.network \in {"tcp", "ws", "httpupgrade", "grpc", "xhttp"}
  BY DEF HasWords
<1>2. q = Query(SetTransportQuery(in) ++ s ++ m)
  BY <1>1 DEF ShareTrojan
<1>3. DOMAIN m = {"type"} /\ m["type"] = in.network
  OBVIOUS
<1>4. DOMAIN s = {"security", "fp", "sni", "pcs"} /\ s["security"] = "tls" /\ s["pcs"] = CertSHA256(in.cert)
  BY ShareTLSHas
<1> HIDE DEF s, m
<1>5. /\ TransportSaid(q, in) /\ q.peer = Blank /\ q.pinSHA256 = Blank
      /\ \A x \in {"security", "sni", "pcs", "pbk", "sid"} : q[x] = IF x \in DOMAIN s THEN s[x] ELSE Blank
  BY <1>1, <1>2, <1>3, <1>4, PartsSay
<1>6. QED
  BY <1>1, <1>4, <1>5 DEF SecuritySaid

LEMMA VMessSays ==
  ASSUME NEW in, HasWords(in), in.protocol = "vmess", PortFits(in), NEW k, k = Query(ShareVMess(in)),
         NEW q, q = [p \in Params |->
                       IF p = "serviceName" THEN k.path
                       ELSE IF p \in {"type", "security", "host", "path", "sni", "fp", "alpn", "pcs", "vcn", "headerType"}
                       THEN k[p] ELSE Blank]
  PROVE  SecuritySaid(q, in) /\ TransportSaid(q, in)
<1> DEFINE a == [type |-> in.network, headerType |-> "none", scy |-> "auto", host |-> in.host, path |-> in.path]
           b == IF in.security = "tls"
                THEN [security |-> "tls", sni |-> in.tlsSNI, pcs |-> CertSHA256(in.cert)]
                ELSE [security |-> Blank]
<1>1. in.network \in {"tcp", "ws", "httpupgrade", "grpc"} /\ in.security \in {"none", "tls"} /\ in.port # 0
  BY DEF HasWords, PortFits, IsUnixInbound
<1>2. /\ DOMAIN a = {"type", "headerType", "scy", "host", "path"}
      /\ a["type"] = in.network /\ a["host"] = in.host /\ a["path"] = in.path
  OBVIOUS
<1>3. /\ in.security = "tls" => DOMAIN b = {"security", "sni", "pcs"} /\ b["security"] = "tls" /\ b["pcs"] = CertSHA256(in.cert)
      /\ in.security # "tls" => DOMAIN b = {"security"} /\ b["security"] = Blank
  OBVIOUS
<1>4. k = Query(a ++ b)
  BY DEF ShareVMess
<1> HIDE DEF a, b
<1>5. \A x \in Params : k[x] = IF x \in DOMAIN a THEN a[x] ELSE IF x \in DOMAIN b THEN b[x] ELSE Blank
  <2> TAKE x \in Params
  <2>1. k[x] = IF x \in DOMAIN a THEN a[x] ELSE Query(b)[x]
    BY <1>4, QueryOfMore
  <2>2. Query(b)[x] = IF x \in DOMAIN b THEN b[x] ELSE Blank
    BY QueryOf
  <2>3. QED
    BY <2>1, <2>2
<1>6. k.type = in.network /\ k.host = in.host /\ k.path = in.path
  BY <1>2, <1>5 DEF Params
<1>7. /\ in.security = "tls" => k.security = "tls" /\ k.pcs = CertSHA256(in.cert)
      /\ in.security # "tls" => k.security = Blank
  BY <1>2, <1>3, <1>5 DEF Params
<1>8. /\ q.peer = Blank /\ q.pinSHA256 = Blank /\ q.serviceName = k.path /\ q.type = k.type /\ q.security = k.security
      /\ q.host = k.host /\ q.path = k.path /\ q.pcs = k.pcs
  BY DEF Params
<1>9. NormNetwork(q.type) = in.network
  BY <1>1, <1>6, <1>8 DEF NormNetwork, Blank
<1>10. SecuritySaid(q, in)
  BY <1>1, <1>7, <1>8 DEF SecuritySaid
<1>11. TransportSaid(q, in)
  BY <1>1, <1>6, <1>8, <1>9 DEF TransportSaid
<1>12. QED
  BY <1>10, <1>11

\* What a link whose query says what the inbound has is read back as.
LEMMA StreamFits ==
  ASSUME NEW in, HasWords(in), KeysFit(in), NEW q, SecuritySaid(q, in), TransportSaid(q, in),
         NEW s, s = Stream(BuildStream(q))
  PROVE  s.network = in.network /\ SecurityAgrees(s, BuildInbound(in)) /\ TransportAgrees(s, BuildInbound(in))
<1>1. NormNetwork(q.type) = in.network
  BY DEF TransportSaid
<1>2. s.network = in.network /\ HasAll(s, Security(q)) /\ HasAll(s, Transport(in.network, q))
  BY <1>1, StreamHas
<1>3. in.security \in {"none", "tls", "reality"} /\ in.network \in {"tcp", "ws", "httpupgrade", "grpc", "xhttp", "hysteria"}
  BY DEF HasWords
<1>4. SecurityAgrees(s, BuildInbound(in))
  BY <1>2, <1>3, SecurityFits
<1>5. TransportAgrees(s, BuildInbound(in))
  BY <1>2, <1>3, TransportFits
<1>6. QED
  BY <1>2, <1>4, <1>5

LEMMA HysteriaFits ==
  ASSUME NEW in, in.network = "hysteria", in.security = "tls", KeysFit(in),
         NEW q, q = Query(ShareHysteria2(in)),
         NEW s, s = Stream(CertPin(q) ++ [network |-> "hysteria", security |-> "tls", sni |-> q.sni])
  PROVE  s.network = in.network /\ SecurityAgrees(s, BuildInbound(in)) /\ TransportAgrees(s, BuildInbound(in))
<1> DEFINE a == CertPin(q)
           b == [network |-> "hysteria", security |-> "tls", sni |-> q.sni]
           all == a ++ b
           sv == BuildInbound(in)
<1>1. q.pcs = Blank /\ q.pinSHA256 = CertSHA256(in.cert)
  <2>1. DOMAIN ShareHysteria2(in) = {"pinSHA256", "sni"} /\ ShareHysteria2(in)["pinSHA256"] = CertSHA256(in.cert)
    BY DEF ShareHysteria2
  <2>2. QED
    BY <2>1, QueryOf DEF Params
<1>2. DOMAIN a = {"pin", "vcn"} /\ a["pin"] = CertSHA256(in.cert)
  <2>1. a["pin"] = NormalizeCertPin(OrDefault(q.pcs, q.pinSHA256)) /\ DOMAIN a = {"pin", "vcn"}
    BY DEF CertPin
  <2>2. QED
    BY <1>1, <2>1 DEF OrDefault, KeysFit
<1>3. DOMAIN b = {"network", "security", "sni"} /\ b["network"] = "hysteria" /\ b["security"] = "tls"
  OBVIOUS
<1> HIDE DEF a, b
<1>4. /\ DOMAIN all = DOMAIN a \cup DOMAIN b
      /\ (\A x \in DOMAIN a : all[x] = a[x]) /\ (\A x \in DOMAIN b \ DOMAIN a : all[x] = b[x])
  BY DEF ++
<1>5. s = Stream(all)
  BY DEF all, a, b
<1> HIDE DEF all
<1>6. \A x \in DOMAIN all : s[x] = all[x]
  BY <1>5 DEF Stream, ++
<1>7. s.network = "hysteria" /\ s.security = "tls" /\ s.pin = CertSHA256(in.cert)
  BY <1>2, <1>3, <1>4, <1>6
<1>8. /\ sv.security.security = "tls" /\ sv.security.cert = in.cert
      /\ sv.network = "hysteria" /\ sv.transport = [path |-> Blank]
  BY DEF BuildInbound, InboundSecurity, InboundTransport
<1> HIDE DEF sv
<1>9. SecurityAgrees(s, sv)
  BY <1>7, <1>8 DEF SecurityAgrees
<1>10. TransportAgrees(s, sv)
  BY <1>8 DEF TransportAgrees
<1>11. QED
  BY <1>7, <1>9, <1>10 DEF sv

\* An inbound whose links are to work.
Serves(in) == HasWords(in) /\ TakesUsers(in) /\ KeysFit(in) /\ PortFits(in) /\ in.user # Blank

\* An outbound that has all an inbound asks for.
Fits(o, in) ==
  /\ o.protocol = in.protocol /\ o # None
  /\ o.address[2] = SharePort(in) /\ o.user = in.user
  /\ o.protocol = "vless" => o.more[2] = in.flow
  /\ o.stream.network = in.network
  /\ SecurityAgrees(o.stream, BuildInbound(in)) /\ TransportAgrees(o.stream, BuildInbound(in))

\* A link is read back as an outbound that fits the inbound it is of.
LEMMA LinkFits ==
  ASSUME NEW in, Serves(in), NEW host
  PROVE  Fits(ParseLink(ShareLink(in, host)), in)
<1> DEFINE h == ShareHost(in, host)
           L(scheme, f) == Link(scheme, <<h, SharePort(in)>>, in.user, f)
<1>0. HasWords(in) /\ KeysFit(in) /\ PortFits(in) /\ in.user # Blank
  BY DEF Serves
<1>1. in.protocol \in {"vless", "vmess", "trojan", "hysteria"}
  BY DEF Serves, HasWords, TakesUsers, Protocols
<1>2. ASSUME NEW p \in {"vless", "vmess", "trojan", "hysteria"}, in.protocol = p, NEW l, l.address = <<h, SharePort(in)>>, l.user = in.user,
             NEW more, NEW s, NEW o, o = Outbound(p, l.address, l.user, more, s),
             p = "vless" => more[2] = in.flow,
             /\ Stream(s).network = in.network /\ SecurityAgrees(Stream(s), BuildInbound(in))
             /\ TransportAgrees(Stream(s), BuildInbound(in))
      PROVE  Fits(o, in)
  <2>1. /\ o.protocol = p /\ o.address = <<h, SharePort(in)>> /\ o.user = in.user /\ o.more = more /\ o.stream = Stream(s)
    BY <1>2 DEF Outbound
  <2>2. o # None
    <3>1. None.protocol = Blank
      BY DEF None
    <3>2. p # Blank
      BY DEF Blank
    <3>3. o.protocol = p
      BY <2>1
    <3> HIDE DEF None
    <3>4. QED
      BY <3>1, <3>2, <3>3
  <2>3. QED
    BY <1>2, <2>1, <2>2 DEF Fits
<1>3. ASSUME NEW scheme \in {"vless", "vmess", "trojan", "hysteria2"}, NEW f, NEW l, l = L(scheme, f)
      PROVE  /\ l.scheme = scheme /\ l.address = <<h, SharePort(in)>> /\ l.user = in.user /\ l.query = Query(f)
             /\ scheme = "vless" => ParseLink(l) = ParseVLESS(l)
             /\ scheme = "vmess" => ParseLink(l) = ParseVMess(l)
             /\ scheme = "trojan" => ParseLink(l) = ParseTrojan(l)
             /\ scheme = "hysteria2" => ParseLink(l) = ParseHysteria2(l)
  <2>1. l.scheme = scheme /\ l.address = <<h, SharePort(in)>> /\ l.user = in.user /\ l.query = Query(f)
    BY <1>3 DEF Link
  <2>2. l.scheme \in Schemes /\ l.address # <<>> /\ l.user # Blank
    BY <1>0, <2>1 DEF Schemes
  <2>3. QED
    BY <2>1, <2>2 DEF ParseLink
<1> HIDE DEF L
<1>4. CASE in.protocol = "vless"
  <2> DEFINE f == ShareVLESS(in, h)
             l == L("vless", f)
             q == l.query
  <2>1. ShareLink(in, host) = l
    BY <1>4 DEF ShareLink, L
  <2> HIDE DEF f
  <2>2. l.address = <<h, SharePort(in)>> /\ l.user = in.user /\ q = Query(f) /\ ParseLink(l) = ParseVLESS(l)
    BY <1>3
  <2> HIDE DEF l, h
  <2>3. SecuritySaid(q, in) /\ TransportSaid(q, in) /\ q.flow = in.flow
    BY <1>0, <1>4, <2>2, VLESSSays DEF f
  <2>4. ParseVLESS(l) = Outbound("vless", l.address, l.user, <<OrDefault(q.encryption, "none"), q.flow>>, BuildStream(q))
    BY DEF ParseVLESS
  <2> DEFINE s == BuildStream(q)
  <2>5. /\ Stream(s).network = in.network /\ SecurityAgrees(Stream(s), BuildInbound(in))
        /\ TransportAgrees(Stream(s), BuildInbound(in))
    BY <1>0, <2>3, StreamFits
  <2> HIDE DEF s
  <2>6. Fits(ParseVLESS(l), in)
    BY <1>2, <1>4, <2>2, <2>3, <2>4, <2>5 DEF s
  <2>7. QED
    BY <2>1, <2>2, <2>6
<1>5. CASE in.protocol = "vmess"
  <2> DEFINE f == ShareVMess(in)
             l == L("vmess", f)
             k == l.query
             q == [p \in Params |->
                     IF p = "serviceName" THEN k.path
                     ELSE IF p \in {"type", "security", "host", "path", "sni", "fp", "alpn", "pcs", "vcn", "headerType"}
                     THEN k[p] ELSE Blank]
  <2>1. ShareLink(in, host) = l
    BY <1>5 DEF ShareLink, L
  <2> HIDE DEF f
  <2>2. l.address = <<h, SharePort(in)>> /\ l.user = in.user /\ k = Query(f) /\ ParseLink(l) = ParseVMess(l)
    BY <1>3
  <2> HIDE DEF l, h
  <2>3. SecuritySaid(q, in) /\ TransportSaid(q, in)
    BY <1>0, <1>5, <2>2, VMessSays DEF f
  <2>4. ParseVMess(l) = Outbound("vmess", l.address, l.user, <<OrDefault(k.scy, "auto")>>, BuildStream(q))
    BY DEF ParseVMess
  <2> DEFINE s == BuildStream(q)
  <2> HIDE DEF q
  <2>5. /\ Stream(s).network = in.network /\ SecurityAgrees(Stream(s), BuildInbound(in))
        /\ TransportAgrees(Stream(s), BuildInbound(in))
    BY <1>0, <2>3, StreamFits
  <2> HIDE DEF s
  <2>6. Fits(ParseVMess(l), in)
    BY <1>2, <1>5, <2>2, <2>4, <2>5 DEF s
  <2>7. QED
    BY <2>1, <2>2, <2>6
<1>6. CASE in.protocol = "trojan"
  <2> DEFINE f == ShareTrojan(in)
             l == L("trojan", f)
             q == l.query
  <2>1. ShareLink(in, host) = l
    BY <1>6 DEF ShareLink, L
  <2> HIDE DEF f
  <2>2. l.address = <<h, SharePort(in)>> /\ l.user = in.user /\ q = Query(f) /\ ParseLink(l) = ParseTrojan(l)
    BY <1>3
  <2> HIDE DEF l, h
  <2>3. SecuritySaid(q, in) /\ TransportSaid(q, in)
    BY <1>0, <1>6, <2>2, TrojanSays DEF f
  <2> DEFINE s == BuildStream(q)
  <2>4. s.security # Blank
    <3>1. q.security = "tls"
      BY <1>0, <1>6, <2>3 DEF SecuritySaid, HasWords
    <3>2. Security(q) = ApplyTLS(q, Blank)
      BY <3>1, SecurityIs DEF Blank
    <3>3. s.security = "tls"
      <4>1. s.security = Security(q).security
        BY StreamHas
      <4>2. QED
        BY <3>2, <4>1, TLSIs
    <3>4. QED
      BY <3>3 DEF Blank
  <2>5. /\ Stream(s).network = in.network /\ SecurityAgrees(Stream(s), BuildInbound(in))
        /\ TransportAgrees(Stream(s), BuildInbound(in))
    BY <1>0, <2>3, StreamFits
  <2>6. ParseTrojan(l) = Outbound("trojan", l.address, l.user, <<>>, s)
    BY <2>4 DEF ParseTrojan
  <2> HIDE DEF s
  <2>7. Fits(ParseTrojan(l), in)
    BY <1>2, <1>6, <2>2, <2>5, <2>6
  <2>8. QED
    BY <2>1, <2>2, <2>7
<1>7. CASE in.protocol = "hysteria"
  <2> DEFINE f == ShareHysteria2(in)
             l == L("hysteria2", f)
             q == l.query
  <2>1. ShareLink(in, host) = l
    BY <1>7 DEF ShareLink, L
  <2> HIDE DEF f
  <2>2. l.address = <<h, SharePort(in)>> /\ l.user = in.user /\ q = Query(f) /\ ParseLink(l) = ParseHysteria2(l)
    BY <1>3
  <2> HIDE DEF l, h
  <2> DEFINE s == CertPin(q) ++ [network |-> "hysteria", security |-> "tls", sni |-> q.sni]
  <2>3. in.network = "hysteria" /\ in.security = "tls"
    BY <1>0, <1>7 DEF HasWords
  <2>4. ParseHysteria2(l) = Outbound("hysteria", l.address, l.user, <<>>, s)
    BY DEF ParseHysteria2
  <2>5. /\ Stream(s).network = in.network /\ SecurityAgrees(Stream(s), BuildInbound(in))
        /\ TransportAgrees(Stream(s), BuildInbound(in))
    BY <1>0, <2>2, <2>3, HysteriaFits DEF f
  <2> HIDE DEF s
  <2>6. Fits(ParseHysteria2(l), in)
    BY <1>2, <1>7, <2>2, <2>4, <2>5
  <2>7. QED
    BY <2>1, <2>2, <2>6
<1>8. QED
  BY <1>1, <1>4, <1>5, <1>6, <1>7

(* What an inbound of the box is, c calls having generated something: its   *)
(* link has words for it, both sides have the same key, Caddy's inbounds    *)
(* have no port, and every client has a credential of its own.              *)
InboundFields ==
  TemplateFields \cup {"port", "publicHost", "host", "mode", "tlsSNI", "realitySNI", "user", "realityKey",
                       "realityPublicKey", "realityShortID", "cert", "users"}
Made(what, c) == {Generated(what, n) : n \in 0 .. c - 1}
KeysMade(in, c) ==
  /\ in.security = "reality" \/ in.realityKey # Blank => in.realityPublicKey = PublicKey(in.realityKey)
  /\ in.cert \in {Blank} \cup Made("cert", c)
  /\ in.security = "tls" => in.cert \in Made("cert", c)
HasPort(in) == IF IsUnixInbound(in) THEN in.port = 0 ELSE in.port \in 11800 .. 11899
ClientsMade(in, c) ==
  TakesUsers(in) =>
    /\ in.user \in Made("user", c)
    /\ in.users \subseteq [credential : Made("user", c), enabled : BOOLEAN]
    /\ \A u \in in.users : u.credential # in.user
    /\ \A u, v \in in.users : u.credential = v.credential => u = v
IsSound(in, c) ==
  /\ InboundFields \subseteq DOMAIN in
  /\ HasWords(in) /\ KeysMade(in, c) /\ HasPort(in) /\ ClientsMade(in, c)

\* What tells two inbounds apart: the port, or behind Caddy the credentials.
Credentials(in) == {in.user} \cup {u.credential : u \in in.users}
AreApart(in, other) ==
  /\ ~IsUnixInbound(in) /\ ~IsUnixInbound(other) => in.port # other.port
  /\ IsUnixInbound(in) /\ IsUnixInbound(other) => Credentials(in) \cap Credentials(other) = {}

SharesInv ==
  /\ calls \in 0 .. MaxCalls
  /\ \A k \in DOMAIN inbounds : IsSound(inbounds[k], calls)
  /\ \A k, m \in DOMAIN inbounds : k # m => AreApart(inbounds[k], inbounds[m])

(* That the links then reach the inbounds they are of and no others.       *)
LEMMA MadeIsMade ==
  ASSUME NEW c \in 0 .. MaxCalls
  PROVE  /\ \A v \in Made("user", c) : v # Blank
         /\ \A v \in Made("cert", c) : NormalizeCertPin(CertSHA256(v)) = CertSHA256(v)
<1>1. MaxCalls \in Nat
  BY ProbeAssumption
<1>2. \A n \in 0 .. c - 1 : n \in 0 .. MaxCalls - 1
  BY <1>1
<1>3. QED
  BY <1>2, RandomAssumption DEF Made

LEMMA AgreesByParts ==
  ASSUME NEW s, NEW sv, NEW tv, sv.security = tv.security, sv.port = tv.port,
         sv.network = tv.network, sv.transport = tv.transport
  PROVE  /\ SecurityAgrees(s, sv) => SecurityAgrees(s, tv)
         /\ TransportAgrees(s, sv) => TransportAgrees(s, tv)
<1>1. SecurityAgrees(s, sv) => SecurityAgrees(s, tv)
  BY DEF SecurityAgrees
<1>2. TransportAgrees(s, sv) => TransportAgrees(s, tv)
  BY DEF TransportAgrees
<1>3. QED
  BY <1>1, <1>2

\* An inbound as one of its clients has it.
IsOf(j, in, v) ==
  /\ j.protocol = in.protocol /\ j.network = in.network /\ j.security = in.security /\ j.flow = in.flow
  /\ j.listen = in.listen /\ j.path = in.path /\ j.port = in.port /\ j.host = in.host /\ j.mode = in.mode
  /\ j.realitySNI = in.realitySNI /\ j.realityKey = in.realityKey /\ j.realityPublicKey = in.realityPublicKey
  /\ j.realityShortID = in.realityShortID /\ j.cert = in.cert
  /\ j.user = v

LEMMA IsOfItsClient ==
  ASSUME NEW in, InboundFields \subseteq DOMAIN in, NEW v
  PROVE  IsOf(in, in, in.user) /\ IsOf([in EXCEPT !.user = v], in, v)
<1> DEFINE j == [in EXCEPT !.user = v]
<1>1. "user" \in DOMAIN in /\ \A x \in InboundFields : x # "user" => j[x] = in[x]
  BY DEF InboundFields
<1>2. j.user = v
  BY <1>1
<1> HIDE DEF j
<1>3. IsOf(j, in, v)
  BY <1>1, <1>2 DEF InboundFields, TemplateFields, IsOf
<1>4. QED
  BY <1>3 DEF IsOf, j

LEMMA ServesItsClient ==
  ASSUME NEW in, NEW c \in 0 .. MaxCalls, IsSound(in, c), TakesUsers(in), NEW v \in Made("user", c),
         NEW j, IsOf(j, in, v)
  PROVE  Serves(j)
<1>1. HasWords(in) /\ KeysMade(in, c) /\ HasPort(in)
  BY DEF IsSound
<1>2. HasWords(j)
  BY <1>1 DEF HasWords, IsOf
<1>3. KeysFit(j)
  <2>1. j.security = "reality" => j.realityPublicKey = PublicKey(j.realityKey)
    BY <1>1 DEF KeysMade, IsOf
  <2>2. j.security = "tls" => NormalizeCertPin(CertSHA256(j.cert)) = CertSHA256(j.cert)
    BY <1>1, MadeIsMade DEF KeysMade, IsOf
  <2>3. QED
    BY <2>1, <2>2 DEF KeysFit
<1>4. PortFits(j)
  BY <1>1 DEF PortFits, HasPort, IsUnixInbound, IsOf
<1>5. TakesUsers(j) /\ j.user # Blank
  BY MadeIsMade DEF TakesUsers, IsOf
<1>6. QED
  BY <1>2, <1>3, <1>4, <1>5 DEF Serves

\* What Caddy serves at 443 is what has no port.
LEMMA PortOfLink ==
  ASSUME NEW in, HasWords(in), HasPort(in), NEW j, NEW v, IsOf(j, in, v)
  PROVE  SharePort(j) = IF in.port = 0 THEN 443 ELSE in.port
<1>1. IsCaddyXHTTP(j) <=> IsUnixInbound(in)
  BY DEF HasWords, IsCaddyXHTTP, IsUnixInbound, IsOf
<1>2. IsUnixInbound(in) <=> in.port = 0
  BY DEF HasPort
<1>3. j.port = in.port
  BY DEF IsOf
<1>4. QED
  BY <1>1, <1>2, <1>3 DEF SharePort

LEMMA ClientReaches ==
  ASSUME NEW in, NEW c \in 0 .. MaxCalls, IsSound(in, c), TakesUsers(in), NEW v \in Made("user", c),
         NEW j, IsOf(j, in, v), NEW o, Fits(o, j)
  PROVE  /\ o # None /\ o.user = v /\ o.address[2] = IF in.port = 0 THEN 443 ELSE in.port
         /\ Reaches(o, BuildInbound(in)) <=> v \in InboundClients(in)
<1> DEFINE sv == BuildInbound(in)
           tv == BuildInbound(j)
<1>1. o # None /\ o.user = v /\ o.protocol = in.protocol /\ o.stream.network = in.network
      /\ (o.protocol = "vless" => o.more[2] = in.flow)
  BY DEF Fits, IsOf
<1>2. o.address[2] = IF in.port = 0 THEN 443 ELSE in.port
  <2>1. o.address[2] = SharePort(j)
    BY DEF Fits
  <2>2. HasWords(in) /\ HasPort(in)
    BY DEF IsSound
  <2>3. QED
    BY <2>1, <2>2, PortOfLink
<1>3. SecurityAgrees(o.stream, tv) /\ TransportAgrees(o.stream, tv)
  BY DEF Fits
<1>4. tv.security = sv.security /\ tv.port = sv.port /\ tv.network = sv.network /\ tv.transport = sv.transport
  <2>1. InboundSecurity(j) = InboundSecurity(in)
    BY DEF InboundSecurity, IsOf
  <2>2. InboundTransport(j) = InboundTransport(in)
    BY DEF InboundTransport, IsOf
  <2>3. j.port = in.port /\ j.network = in.network
    BY DEF IsOf
  <2>4. QED
    BY <2>1, <2>2, <2>3 DEF BuildInbound
<1>5. /\ sv.protocol = in.protocol /\ sv.port = in.port /\ sv.clients = InboundClients(in) /\ sv.flow = in.flow
      /\ sv.network = in.network
  BY DEF BuildInbound
<1> HIDE DEF sv, tv
<1>6. SecurityAgrees(o.stream, sv) /\ TransportAgrees(o.stream, sv)
  BY <1>3, <1>4, AgreesByParts
<1>7. Reaches(o, sv) <=> v \in InboundClients(in)
  BY <1>1, <1>2, <1>5, <1>6 DEF Reaches
<1>8. QED
  BY <1>1, <1>2, <1>7 DEF sv

LEMMA NoOtherReached ==
  ASSUME NEW in, HasPort(in), NEW v \in Credentials(in), NEW o, o.user = v,
         o.address[2] = IF in.port = 0 THEN 443 ELSE in.port,
         NEW other, HasPort(other), AreApart(in, other)
  PROVE  ~Reaches(o, BuildInbound(other))
<1> SUFFICES ASSUME Reaches(o, BuildInbound(other)) PROVE FALSE
  OBVIOUS
<1>1. v \in InboundClients(other) /\ (IF in.port = 0 THEN 443 ELSE in.port) = (IF other.port = 0 THEN 443 ELSE other.port)
  BY DEF Reaches, BuildInbound
<1>2. v \in Credentials(other)
  BY <1>1 DEF InboundClients, Credentials
<1>3. CASE IsUnixInbound(in) /\ IsUnixInbound(other)
  BY <1>2, <1>3 DEF AreApart
<1>4. CASE ~IsUnixInbound(in) /\ ~IsUnixInbound(other)
  BY <1>1, <1>4 DEF AreApart, HasPort
<1>5. CASE IsUnixInbound(in) /\ ~IsUnixInbound(other)
  BY <1>1, <1>5 DEF HasPort
<1>6. CASE ~IsUnixInbound(in) /\ IsUnixInbound(other)
  BY <1>1, <1>6 DEF HasPort
<1>7. QED
  BY <1>3, <1>4, <1>5, <1>6

LEMMA DisabledIsNoClient ==
  ASSUME NEW in, NEW c, ClientsMade(in, c), TakesUsers(in), NEW u \in in.users
  PROVE  u.credential \in InboundClients(in) <=> u.enabled
<1>1. u.enabled => u.credential \in InboundClients(in)
  BY DEF InboundClients
<1>2. ASSUME u.credential \in InboundClients(in) PROVE u.enabled
  <2>1. u.credential # in.user
    BY DEF ClientsMade
  <2>2. PICK v \in in.users : v.enabled /\ v.credential = u.credential
    BY <1>2, <2>1 DEF InboundClients
  <2>3. v = u
    BY <2>2 DEF ClientsMade
  <2>4. QED
    BY <2>2, <2>3
<1>3. u.enabled \in BOOLEAN
  BY DEF ClientsMade
<1>4. QED
  BY <1>1, <1>2, <1>3

\* A link of an inbound's, for one of its credentials.
LEMMA LinkReaches ==
  ASSUME SharesInv, NEW k \in DOMAIN inbounds, NEW m \in DOMAIN inbounds, TakesUsers(inbounds[k]),
         NEW v \in Credentials(inbounds[k]), NEW j, IsOf(j, inbounds[k], v), NEW host
  PROVE  Reaching(inbounds[m], ShareLink(j, host)) <=> k = m /\ v \in InboundClients(inbounds[k])
<1> DEFINE in == inbounds[k]
           o == ParseLink(ShareLink(j, host))
<1>1. calls \in 0 .. MaxCalls /\ IsSound(in, calls) /\ IsSound(inbounds[m], calls)
  BY DEF SharesInv
<1>2. v \in Made("user", calls)
  BY <1>1 DEF IsSound, ClientsMade, Credentials
<1>3. Serves(j)
  BY <1>1, <1>2, ServesItsClient
<1>4. Fits(o, j)
  BY <1>3, LinkFits
<1> HIDE DEF o
<1>5. /\ o # None /\ o.user = v /\ o.address[2] = IF in.port = 0 THEN 443 ELSE in.port
      /\ Reaches(o, BuildInbound(in)) <=> v \in InboundClients(in)
  BY <1>1, <1>2, <1>4, ClientReaches
<1>6. Reaching(inbounds[m], ShareLink(j, host)) <=> Reaches(o, BuildInbound(inbounds[m]))
  BY <1>5 DEF Reaching, o
<1>7. CASE k = m
  BY <1>5, <1>6, <1>7
<1>8. CASE k # m
  <2>1. AreApart(in, inbounds[m])
    BY <1>8 DEF SharesInv
  <2>2. HasPort(in) /\ HasPort(inbounds[m])
    BY <1>1 DEF IsSound
  <2>3. ~Reaches(o, BuildInbound(inbounds[m]))
    BY <1>5, <2>1, <2>2, NoOtherReached
  <2>4. QED
    BY <1>6, <1>8, <2>3
<1>9. QED
  BY <1>7, <1>8

LEMMA SharesReach == SharesInv => ShareReaches
<1> SUFFICES ASSUME SharesInv, NEW k \in DOMAIN inbounds, NEW m \in DOMAIN inbounds, NEW ip \in PublicIPs,
                    TakesUsers(inbounds[k])
             PROVE  /\ Reaching(inbounds[m], InboundInfo(inbounds[k], ip)) <=> k = m
                    /\ \A u \in inbounds[k].users :
                         Reaching(inbounds[m], InboundUserInfo(inbounds[k], ip, u)) <=> k = m /\ u.enabled
  BY DEF ShareReaches
<1> DEFINE in == inbounds[k]
           host == OrDefault(in.publicHost, ip)
<1>1. InboundFields \subseteq DOMAIN in /\ ClientsMade(in, calls)
  BY DEF SharesInv, IsSound
<1>2. Reaching(inbounds[m], InboundInfo(in, ip)) <=> k = m
  <2>1. IsOf(in, in, in.user)
    BY <1>1, IsOfItsClient
  <2>2. in.user \in Credentials(in) /\ in.user \in InboundClients(in)
    BY DEF Credentials, InboundClients
  <2>3. Reaching(inbounds[m], ShareLink(in, host)) <=> k = m /\ in.user \in InboundClients(in)
    BY <2>1, <2>2, LinkReaches
  <2>4. QED
    BY <2>2, <2>3 DEF InboundInfo
<1>3. ASSUME NEW u \in in.users
      PROVE  Reaching(inbounds[m], InboundUserInfo(in, ip, u)) <=> k = m /\ u.enabled
  <2> DEFINE j == [in EXCEPT !.user = u.credential]
  <2>1. IsOf(j, in, u.credential)
    BY <1>1, IsOfItsClient
  <2>2. u.credential \in Credentials(in)
    BY DEF Credentials
  <2>3. InboundUserInfo(in, ip, u) = ShareLink(j, host)
    BY DEF InboundUserInfo, ShareLinkForUser
  <2> HIDE DEF j
  <2>4. Reaching(inbounds[m], ShareLink(j, host)) <=> k = m /\ u.credential \in InboundClients(in)
    BY <2>1, <2>2, LinkReaches
  <2>5. u.credential \in InboundClients(in) <=> u.enabled
    BY <1>1, DisabledIsNoClient
  <2>6. QED
    BY <2>3, <2>4, <2>5
<1>4. QED
  BY <1>2, <1>3

(* That every call about inbounds keeps it.                                *)
LEMMA MadeGrows ==
  ASSUME NEW c \in Nat, NEW what
  PROVE  Made(what, c) \subseteq Made(what, c + 1) /\ Generated(what, c) \in Made(what, c + 1)
<1>1. 0 .. c - 1 \subseteq 0 .. (c + 1) - 1 /\ c \in 0 .. (c + 1) - 1
  OBVIOUS
<1>2. QED
  BY <1>1 DEF Made

\* What is generated now has not been generated before, and is not blank.
LEMMA MadeIsNew ==
  ASSUME NEW c \in 0 .. MaxCalls - 1
  PROVE  Generated("user", c) # Blank /\ Generated("user", c) \notin Made("user", c)
<1>1. MaxCalls \in Nat
  BY ProbeAssumption
<1>2. \A n \in 0 .. c - 1 : n \in 0 .. MaxCalls - 1 /\ n # c
  BY <1>1
<1>3. QED
  BY <1>2, RandomAssumption DEF Made

LEMMA SoundStays ==
  ASSUME NEW c \in Nat, NEW in, IsSound(in, c)
  PROVE  IsSound(in, c + 1)
<1>1. Made("cert", c) \subseteq Made("cert", c + 1) /\ Made("user", c) \subseteq Made("user", c + 1)
  BY MadeGrows
<1>2. KeysMade(in, c + 1)
  BY <1>1 DEF IsSound, KeysMade
<1>3. ClientsMade(in, c + 1)
  <2> SUFFICES ASSUME TakesUsers(in) PROVE ClientsMade(in, c + 1)
    BY DEF ClientsMade
  <2>1. /\ in.user \in Made("user", c)
        /\ in.users \subseteq [credential : Made("user", c), enabled : BOOLEAN]
        /\ \A u \in in.users : u.credential # in.user
        /\ \A u, v \in in.users : u.credential = v.credential => u = v
    BY DEF IsSound, ClientsMade
  <2>2. in.users \subseteq [credential : Made("user", c + 1), enabled : BOOLEAN]
    BY <1>1, <2>1
  <2>3. QED
    BY <1>1, <2>1, <2>2 DEF ClientsMade
<1>4. QED
  BY <1>2, <1>3 DEF IsSound

\* Materialize leaves alone what it does not generate.
LEMMA MaterializeIs ==
  ASSUME NEW in, InboundFields \subseteq DOMAIN in, NEW n, NEW out, out = Materialize(in, n)
  PROVE  /\ DOMAIN out = DOMAIN in
         /\ out.protocol = in.protocol /\ out.network = in.network /\ out.security = in.security
         /\ out.listen = in.listen /\ out.port = in.port /\ out.users = in.users
         /\ in.protocol # "socks" => out.user = OrDefault(in.user, Generated("user", n))
         /\ LET newKey == in.security = "reality" /\ in.realityKey = Blank
            IN  /\ out.realityKey = IF newKey THEN Generated("key", n) ELSE in.realityKey
                /\ out.realityPublicKey = IF newKey THEN PublicKey(Generated("key", n)) ELSE in.realityPublicKey
         /\ out.cert = IF in.security = "tls" THEN OrDefault(in.cert, Generated("cert", n)) ELSE in.cert
BY DEF Materialize, InboundFields, TemplateFields

LEMMA MaterializeMakesKeys ==
  ASSUME NEW c \in Nat, NEW in, InboundFields \subseteq DOMAIN in,
         in.realityKey # Blank => in.realityPublicKey = PublicKey(in.realityKey),
         in.cert \in {Blank} \cup Made("cert", c + 1)
  PROVE  KeysMade(Materialize(in, c), c + 1)
<1> DEFINE out == Materialize(in, c)
           newKey == in.security = "reality" /\ in.realityKey = Blank
<1>1. /\ out.security = in.security
      /\ out.realityKey = IF newKey THEN Generated("key", c) ELSE in.realityKey
      /\ out.realityPublicKey = IF newKey THEN PublicKey(Generated("key", c)) ELSE in.realityPublicKey
      /\ out.cert = IF in.security = "tls" THEN OrDefault(in.cert, Generated("cert", c)) ELSE in.cert
  BY MaterializeIs
<1> HIDE DEF out
<1>2. out.security = "reality" \/ out.realityKey # Blank => out.realityPublicKey = PublicKey(out.realityKey)
  BY <1>1
<1>3. Generated("cert", c) \in Made("cert", c + 1)
  BY MadeGrows
<1>4. out.security = "tls" => out.cert \in Made("cert", c + 1)
  BY <1>1, <1>3 DEF OrDefault
<1>5. out.cert \in {Blank} \cup Made("cert", c + 1)
  BY <1>1, <1>3 DEF OrDefault
<1>6. QED
  BY <1>2, <1>4, <1>5 DEF KeysMade, out

\* The port an inbound is given is in its range, and none that is used.
LEMMA AssignedPort ==
  ASSUME NEW in, InboundFields \subseteq DOMAIN in, in.port = 0, NEW used, NEW out, out = Assigned(in, used), ~Lacks(out)
  PROVE  /\ DOMAIN out = DOMAIN in /\ HasPort(out)
         /\ ~IsUnixInbound(out) => out.port \notin used
         /\ \A x \in DOMAIN in : x # "port" => out[x] = in[x]
<1>1. "port" \in DOMAIN in /\ "listen" \in DOMAIN in
  BY DEF InboundFields, TemplateFields
<1>2. /\ DOMAIN out = DOMAIN in /\ \A x \in DOMAIN in : x # "port" => out[x] = in[x]
      /\ out.port = IF Lacks(in) THEN NextFreePort(used) ELSE in.port
  BY <1>1 DEF Assigned
<1>3. out.listen = in.listen
  BY <1>1, <1>2
<1>4. CASE IsUnixInbound(in)
  BY <1>2, <1>3, <1>4 DEF Lacks, HasPort, IsUnixInbound
<1>5. CASE ~IsUnixInbound(in)
  <2>1. Lacks(in) /\ ~IsUnixInbound(out)
    BY <1>3, <1>5 DEF Lacks, IsUnixInbound
  <2>2. out.port = NextFreePort(used) /\ out.port # 0
    BY <1>2, <2>1 DEF Lacks
  <2> DEFINE free == (11800 .. 11899) \ used
  <2>3. free # {} /\ out.port = Min(free)
    BY <2>2 DEF NextFreePort
  <2>4. Min(free) \in free
    BY <2>3, MinIsIn
  <2>5. QED
    BY <1>2, <2>1, <2>3, <2>4 DEF HasPort
<1>6. QED
  BY <1>4, <1>5

\* What is neither blanked nor generated does not matter to the words.
LEMMA SameWords ==
  ASSUME NEW in, HasWords(in), NEW out,
         out.protocol = in.protocol, out.network = in.network, out.security = in.security, out.listen = in.listen
  PROVE  HasWords(out) /\ (TakesUsers(out) <=> TakesUsers(in)) /\ (IsUnixInbound(out) <=> IsUnixInbound(in))
BY DEF HasWords, TakesUsers, IsUnixInbound

\* What is made from a template, and what is asked of it.
LEMMA AddedIsSound ==
  ASSUME NEW req \in Requests, NEW c \in Nat, c \in 0 .. MaxCalls - 1, NEW out, out = Assigned(InboundAdd(req, c), {}), ~Lacks(out)
  PROVE  IsSound(out, c + 1)
<1> DEFINE blank == [port |-> 0, publicHost |-> Blank, host |-> Blank, mode |-> Blank, tlsSNI |-> Blank,
                     realitySNI |-> Blank, user |-> Blank, realityKey |-> Blank, realityPublicKey |-> Blank,
                     realityShortID |-> Blank, cert |-> Blank, users |-> {}]
           t == req.template
           in == t ++ blank
           pre == IF IsCaddyXHTTP(in) THEN [CaddyEndpoint(in, c) EXCEPT !.mode = "packet-up"] ELSE in
           made == Materialize(pre, c)
           asked == [made EXCEPT !.publicHost = req.publicHost, !.path = OrDefault(req.path, @),
                                 !.mode = OrDefault(req.mode, @)]
           done == InboundAdd(req, c)
<1>0. done = Materialize(asked, c)
  BY DEF InboundAdd, NewInboundFromTemplate, asked, made, pre, in, blank
<1>1. /\ DOMAIN blank = InboundFields \ TemplateFields
      /\ blank["port"] = 0 /\ blank["user"] = Blank /\ blank["realityKey"] = Blank /\ blank["cert"] = Blank
      /\ blank["users"] = {}
  BY DEF InboundFields, TemplateFields
<1>2. IsTemplate(t)
  BY ProbeAssumption, TemplatesAre
<1>3. DOMAIN t = TemplateFields /\ HasWords(t)
  BY <1>2 DEF IsTemplate, HasWords
<1> HIDE DEF blank, t
<1>4. /\ DOMAIN in = DOMAIN t \cup DOMAIN blank
      /\ (\A x \in DOMAIN t : in[x] = t[x]) /\ (\A x \in DOMAIN blank \ DOMAIN t : in[x] = blank[x])
  BY DEF ++
<1> HIDE DEF in
<1>5. /\ InboundFields = DOMAIN in
      /\ in.protocol = t.protocol /\ in.network = t.network /\ in.security = t.security /\ in.listen = t.listen
  <2>1. DOMAIN in = InboundFields
    BY <1>1, <1>3, <1>4 DEF InboundFields
  <2>2. QED
    BY <1>3, <1>4, <2>1 DEF TemplateFields
<1>6. in.port = 0 /\ in.user = Blank /\ in.realityKey = Blank /\ in.cert = Blank /\ in.users = {}
  <2>1. \A x \in {"port", "user", "realityKey", "cert", "users"} : x \in DOMAIN blank \ DOMAIN t
    BY <1>1, <1>3 DEF InboundFields, TemplateFields
  <2>2. \A x \in {"port", "user", "realityKey", "cert", "users"} : in[x] = blank[x]
    BY <1>4, <2>1
  <2>3. QED
    BY <1>1, <2>2
<1>7. HasWords(in)
  BY <1>3, <1>5, SameWords
<1>8. /\ DOMAIN pre = DOMAIN in
      /\ pre.protocol = in.protocol /\ pre.network = in.network /\ pre.security = in.security /\ pre.listen = in.listen
      /\ pre.port = 0 /\ pre.user = Blank /\ pre.realityKey = Blank /\ pre.cert = Blank /\ pre.users = {}
  <2>1. CASE IsCaddyXHTTP(in)
    <3>1. pre = [CaddyEndpoint(in, c) EXCEPT !.mode = "packet-up"]
      BY <2>1
    <3> HIDE DEF pre
    <3>2. QED
      BY <1>5, <1>6, <3>1 DEF CaddyEndpoint, InboundFields, TemplateFields
  <2>2. CASE ~IsCaddyXHTTP(in)
    BY <1>6, <2>2
  <2>3. QED
    BY <2>1, <2>2
<1> HIDE DEF pre
<1>9. /\ DOMAIN made = InboundFields
      /\ made.protocol = in.protocol /\ made.network = in.network /\ made.security = in.security
      /\ made.listen = in.listen /\ made.port = 0 /\ made.users = {}
      /\ in.protocol # "socks" => made.user = Generated("user", c)
  BY <1>5, <1>8, MaterializeIs DEF OrDefault
<1>10. KeysMade(made, c + 1)
  BY <1>5, <1>8, MaterializeMakesKeys
<1> HIDE DEF made
<1>11. /\ DOMAIN asked = InboundFields
       /\ asked.protocol = in.protocol /\ asked.network = in.network /\ asked.security = in.security
       /\ asked.listen = in.listen /\ asked.port = 0 /\ asked.users = {} /\ asked.user = made.user
       /\ asked.realityKey = made.realityKey /\ asked.realityPublicKey = made.realityPublicKey /\ asked.cert = made.cert
  BY <1>9 DEF InboundFields, TemplateFields
<1> HIDE DEF asked
<1>12. /\ DOMAIN done = InboundFields
       /\ done.protocol = in.protocol /\ done.network = in.network /\ done.security = in.security
       /\ done.listen = in.listen /\ done.port = 0 /\ done.users = {}
       /\ in.protocol # "socks" => done.user = OrDefault(made.user, Generated("user", c))
  BY <1>0, <1>11, MaterializeIs
<1>13. KeysMade(done, c + 1)
  BY <1>0, <1>10, <1>11, MaterializeMakesKeys DEF KeysMade
<1>14. TakesUsers(done) => done.user \in Made("user", c + 1)
  <2>1. Generated("user", c) \in Made("user", c + 1) 
    BY MadeGrows
  <2>2. QED
    BY <1>9, <1>12, <2>1 DEF TakesUsers, OrDefault
<1> HIDE DEF done
<1>15. /\ DOMAIN out = DOMAIN done /\ HasPort(out)
       /\ \A x \in DOMAIN done : x # "port" => out[x] = done[x]
  BY <1>12, AssignedPort DEF done
<1>16. /\ out.protocol = done.protocol /\ out.network = done.network /\ out.security = done.security
       /\ out.listen = done.listen /\ out.users = {} /\ out.user = done.user /\ out.cert = done.cert
       /\ out.realityKey = done.realityKey /\ out.realityPublicKey = done.realityPublicKey
  BY <1>12, <1>15 DEF InboundFields, TemplateFields
<1>17. HasWords(out)
  BY <1>7, <1>12, <1>16, SameWords
<1>18. KeysMade(out, c + 1)
  BY <1>13, <1>16 DEF KeysMade
<1>19. ClientsMade(out, c + 1)
  BY <1>14, <1>16 DEF ClientsMade, TakesUsers
<1>20. QED
  BY <1>12, <1>15, <1>17, <1>18, <1>19 DEF IsSound

\* A copy has keys and a port of its own, no users, and a new credential but
\* for a hysteria client's.
LEMMA CopyIsSound ==
  ASSUME NEW c \in Nat, c \in 0 .. MaxCalls - 1, NEW src, IsSound(src, c), NEW used,
         NEW out, out = Assigned(DuplicateInbound(src, c), used), ~Lacks(out)
  PROVE  /\ IsSound(out, c + 1)
         /\ ~IsUnixInbound(out) => out.port \notin used
         /\ IsUnixInbound(out) => Credentials(out) = {Generated("user", c)}
<1> DEFINE dup == [src EXCEPT !.port = 0, !.users = {},
                     !.realityKey = Blank, !.realityPublicKey = Blank, !.realityShortID = Blank, !.cert = Blank,
                     !.user = IF src.protocol \in {"hysteria", "socks"} THEN @ ELSE Blank]
           pre == IF IsCaddyXHTTP(src) THEN CaddyEndpoint(dup, c) ELSE dup
           done == DuplicateInbound(src, c)
<1>0. done = Materialize(pre, c)
  BY DEF DuplicateInbound, pre, dup
<1>1. InboundFields \subseteq DOMAIN src /\ HasWords(src) /\ ClientsMade(src, c)
  BY DEF IsSound
<1>2. /\ DOMAIN dup = DOMAIN src
      /\ dup.protocol = src.protocol /\ dup.network = src.network /\ dup.security = src.security
      /\ dup.listen = src.listen /\ dup.port = 0 /\ dup.users = {} /\ dup.realityKey = Blank /\ dup.cert = Blank
      /\ dup.user = IF src.protocol \in {"hysteria", "socks"} THEN src.user ELSE Blank
  BY <1>1 DEF InboundFields, TemplateFields
<1> HIDE DEF dup
<1>3. /\ DOMAIN pre = DOMAIN src
      /\ pre.protocol = src.protocol /\ pre.network = src.network /\ pre.security = src.security
      /\ pre.listen = src.listen /\ pre.port = 0 /\ pre.users = {} /\ pre.realityKey = Blank /\ pre.cert = Blank
      /\ pre.user = IF src.protocol \in {"hysteria", "socks"} THEN src.user ELSE Blank
  BY <1>1, <1>2 DEF CaddyEndpoint, InboundFields, TemplateFields
<1> HIDE DEF pre
<1>4. /\ DOMAIN done = DOMAIN src
      /\ done.protocol = src.protocol /\ done.network = src.network /\ done.security = src.security
      /\ done.listen = src.listen /\ done.port = 0 /\ done.users = {}
      /\ src.protocol # "socks" => done.user = OrDefault(pre.user, Generated("user", c))
  BY <1>0, <1>1, <1>3, MaterializeIs
<1>5. KeysMade(done, c + 1)
  BY <1>0, <1>1, <1>3, MaterializeMakesKeys
<1>6. done.protocol \notin {"socks", "hysteria"} => done.user = Generated("user", c)
  BY <1>3, <1>4 DEF OrDefault
<1>7. TakesUsers(done) => done.user \in Made("user", c + 1)
  <2>1. Generated("user", c) \in Made("user", c + 1) /\ Made("user", c) \subseteq Made("user", c + 1)
    BY MadeGrows
  <2>2. TakesUsers(src) => src.user \in Made("user", c)
    BY <1>1 DEF ClientsMade
  <2>3. QED
    BY <1>3, <1>4, <2>1, <2>2 DEF TakesUsers, OrDefault
<1>8. InboundFields \subseteq DOMAIN done
  BY <1>1, <1>4
<1> HIDE DEF done
<1>9. /\ DOMAIN out = DOMAIN done /\ HasPort(out)
      /\ \A x \in DOMAIN done : x # "port" => out[x] = done[x]
  BY <1>4, <1>8, AssignedPort DEF done
<1>10. ~IsUnixInbound(out) => out.port \notin used
  BY <1>4, <1>8, AssignedPort DEF done
<1>11. /\ out.protocol = done.protocol /\ out.network = done.network /\ out.security = done.security
       /\ out.listen = done.listen /\ out.users = {} /\ out.user = done.user /\ out.cert = done.cert
       /\ out.realityKey = done.realityKey /\ out.realityPublicKey = done.realityPublicKey
  BY <1>4, <1>8, <1>9 DEF InboundFields, TemplateFields
<1>12. HasWords(out)
  BY <1>1, <1>4, <1>11, SameWords
<1>13. KeysMade(out, c + 1)
  BY <1>5, <1>11 DEF KeysMade
<1>14. ClientsMade(out, c + 1)
  BY <1>7, <1>11 DEF ClientsMade, TakesUsers
<1>15. IsUnixInbound(out) => Credentials(out) = {Generated("user", c)}
  <2> SUFFICES ASSUME IsUnixInbound(out) PROVE Credentials(out) = {Generated("user", c)}
    OBVIOUS
  <2>1. out.protocol = "vless"
    BY <1>12 DEF HasWords, IsUnixInbound
  <2>2. out.user = Generated("user", c) /\ out.users = {}
    BY <1>6, <1>11, <2>1
  <2>3. QED
    BY <2>2 DEF Credentials
<1>16. QED
  BY <1>8, <1>9, <1>10, <1>12, <1>13, <1>14, <1>15 DEF IsSound

\* An edit leaves the words, the port and the users, and generates what it blanked.
LEMMA EditedIsSound ==
  ASSUME NEW c \in Nat, c \in 0 .. MaxCalls - 1, NEW cur, IsSound(cur, c), Kind(cur) \in DOMAIN Edits,
         NEW edit \in Edits[Kind(cur)], NEW out, out = InboundSetConfig(cur, edit, c)
  PROVE  /\ IsSound(out, c + 1)
         /\ out.port = cur.port /\ out.listen = cur.listen /\ out.users = cur.users
         /\ TakesUsers(cur) => out.user \in {cur.user, Generated("user", c)}
<1> DEFINE both == edit ++ cur
           made == Materialize(both, c)
           kind == Kind(cur)
<1>0. out = [made EXCEPT !.port = IF Lacks(made) THEN cur.port ELSE @]
  BY DEF InboundSetConfig, both, made
<1>1. InboundFields \subseteq DOMAIN cur /\ HasWords(cur) /\ KeysMade(cur, c) /\ HasPort(cur) /\ ClientsMade(cur, c)
  BY DEF IsSound
<1>2. /\ kind \in DOMAIN Sayable
      /\ DOMAIN edit \cap {"protocol", "listen", "users", "realityPublicKey"} = {}
      /\ \A f \in DOMAIN edit \cap {"user", "realityKey", "cert"} : edit[f] = Blank
      /\ "port" \in DOMAIN edit => edit["port"] = 0
      /\ "network" \in DOMAIN edit => edit["network"] \in Sayable[kind].networks
      /\ "security" \in DOMAIN edit => edit["security"] \in Sayable[kind].securities
  BY EditsAssumption
<1>3. /\ DOMAIN both = DOMAIN edit \cup DOMAIN cur
      /\ (\A x \in DOMAIN edit : both[x] = edit[x]) /\ (\A x \in DOMAIN cur \ DOMAIN edit : both[x] = cur[x])
  BY DEF ++
<1> HIDE DEF both
<1>4. InboundFields \subseteq DOMAIN both
  BY <1>1, <1>3
<1>5. /\ both.protocol = cur.protocol /\ both.listen = cur.listen /\ both.users = cur.users
      /\ both.realityPublicKey = cur.realityPublicKey
  BY <1>1, <1>2, <1>3 DEF InboundFields, TemplateFields
<1>6. /\ both.user \in {Blank, cur.user} /\ both.realityKey \in {Blank, cur.realityKey}
      /\ both.cert \in {Blank, cur.cert} /\ both.port \in {0, cur.port}
  BY <1>1, <1>2, <1>3 DEF InboundFields, TemplateFields
<1>7. /\ both.network = cur.network \/ both.network \in Sayable[kind].networks
      /\ both.security = cur.security \/ both.security \in Sayable[kind].securities
  BY <1>1, <1>2, <1>3 DEF InboundFields, TemplateFields
<1> HIDE DEF kind
<1>8. HasWords(both)
  <2>1. kind = (IF IsUnixInbound(cur) THEN "caddy" ELSE cur.protocol)
    BY <1>1 DEF kind, Kind, IsCaddyXHTTP, HasWords, IsUnixInbound
  <2>2. CASE IsUnixInbound(cur)
    <3>1. both.network = "xhttp" /\ both.security = "none" /\ both.protocol = "vless"
      BY <1>1, <1>5, <1>7, <2>1, <2>2 DEF HasWords, IsUnixInbound, Sayable
    <3>2. QED
      BY <3>1 DEF HasWords, Protocols
  <2>3. CASE ~IsUnixInbound(cur) /\ cur.protocol = "vless"
    <3>1. /\ both.network \in Spoken \cup {"xhttp"} /\ both.security \in {"none", "tls", "reality"}
          /\ both.protocol = "vless" /\ both.listen # "socket"
      BY <1>1, <1>5, <1>7, <2>1, <2>3 DEF HasWords, IsUnixInbound, Sayable, Spoken
    <3>2. QED
      BY <3>1 DEF HasWords, Protocols, Spoken
  <2>4. CASE ~IsUnixInbound(cur) /\ cur.protocol = "vmess"
    <3>1. /\ both.network \in Spoken /\ both.security \in {"none", "tls"}
          /\ both.protocol = "vmess" /\ both.listen # "socket"
      BY <1>1, <1>5, <1>7, <2>1, <2>4 DEF HasWords, IsUnixInbound, Sayable, Spoken
    <3>2. QED
      BY <3>1 DEF HasWords, Protocols, Spoken
  <2>5. CASE ~IsUnixInbound(cur) /\ cur.protocol = "trojan"
    <3>1. /\ both.network \in Spoken \cup {"xhttp"} /\ both.security = "tls"
          /\ both.protocol = "trojan" /\ both.listen # "socket"
      BY <1>1, <1>5, <1>7, <2>1, <2>5 DEF HasWords, IsUnixInbound, Sayable, Spoken
    <3>2. QED
      BY <3>1 DEF HasWords, Protocols, Spoken
  <2>6. CASE ~IsUnixInbound(cur) /\ cur.protocol = "hysteria"
    <3>1. /\ both.network = "hysteria" /\ both.security = "tls" /\ both.protocol = "hysteria" /\ both.listen # "socket"
      BY <1>1, <1>5, <1>7, <2>1, <2>6 DEF HasWords, IsUnixInbound, Sayable
    <3>2. QED
      BY <3>1 DEF HasWords, Protocols
  <2>7. CASE ~IsUnixInbound(cur) /\ cur.protocol = "socks"
    <3>1. /\ both.network = "tcp" /\ both.security = "none" /\ both.protocol = "socks" /\ both.listen # "socket"
      BY <1>1, <1>5, <1>7, <2>1, <2>7 DEF HasWords, IsUnixInbound, Sayable
    <3>2. QED
      BY <3>1 DEF HasWords, Protocols
  <2>8. cur.protocol \in Protocols
    BY <1>1 DEF HasWords
  <2>9. QED
    BY <2>2, <2>3, <2>4, <2>5, <2>6, <2>7, <2>8 DEF Protocols
<1>9. /\ DOMAIN made = DOMAIN both
      /\ made.protocol = both.protocol /\ made.network = both.network /\ made.security = both.security
      /\ made.listen = both.listen /\ made.port = both.port /\ made.users = both.users
      /\ both.protocol # "socks" => made.user = OrDefault(both.user, Generated("user", c))
  BY <1>4, MaterializeIs
<1>10. KeysMade(made, c + 1)
  <2>1. both.realityKey # Blank => both.realityPublicKey = PublicKey(both.realityKey)
    BY <1>1, <1>5, <1>6 DEF KeysMade
  <2>2. both.cert \in {Blank} \cup Made("cert", c + 1)
    BY <1>1, <1>6, MadeGrows DEF KeysMade
  <2>3. QED
    BY <1>4, <2>1, <2>2, MaterializeMakesKeys
<1> HIDE DEF made
<1>11. /\ DOMAIN out = DOMAIN made
       /\ out.protocol = made.protocol /\ out.network = made.network /\ out.security = made.security
       /\ out.listen = made.listen /\ out.users = made.users /\ out.user = made.user /\ out.cert = made.cert
       /\ out.realityKey = made.realityKey /\ out.realityPublicKey = made.realityPublicKey
       /\ out.port = IF Lacks(made) THEN cur.port ELSE made.port
  BY <1>0, <1>4, <1>9 DEF InboundFields, TemplateFields
<1>12. out.listen = cur.listen /\ out.users = cur.users /\ out.protocol = cur.protocol
  BY <1>5, <1>9, <1>11
<1>13. out.port = cur.port
  BY <1>1, <1>5, <1>6, <1>9, <1>11 DEF Lacks, HasPort, IsUnixInbound
<1>14. HasPort(out)
  BY <1>1, <1>12, <1>13 DEF HasPort, IsUnixInbound
<1>15. HasWords(out)
  BY <1>8, <1>9, <1>11, SameWords
<1>16. KeysMade(out, c + 1)
  BY <1>10, <1>11 DEF KeysMade
<1>17. TakesUsers(cur) => out.user \in {cur.user, Generated("user", c)}
  BY <1>5, <1>6, <1>9, <1>11 DEF TakesUsers, OrDefault
<1>18. ClientsMade(out, c + 1)
  <2> SUFFICES ASSUME TakesUsers(out) PROVE ClientsMade(out, c + 1)
    BY DEF ClientsMade
  <2>1. TakesUsers(cur)
    BY <1>12 DEF TakesUsers
  <2>2. ClientsMade(cur, c + 1)
    BY SoundStays DEF IsSound
  <2>3. Generated("user", c) \in Made("user", c + 1) /\ Generated("user", c) \notin Made("user", c)
    BY MadeGrows, MadeIsNew
  <2>4. \A u \in cur.users : u.credential \in Made("user", c) /\ u.credential # cur.user
    <3>1. cur.users \subseteq [credential : Made("user", c), enabled : BOOLEAN] /\ \A u \in cur.users : u.credential # cur.user
      BY <1>1, <2>1 DEF ClientsMade
    <3>2. QED
      BY <3>1
  <2>5. \A u \in out.users : u.credential # out.user
    BY <1>12, <1>17, <2>1, <2>3, <2>4
  <2>6. out.user \in Made("user", c + 1)
    BY <1>17, <2>1, <2>2, <2>3 DEF ClientsMade
  <2>7. /\ out.users \subseteq [credential : Made("user", c + 1), enabled : BOOLEAN]
        /\ \A u, v \in out.users : u.credential = v.credential => u = v
    BY <1>12, <2>1, <2>2 DEF ClientsMade
  <2>8. QED
    BY <2>5, <2>6, <2>7 DEF ClientsMade
<1>19. QED
  BY <1>4, <1>9, <1>11, <1>12, <1>13, <1>14, <1>15, <1>16, <1>17, <1>18 DEF IsSound

\* The credentials an inbound has were all generated.
LEMMA CredentialsAreMade ==
  ASSUME NEW in, NEW c, IsSound(in, c), TakesUsers(in)
  PROVE  Credentials(in) \subseteq Made("user", c)
<1>1. in.user \in Made("user", c) /\ in.users \subseteq [credential : Made("user", c), enabled : BOOLEAN]
  BY DEF IsSound, ClientsMade
<1>2. \A u \in in.users : u.credential \in Made("user", c)
  BY <1>1
<1>3. QED
  BY <1>1, <1>2 DEF Credentials

LEMMA UserAddedIsSound ==
  ASSUME NEW c \in Nat, c \in 0 .. MaxCalls - 1, NEW in, IsSound(in, c), TakesUsers(in),
         NEW out, out = [in EXCEPT !.users = @ \cup {NewInboundUser(c)}]
  PROVE  /\ IsSound(out, c + 1) /\ out.port = in.port /\ out.listen = in.listen /\ TakesUsers(out)
         /\ Credentials(out) = Credentials(in) \cup {Generated("user", c)}
<1> DEFINE new == NewInboundUser(c)
<1>1. InboundFields \subseteq DOMAIN in /\ HasWords(in) /\ KeysMade(in, c) /\ HasPort(in)
  BY DEF IsSound
<1>2. /\ DOMAIN out = DOMAIN in
      /\ out.protocol = in.protocol /\ out.network = in.network /\ out.security = in.security
      /\ out.listen = in.listen /\ out.port = in.port /\ out.user = in.user /\ out.cert = in.cert
      /\ out.realityKey = in.realityKey /\ out.realityPublicKey = in.realityPublicKey
      /\ out.users = in.users \cup {new}
  BY <1>1 DEF InboundFields, TemplateFields
<1>3. new \in [credential : {Generated("user", c)}, enabled : BOOLEAN] /\ new.credential = Generated("user", c)
  BY DEF NewInboundUser
<1> HIDE DEF new
<1>4. /\ in.user \in Made("user", c)
      /\ in.users \subseteq [credential : Made("user", c), enabled : BOOLEAN]
      /\ \A u \in in.users : u.credential # in.user
      /\ \A u, v \in in.users : u.credential = v.credential => u = v
  BY DEF IsSound, ClientsMade
<1>5. Generated("user", c) \notin Made("user", c) /\ Generated("user", c) \in Made("user", c + 1)
      /\ Made("user", c) \subseteq Made("user", c + 1)
  BY MadeIsNew, MadeGrows
<1>6. \A u \in in.users : u.credential \in Made("user", c)
  BY <1>4
<1>7. ClientsMade(out, c + 1)
  <2>1. out.user \in Made("user", c + 1)
    BY <1>2, <1>4, <1>5
  <2>2. in.users \subseteq [credential : Made("user", c + 1), enabled : BOOLEAN]
    BY <1>4, <1>5
  <2>3. new \in [credential : Made("user", c + 1), enabled : BOOLEAN]
    BY <1>3, <1>5
  <2>4. out.users \subseteq [credential : Made("user", c + 1), enabled : BOOLEAN]
    BY <1>2, <2>2, <2>3
  <2>5. \A u \in out.users : u.credential # out.user
    BY <1>2, <1>3, <1>4, <1>5
  <2>6. \A u, v \in out.users : u.credential = v.credential => u = v
    BY <1>2, <1>3, <1>4, <1>5, <1>6
  <2>7. QED
    BY <2>1, <2>4, <2>5, <2>6 DEF ClientsMade
<1>8. HasWords(out) /\ TakesUsers(out)
  BY <1>1, <1>2, SameWords
<1>9. HasPort(out)
  BY <1>1, <1>2 DEF HasPort, IsUnixInbound
<1>10. KeysMade(out, c + 1)
  <2>1. KeysMade(in, c + 1)
    BY SoundStays DEF IsSound
  <2>2. QED
    BY <1>2, <2>1 DEF KeysMade
<1>11. Credentials(out) = Credentials(in) \cup {Generated("user", c)}
  BY <1>2, <1>3 DEF Credentials
<1>12. QED
  BY <1>1, <1>2, <1>7, <1>8, <1>9, <1>10, <1>11 DEF IsSound

\* A user who is disabled keeps the credential.
LEMMA UserDisabledIsSound ==
  ASSUME NEW c \in Nat, NEW in, IsSound(in, c), NEW u \in in.users,
         NEW out, out = [in EXCEPT !.users = (@ \ {u}) \cup {[u EXCEPT !.enabled = FALSE]}]
  PROVE  /\ IsSound(out, c + 1) /\ out.port = in.port /\ out.listen = in.listen
         /\ TakesUsers(in) => Credentials(out) = Credentials(in)
<1> DEFINE off == [u EXCEPT !.enabled = FALSE]
<1>1. InboundFields \subseteq DOMAIN in /\ HasWords(in) /\ KeysMade(in, c + 1) /\ HasPort(in) /\ ClientsMade(in, c + 1)
  BY SoundStays DEF IsSound
<1>2. /\ DOMAIN out = DOMAIN in
      /\ out.protocol = in.protocol /\ out.network = in.network /\ out.security = in.security
      /\ out.listen = in.listen /\ out.port = in.port /\ out.user = in.user /\ out.cert = in.cert
      /\ out.realityKey = in.realityKey /\ out.realityPublicKey = in.realityPublicKey
      /\ out.users = (in.users \ {u}) \cup {off}
  BY <1>1 DEF InboundFields, TemplateFields
<1>3. ASSUME TakesUsers(in) PROVE ClientsMade(out, c + 1) /\ Credentials(out) = Credentials(in)
  <2>1. /\ in.user \in Made("user", c + 1)
        /\ in.users \subseteq [credential : Made("user", c + 1), enabled : BOOLEAN]
        /\ \A w \in in.users : w.credential # in.user
        /\ \A w, v \in in.users : w.credential = v.credential => w = v
    BY <1>1, <1>3 DEF ClientsMade
  <2>2. u \in [credential : Made("user", c + 1), enabled : BOOLEAN]
    BY <2>1
  <2>3. off \in [credential : Made("user", c + 1), enabled : BOOLEAN] /\ off.credential = u.credential
    BY <2>2
  <2> HIDE DEF off
  <2>4. out.users \subseteq [credential : Made("user", c + 1), enabled : BOOLEAN]
    BY <1>2, <2>1, <2>3
  <2>5. \A w \in out.users : w.credential # out.user
    BY <1>2, <2>1, <2>3
  <2>6. \A w, v \in out.users : w.credential = v.credential => w = v
    BY <1>2, <2>1, <2>3
  <2>7. ClientsMade(out, c + 1)
    BY <1>2, <2>1, <2>4, <2>5, <2>6 DEF ClientsMade
  <2>8. Credentials(out) = Credentials(in)
    BY <1>2, <2>3 DEF Credentials
  <2>9. QED
    BY <2>7, <2>8
<1> HIDE DEF off
<1>4. HasWords(out) /\ (TakesUsers(out) <=> TakesUsers(in))
  BY <1>1, <1>2, SameWords
<1>5. ClientsMade(out, c + 1)
  BY <1>3, <1>4 DEF ClientsMade
<1>6. HasPort(out)
  BY <1>1, <1>2 DEF HasPort, IsUnixInbound
<1>7. KeysMade(out, c + 1)
  BY <1>1, <1>2 DEF KeysMade
<1>8. QED
  BY <1>1, <1>2, <1>3, <1>4, <1>5, <1>6, <1>7 DEF IsSound

LEMMA SharesInit == Init => SharesInv
<1> SUFFICES ASSUME Init PROVE SharesInv
  OBVIOUS
<1>1. inbounds = <<>> /\ calls = 0 /\ MaxCalls \in Nat
  BY ProbeAssumption DEF Init
<1>2. DOMAIN inbounds = {} /\ calls \in 0 .. MaxCalls
  BY <1>1
<1>3. QED
  BY <1>2 DEF SharesInv

\* One inbound is changed, and stays apart from the others.
LEMMA OneChanged ==
  ASSUME SharesInv, calls \in 0 .. MaxCalls - 1, calls' = calls + 1, NEW k \in DOMAIN inbounds,
         NEW out, IsSound(out, calls + 1), inbounds' = [inbounds EXCEPT ![k] = out],
         out.port = inbounds[k].port, out.listen = inbounds[k].listen,
         IsUnixInbound(out) => Credentials(out) \subseteq Credentials(inbounds[k]) \cup {Generated("user", calls)}
  PROVE  SharesInv'
<1>1. calls \in Nat /\ calls + 1 \in 0 .. MaxCalls
  BY ProbeAssumption
<1>2. DOMAIN inbounds' = DOMAIN inbounds /\ inbounds'[k] = out /\ \A m \in DOMAIN inbounds : m # k => inbounds'[m] = inbounds[m]
  OBVIOUS
<1>3. \A m \in DOMAIN inbounds : IsSound(inbounds[m], calls) /\ IsSound(inbounds[m], calls + 1)
  BY <1>1, SoundStays DEF SharesInv
<1>4. ASSUME NEW m \in DOMAIN inbounds, m # k PROVE AreApart(out, inbounds[m]) /\ AreApart(inbounds[m], out)
  <2>1. AreApart(inbounds[k], inbounds[m])
    BY <1>4 DEF SharesInv
  <2>2. IsUnixInbound(out) <=> IsUnixInbound(inbounds[k])
    BY DEF IsUnixInbound
  <2>3. IsUnixInbound(inbounds[m]) => Generated("user", calls) \notin Credentials(inbounds[m])
    <3> SUFFICES ASSUME IsUnixInbound(inbounds[m]) PROVE Generated("user", calls) \notin Credentials(inbounds[m])
      OBVIOUS
    <3>1. HasWords(inbounds[m]) /\ IsSound(inbounds[m], calls)
      BY <1>3 DEF IsSound
    <3>2. TakesUsers(inbounds[m])
      BY <3>1 DEF HasWords, IsUnixInbound, TakesUsers
    <3>3. QED
      BY <3>1, <3>2, CredentialsAreMade, MadeIsNew
  <2>4. QED
    BY <2>1, <2>2, <2>3 DEF AreApart
<1>5. \A m, l \in DOMAIN inbounds' : m # l => AreApart(inbounds'[m], inbounds'[l])
  BY <1>2, <1>4 DEF SharesInv
<1>6. \A m \in DOMAIN inbounds' : IsSound(inbounds'[m], calls')
  BY <1>2, <1>3
<1>7. QED
  BY <1>1, <1>5, <1>6 DEF SharesInv

LEMMA SharesStep ==
  ASSUME SharesInv, InboundsInv, Next
  PROVE  SharesInv'
<1>0. /\ calls \in Nat /\ MaxCalls \in Nat
      /\ \A k \in DOMAIN inbounds : IsSound(inbounds[k], calls)
  BY ProbeAssumption DEF SharesInv
<1>1. Managing => calls' = calls + 1 /\ calls \in 0 .. MaxCalls - 1 /\ calls' \in 0 .. MaxCalls
  BY <1>0 DEF Managing, SharesInv
<1>2. CASE Add
  <2>1. PICK req \in Requests : /\ ~Lacks(Assigned(InboundAdd(req, calls), {}))
                                /\ inbounds' = <<Assigned(InboundAdd(req, calls), {})>>
    BY <1>2 DEF Add
  <2>2. Managing
    BY <1>2 DEF Add
  <2> DEFINE in == Assigned(InboundAdd(req, calls), {})
  <2>3. IsSound(in, calls + 1)
    BY <1>0, <1>1, <2>1, <2>2, AddedIsSound
  <2>4. inbounds' = <<in>>
    BY <2>1
  <2> HIDE DEF in
  <2>5. DOMAIN inbounds' = {1} /\ inbounds'[1] = in
    BY <2>4
  <2>6. QED
    BY <1>1, <2>2, <2>3, <2>5 DEF SharesInv
<1>3. CASE Edit
  <2>1. PICK k \in DOMAIN inbounds : /\ Kind(inbounds[k]) \in DOMAIN Edits
                                     /\ \E edit \in Edits[Kind(inbounds[k])] :
                                          inbounds' = [inbounds EXCEPT ![k] = InboundSetConfig(inbounds[k], edit, calls)]
    BY <1>3 DEF Edit
  <2>2. PICK edit \in Edits[Kind(inbounds[k])] :
               inbounds' = [inbounds EXCEPT ![k] = InboundSetConfig(inbounds[k], edit, calls)]
    BY <2>1
  <2>3. Managing
    BY <1>3 DEF Edit
  <2> DEFINE in == InboundSetConfig(inbounds[k], edit, calls)
             cur == inbounds[k]
  <2>4. inbounds' = [inbounds EXCEPT ![k] = in]
    BY <2>2
  <2>5. /\ IsSound(in, calls + 1) /\ in.port = cur.port /\ in.listen = cur.listen /\ in.users = cur.users
        /\ TakesUsers(cur) => in.user \in {cur.user, Generated("user", calls)}
    BY <1>0, <1>1, <2>1, <2>3, EditedIsSound
  <2> HIDE DEF in
  <2>6. IsUnixInbound(in) => Credentials(in) \subseteq Credentials(cur) \cup {Generated("user", calls)}
    <3> SUFFICES ASSUME IsUnixInbound(in)
                 PROVE  Credentials(in) \subseteq Credentials(cur) \cup {Generated("user", calls)}
      OBVIOUS
    <3>1. IsUnixInbound(cur) /\ HasWords(cur)
      BY <1>0, <2>5 DEF IsUnixInbound, IsSound
    <3>2. TakesUsers(cur)
      BY <3>1 DEF HasWords, IsUnixInbound, TakesUsers
    <3>3. QED
      BY <2>5, <3>2 DEF Credentials
  <2>7. QED
    BY <1>1, <2>3, <2>4, <2>5, <2>6, OneChanged
<1>4. CASE Duplicate
  <2>1. PICK k \in DOMAIN inbounds :
               /\ ~Lacks(Assigned(DuplicateInbound(inbounds[k], calls), Used(inbounds)))
               /\ inbounds' = Append(inbounds, Assigned(DuplicateInbound(inbounds[k], calls), Used(inbounds)))
    BY <1>4 DEF Duplicate
  <2>2. Managing
    BY <1>4 DEF Duplicate
  <2> DEFINE in == Assigned(DuplicateInbound(inbounds[k], calls), Used(inbounds))
  <2>3. /\ IsSound(in, calls + 1)
        /\ ~IsUnixInbound(in) => in.port \notin Used(inbounds)
        /\ IsUnixInbound(in) => Credentials(in) = {Generated("user", calls)}
    BY <1>0, <1>1, <2>1, <2>2, CopyIsSound
  <2>4. inbounds' = Append(inbounds, in)
    BY <2>1
  <2> HIDE DEF in
  <2>5. PICK S : inbounds \in Seq(S)
    BY DEF InboundsInv
  <2>6. /\ DOMAIN inbounds' = DOMAIN inbounds \cup {Len(inbounds) + 1} /\ Len(inbounds) + 1 \notin DOMAIN inbounds
        /\ inbounds'[Len(inbounds) + 1] = in /\ \A m \in DOMAIN inbounds : inbounds'[m] = inbounds[m]
    BY <2>4, <2>5
  <2>7. \A m \in DOMAIN inbounds : IsSound(inbounds[m], calls + 1)
    BY <1>0, SoundStays
  <2>8. ASSUME NEW m \in DOMAIN inbounds PROVE AreApart(in, inbounds[m]) /\ AreApart(inbounds[m], in)
    <3>0. IsSound(inbounds[m], calls)
      BY <1>0
    <3>1. HasWords(inbounds[m]) /\ HasPort(inbounds[m])
      BY <3>0 DEF IsSound
    <3>2. ~IsUnixInbound(in) /\ ~IsUnixInbound(inbounds[m]) => in.port # inbounds[m].port
      <4>1. ~IsUnixInbound(inbounds[m]) => inbounds[m].port \in Used(inbounds)
        BY <3>1 DEF HasPort, Used
      <4>2. QED
        BY <2>3, <4>1
    <3>3. IsUnixInbound(in) /\ IsUnixInbound(inbounds[m]) => Credentials(in) \cap Credentials(inbounds[m]) = {}
      <4> SUFFICES ASSUME IsUnixInbound(in), IsUnixInbound(inbounds[m])
                   PROVE  Credentials(in) \cap Credentials(inbounds[m]) = {}
        OBVIOUS
      <4>1. TakesUsers(inbounds[m])
        BY <3>1 DEF HasWords, IsUnixInbound, TakesUsers
      <4>2. Credentials(inbounds[m]) \subseteq Made("user", calls)
        BY <3>0, <4>1, CredentialsAreMade
      <4>3. Generated("user", calls) \notin Made("user", calls)
        BY <1>1, <2>2, MadeIsNew
      <4>4. QED
        BY <2>3, <4>2, <4>3
    <3>4. QED
      BY <3>2, <3>3 DEF AreApart
  <2>9. \A m, l \in DOMAIN inbounds' : m # l => AreApart(inbounds'[m], inbounds'[l])
    BY <2>6, <2>8 DEF SharesInv
  <2>10. \A m \in DOMAIN inbounds' : IsSound(inbounds'[m], calls')
    BY <1>1, <2>2, <2>3, <2>6, <2>7
  <2>11. QED
    BY <1>1, <2>2, <2>9, <2>10 DEF SharesInv
<1>5. CASE UserAdd
  <2>1. PICK k \in DOMAIN inbounds : /\ TakesUsers(inbounds[k])
                                     /\ inbounds' = [inbounds EXCEPT ![k].users = @ \cup {NewInboundUser(calls)}]
    BY <1>5 DEF UserAdd
  <2>2. Managing
    BY <1>5 DEF UserAdd
  <2> DEFINE cur == inbounds[k]
             in == [cur EXCEPT !.users = @ \cup {NewInboundUser(calls)}]
  <2>3. inbounds' = [inbounds EXCEPT ![k] = in]
    BY <2>1
  <2>4. /\ IsSound(in, calls + 1) /\ in.port = cur.port /\ in.listen = cur.listen
        /\ Credentials(in) = Credentials(cur) \cup {Generated("user", calls)}
    BY <1>0, <1>1, <2>1, <2>2, UserAddedIsSound
  <2> HIDE DEF in
  <2>5. QED
    BY <1>1, <2>2, <2>3, <2>4, OneChanged
<1>6. CASE UserDisable
  <2>0. PICK k \in DOMAIN inbounds : \E u \in inbounds[k].users :
               inbounds' = [inbounds EXCEPT ![k].users = (@ \ {u}) \cup {[u EXCEPT !.enabled = FALSE]}]
    BY <1>6 DEF UserDisable
  <2>1. PICK u \in inbounds[k].users :
               inbounds' = [inbounds EXCEPT ![k].users = (@ \ {u}) \cup {[u EXCEPT !.enabled = FALSE]}]
    BY <2>0
  <2>2. Managing
    BY <1>6 DEF UserDisable
  <2> DEFINE cur == inbounds[k]
             in == [cur EXCEPT !.users = (@ \ {u}) \cup {[u EXCEPT !.enabled = FALSE]}]
  <2>3. inbounds' = [inbounds EXCEPT ![k] = in]
    BY <2>1
  <2>4. /\ IsSound(in, calls + 1) /\ in.port = cur.port /\ in.listen = cur.listen
        /\ TakesUsers(cur) => Credentials(in) = Credentials(cur)
    BY <1>0, UserDisabledIsSound
  <2> HIDE DEF in
  <2>5. IsUnixInbound(in) => Credentials(in) \subseteq Credentials(cur) \cup {Generated("user", calls)}
    <3> SUFFICES ASSUME IsUnixInbound(in)
                 PROVE  Credentials(in) \subseteq Credentials(cur) \cup {Generated("user", calls)}
      OBVIOUS
    <3>1. IsUnixInbound(cur) /\ HasWords(cur)
      BY <1>0, <2>4 DEF IsUnixInbound, IsSound
    <3>2. TakesUsers(cur)
      BY <3>1 DEF HasWords, IsUnixInbound, TakesUsers
    <3>3. QED
      BY <2>4, <3>2
  <2>6. QED
    BY <1>1, <2>2, <2>3, <2>4, <2>5, OneChanged
<1>7. CASE Subscribe \/ Step \/ Cancel
  <2>1. UNCHANGED <<inbounds, calls>>
    BY <1>7 DEF Subscribe, Step, Cancel, StartXray, StartFails, StartCancelled, ProbeThrough, EndBatch, Test, given
  <2>2. QED
    BY <2>1 DEF SharesInv
<1>8. QED
  BY <1>2, <1>3, <1>4, <1>5, <1>6, <1>7 DEF Next

(* Every link this box hands out reaches the inbound it is of, and no other *)
(* (sharelink.go, config.go).                                              *)
THEOREM SharedLinksReach == Spec => []ShareReaches
<1>1. SharesInv /\ InboundsInv /\ [Next]_probeVars => SharesInv'
  <2> SUFFICES ASSUME SharesInv, InboundsInv, [Next]_probeVars PROVE SharesInv'
    OBVIOUS
  <2>1. CASE Next
    BY <2>1, SharesStep
  <2>2. CASE UNCHANGED probeVars
    BY <2>2 DEF probeVars, SharesInv
  <2>3. QED
    BY <2>1, <2>2
<1>2. QED
  BY <1>1, SharesInit, SharesReach, ProbeInvariance, PTL DEF Spec
=============================================================================
