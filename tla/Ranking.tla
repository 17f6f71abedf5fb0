------------------------------- MODULE Ranking -------------------------------
(***************************************************************************)
(* One pool and what ranks its members: the health poll (nodepark.go,      *)
(* PollNodeHealth, without parking, which is the module Parking), the chain*)
(* prober (chainprobe.go) and the reconciles of RPCs.                      *)
(*                                                                         *)
(* The poller and the prober are a goroutine each.  They take the loaded   *)
(* slot under Supervisor.mu, work without it, and reconcile when the scores*)
(* now pick differently.  A reconcile may fail, and is not tried again by  *)
(* whoever asked for it.                                                   *)
(***************************************************************************)
EXTENDS NodePick

CONSTANTS Keys,         \* members, numbered in the order of their keys
          Masters,      \* the enabled masters of the pool
          Resolutions,  \* what the pool may resolve to: members, strategy, pins
          Healths,      \* what a poll may find: key -> status
          Rates,        \* the success rates told apart, in percent
          Delays,       \* the latencies told apart, in ms
          ChainDelay,   \* master -> key -> the latency a chain probe measures
          Every,        \* chainProbeEvery, and
          TTL,          \* chainVerdictTTL, in ticks
          Window,       \* chainWindow
          PairMax       \* chainProbeMax

ASSUME RankingAssumption ==
  /\ Keys \subseteq Nat /\ Every \in Nat \ {0} /\ TTL \in Nat \ {0} /\ Window \in Nat /\ PairMax \in Nat
  /\ Rates \subseteq 0 .. 100 /\ Delays \subseteq Nat \ {0} /\ ChainDelay \in [Masters -> [Keys -> Nat \ {0}]]
  /\ \A r \in Resolutions : r.members \subseteq Keys /\ IsFiniteSet(r.members)
  /\ Healths \subseteq [Keys -> [sampled : BOOLEAN, alive : BOOLEAN, clean : BOOLEAN, delay : Nat]]

VARIABLES
  resolved,    \* what the store makes of the pool
  loaded,      \* s.loadedSlots: the slot in the config xray runs
  scores,      \* nodePicker.scores
  chain,       \* chainScores.m: master -> key -> score
  uplinkDown,  \* the last poll saw every node dead
  poller,      \* the poll under way: where it is, the slot it took
  prober       \* the round under way: where it is, the pairs it probes

vars == <<resolved, loaded, scores, chain, uplinkDown, poller, prober>>

\* chainScore.ok halves its distance to 1 on a pass and to 0 on a failure, so
\* all that matters of it is: 1, in [1/2, 1), or below.
Unprobed == [ok |-> "none", age |-> 0]
ChainScores == {Unprobed} \cup [ok : {"full", "half", "low"}, age : 0 .. TTL]

\* chainScore.verdict.
Verdict(m, k, c) == CASE c.ok = "full" -> [class |-> Good, cost |-> ChainDelay[m][k]]
                      [] c.ok = "half" -> [class |-> Good, cost |-> 2 * ChainDelay[m][k]]
                      [] OTHER -> [class |-> Bad, cost |-> 0]

\* chainScores.view, of the members of a slot.
Views(ch, members) ==
  [m \in Masters |->
     [k \in Keys |-> LET c == ch[m][k]
                     IN  IF k \in members /\ c.ok # "none" /\ c.age < TTL THEN Verdict(m, k, c) ELSE NoVerdict]]

Slot(r) == [members |-> r.members, strategy |-> r.strategy, pinned |-> r.pinned, pick |-> NoPick, own |-> <<>>]

SamePick(p, q) == p.keys = q.keys /\ ActiveCount(p) = ActiveCount(q)

\* Mutant of Repicked: the scores are compared with the last ones, not with what is
\* loaded.
RepickedSinceLast(sl, sc, ch) ==
  PickSlot(sl, sc, sl, Views(ch, sl.members)) # PickSlot(sl, scores, sl, Views(chain, sl.members))

\* repicked: the scores pick differently for slot sl.
Differs(now, sl) ==
  \/ ~SamePick(now.pick, sl.pick)
  \/ \E m \in DOMAIN now.own \cup DOMAIN sl.own : ~SamePick(PickOf(now, m), PickOf(sl, m))
Repicked(sl, sc, ch) == Differs(PickSlot(sl, sc, sl, Views(ch, sl.members)), sl)

\* What a reconcile loads.
Reconciled == PickSlot(Slot(resolved), scores, loaded, Views(chain, resolved.members))
NoHealth == <<>>
Idle == [at |-> "idle", slot |-> Slot([members |-> {}, strategy |-> "stable", pinned |-> <<>>]),
         health |-> NoHealth]
NoRound == [at |-> "idle", pairs |-> {}]

Init ==
  /\ resolved \in Resolutions
  /\ loaded = Slot(resolved)
  /\ scores = [k \in Keys |-> NoScore]
  /\ chain = [m \in Masters |-> [k \in Keys |-> Unprobed]]
  /\ uplinkDown = FALSE
  /\ poller = Idle /\ prober = NoRound

-----------------------------------------------------------------------------
\* What happens around: a reconcile asked for by an RPC, ten minutes.
RpcReconcile == /\ loaded' = Reconciled
                /\ UNCHANGED <<resolved, scores, chain, uplinkDown, poller, prober>>

Tick ==
  /\ chain' = [m \in Masters |-> [k \in Keys |->
                 [chain[m][k] EXCEPT !.age = IF chain[m][k].ok = "none" THEN 0 ELSE Least2(@ + 1, TTL)]]]
  /\ UNCHANGED <<resolved, loaded, scores, uplinkDown, poller, prober>>

-----------------------------------------------------------------------------
\* A poll.

\* An average moves towards what is measured, but not all the way.
Toward(old, new, levels) == {x \in levels : (old <= x /\ x <= new) \/ (new <= x /\ x <= old)}

\* One status folded into one score.
Folded(sc, st) ==
  LET rate == CASE ~st.alive -> 0 [] st.alive /\ st.clean -> 100 [] OTHER -> 50
      timed == st.alive /\ st.delay > 0
  IN  IF ~st.sampled THEN {[sc EXCEPT !.sampled = FALSE]}
      ELSE {[known |-> TRUE, sampled |-> TRUE, alive |-> st.alive, clean |-> st.clean,
             ok |-> ok, rtt |-> rtt, last |-> IF timed THEN st.delay ELSE sc.last] :
              ok \in IF sc.known THEN Toward(sc.ok, rate, Rates) ELSE {rate},
              rtt \in CASE ~timed -> {sc.rtt}
                        [] timed /\ sc.rtt = 0 -> {st.delay}
                        [] OTHER -> Toward(sc.rtt, st.delay, Delays)}

\* A poll with nothing alive is the uplink, not the nodes.
SeesLife(members, h) ==
  (\E k \in members : h[k].sampled) => \E k \in members : h[k].sampled /\ h[k].alive

\* nodePicker.observe.
Observed(members, h) ==
  LET loadedOnly == [k \in Keys |-> IF k \in members THEN scores[k] ELSE NoScore]
      may == [k \in Keys |-> IF k \in members THEN Folded(scores[k], h[k]) ELSE {NoScore}]
  IN  IF SeesLife(members, h) THEN {f \in [Keys -> UNION Range(may)] : \A k \in Keys : f[k] \in may[k]}
      ELSE {loadedOnly}

PollStart == /\ poller.at \in {"idle", "applied"}
             /\ poller' = [at |-> "fetch", slot |-> loaded, health |-> NoHealth]
             /\ UNCHANGED <<resolved, loaded, scores, chain, uplinkDown, prober>>

\* The metrics endpoint answers, or does not.
PollAnswers(h) == /\ poller.at = "fetch"
                  /\ poller' = [poller EXCEPT !.at = "seen", !.health = h]
                  /\ UNCHANGED <<resolved, loaded, scores, chain, uplinkDown, prober>>

PollFails == /\ poller.at = "fetch"
             /\ poller' = Idle
             /\ UNCHANGED <<resolved, loaded, scores, chain, uplinkDown, prober>>

NoChains == [m \in Masters |-> [k \in Keys |-> Unprobed]]

\* The poll's result is folded into the scores, and judged before the uplink's
\* return clears the chain verdicts.
PollObserve ==
  /\ poller.at = "seen"
  /\ LET sl == poller.slot
         h == poller.health
         life == SeesLife(sl.members, h)
     IN  /\ scores' \in Observed(sl.members, h)
         /\ uplinkDown' = ~life
         /\ chain' = IF uplinkDown /\ life THEN NoChains ELSE chain
         /\ poller' = IF life /\ Repicked(sl, scores', chain) THEN [Idle EXCEPT !.at = "apply"] ELSE Idle
  /\ UNCHANGED <<resolved, loaded, prober>>

PollApplies == /\ poller.at = "apply"
               /\ loaded' = Reconciled
               /\ poller' = [Idle EXCEPT !.at = "applied"]
               /\ UNCHANGED <<resolved, scores, chain, uplinkDown, prober>>

PollApplyFails == /\ poller.at = "apply"
                  /\ poller' = Idle
                  /\ UNCHANGED <<resolved, loaded, scores, chain, uplinkDown, prober>>
-----------------------------------------------------------------------------
\* A round of the prober.

\* duePairs: what a master is to be probed through, least recently probed first.
\* Its pick, then the pool's order until Window members not known to fail it are
\* covered; of those the ones that are due; and, when there are any, its best
\* proven member as the control.
DuePairs(sl, ch) ==
  LET Due(c) == c.ok = "none" \/ c.age >= Every
      pairs(m) ==
        LET view == Views(ch, sl.members)[m]
            hopeful(s) == Len(SelectSeq(s, LAMBDA k : view[k].class # Bad))
            Add(s, k) == IF k \in Range(s) \/ hopeful(s) >= Window THEN s ELSE Append(s, k)
            picked == SelectSeq(PickOf(sl, m).keys, LAMBDA k : Tier(scores[k]) # Dead)
            cands == FoldLeft(Add, picked, PoolOrder(sl.members, scores))
            mine == {k \in Range(cands) : Due(ch[m][k])}
            proven == {k \in sl.members : view[k].class = Good}
            Cheapest(k) == <<view[k].cost, k>>
            control == IF proven = {} THEN {} ELSE {Ordered(proven, [k \in proven |-> Cheapest(k)])[1]}
        IN  IF mine = {} THEN {} ELSE {<<m, k>> : k \in mine \cup control}
      Oldest(p) == <<IF ch[p[1]][p[2]].ok = "none" THEN -TTL - 1 ELSE -ch[p[1]][p[2]].age, p[1], p[2]>>
      due == UNION {pairs(m) : m \in Masters}
      all == Ordered(due, [p \in due |-> Oldest(p)])
  IN  IF sl.strategy = "manual" THEN {} ELSE {all[i] : i \in 1 .. Least2(PairMax, Len(all))}

\* moved: this box's addresses changed since the last round (networkChanged).
ProbeStart(moved) ==
  /\ prober.at = "idle"
  /\ LET known == IF moved THEN NoChains ELSE chain
         kept == [m \in Masters |-> [k \in Keys |-> IF k \in loaded.members THEN known[m][k] ELSE Unprobed]]
         pairs == DuePairs(loaded, kept)
     IN  /\ chain' = kept
         /\ prober' = IF pairs = {} THEN NoRound ELSE [at |-> "probing", pairs |-> pairs]
  /\ UNCHANGED <<resolved, loaded, scores, uplinkDown, poller>>

\* The round cannot be run, or the daemon's context ends.
ProbeAborts == /\ prober.at = "probing"
               /\ prober' = NoRound
               /\ UNCHANGED <<resolved, loaded, scores, chain, uplinkDown, poller>>

\* chainScores.record.
Recorded(c, pass) ==
  [ok |-> CASE pass /\ c.ok \in {"none", "full"} -> "full"
            [] pass /\ c.ok \in {"half", "low"} -> "half"
            [] ~pass /\ c.ok = "full" -> "half"
            [] OTHER -> "low",
   age |-> 0]

\* A master that none of its pairs carried is down itself: no node is blamed.
Blamed(m, pass) == \E p \in pass : p[1] = m

\* The results, pass being the pairs that carried, are recorded on whatever the
\* scores are by now.
ProbeEnds(pass) ==
  /\ prober.at = "probing" /\ pass \subseteq prober.pairs
  /\ chain' = [m \in Masters |-> [k \in Keys |->
                 IF <<m, k>> \in prober.pairs /\ Blamed(m, pass)
                 THEN Recorded(chain[m][k], <<m, k>> \in pass) ELSE chain[m][k]]]
  /\ prober' = IF Repicked(loaded, scores, chain') THEN [at |-> "apply", pairs |-> {}] ELSE NoRound
  /\ UNCHANGED <<resolved, loaded, scores, uplinkDown, poller>>

ProbeApplies == /\ prober.at = "apply"
                /\ loaded' = Reconciled
                /\ prober' = NoRound
                /\ UNCHANGED <<resolved, scores, chain, uplinkDown, poller>>

ProbeApplyFails == /\ prober.at = "apply"
                   /\ prober' = NoRound
                   /\ UNCHANGED <<resolved, loaded, scores, chain, uplinkDown, poller>>

-----------------------------------------------------------------------------
Poll ==
  PollStart \/ (\E h \in Healths : PollAnswers(h)) \/ PollFails \/ PollObserve \/ PollApplies \/ PollApplyFails
Round ==
  \/ (\E moved \in BOOLEAN : ProbeStart(moved)) \/ ProbeAborts \/ ProbeApplies \/ ProbeApplyFails
  \/ \E pass \in SUBSET (Masters \X Keys) : ProbeEnds(pass)
RankingNext == RpcReconcile \/ Tick \/ Poll \/ Round

\* The poller's ticker goes on and what it waits for returns; the metrics answer,
\* and some node is seen alive, again and again; a reconcile that is asked for again
\* and again succeeds.  The first three are WF and SF of the actions that leave
\* these states, as statements about states.
Living == poller.at = "seen" /\ SeesLife(poller.slot.members, poller.health)
RankingFairness ==
  /\ WF_vars(PollStart)
  /\ []<>(poller.at \notin {"seen", "apply"})
  /\ []<>Living
  /\ []<>(poller.at = "apply") => []<>(poller.at = "applied")
RankingSpec == Init /\ [][RankingNext]_vars /\ RankingFairness

-----------------------------------------------------------------------------
Scores ==
  [known : BOOLEAN, sampled : BOOLEAN, alive : BOOLEAN, clean : BOOLEAN, ok : Rates \cup {0},
   rtt : Delays \cup {0}, last : Delays \cup {0}]
IsPick(p, members) ==
  /\ p.active \in 0 .. Cardinality(members)
  /\ PickedKeys(p) \subseteq members
  /\ \A i, j \in DOMAIN p.keys : p.keys[i] = p.keys[j] => i = j
IsSlot(sl) == IsPick(sl.pick, sl.members) /\ \A m \in DOMAIN sl.own : m \in Masters /\ IsPick(sl.own[m], sl.members)

\* The types of the variables; a pick names members of its slot, each once.
RankingTypeOK ==
  /\ resolved \in Resolutions
  /\ IsSlot(loaded) /\ IsSlot(poller.slot)
  /\ scores \in [Keys -> Scores]
  /\ chain \in [Masters -> [Keys -> ChainScores]]
  /\ uplinkDown \in BOOLEAN
  /\ poller.at \in {"idle", "fetch", "seen", "apply", "applied"} /\ poller.health \in Healths \cup {NoHealth}
  /\ prober.at \in {"idle", "probing", "apply"} /\ prober.pairs \subseteq Masters \X Keys

\* A member that is known not to carry a master is not used for it while one that
\* may is left: of members that answer, one that fails the master's chain is active
\* only when all of them do, and a dead one only when every other is active too
\* (nodepick.go: pickStableLocked, pickAgile).
UsesWhatCarries ==
  LET views == Views(chain', loaded'.members)
      live(k) == scores'[k].sampled /\ scores'[k].alive
      fit(m, k) == live(k) /\ views[m][k].class # Bad
  IN  loaded'.strategy # "manual" =>
        \A m \in Masters : \A k \in ActiveKeys(PickOf(loaded', m)) :
          /\ live(k) /\ views[m][k].class = Bad => \A l \in loaded'.members : ~fit(m, l)
          /\ Tier(scores'[k]) = Dead => \A l \in loaded'.members : fit(m, l) => l \in ActiveKeys(PickOf(loaded', m))
ReconcileUsesWhatCarries == [][loaded' # loaded => UsesWhatCarries]_vars

\* When what is known stops changing, the pick comes to rest on it, whatever
\* reconciles failed and whatever the poll and the prober did to each other:
\* PollNodeHealth compares with what is loaded, not with the last poll.
Settled == ~Differs(Reconciled, loaded)
Settles == (<>[][UNCHANGED <<scores, chain, resolved>>]_vars) => <>[]Settled
=============================================================================
