---------------------------- MODULE AutoStrategy ----------------------------
(***************************************************************************)
(* daemon/nodehistory.go and daemon/autostrategy.go: one auto pool, its    *)
(* health as the polls record it, and the classifier that runs it stable   *)
(* or agile.  A poll comes every tick, or is missed; what polls find is    *)
(* any.  The other pools matter only in that one of them may have a live   *)
(* node: without, a poll that finds every node dead is the uplink's.       *)
(***************************************************************************)
EXTENDS Integers, Sequences, FiniteSets

CONSTANTS Members,      \* the members
          Finds,        \* what a poll may know of the members loaded, which are its domain
          Picks,        \* what the daemon may pick of them; {} when it has no ranking
          Kept,         \* nodeHistoryWindow,
          Window,       \* AutoTuning.WindowMin and
          Calm,         \* AutoTuning.CalmMin, in ticks
          Flips,        \* AutoTuning.Flips,
          PickLoss,     \* AutoTuning.PickLoss and
          FlappingPct,  \* AutoTuning.FlappingPct
          MinFlapping   \* autoMinFlapping

ASSUME AutoAssumption ==
  /\ Picks \subseteq SUBSET Members
  /\ Finds \subseteq UNION {[in -> {"unknown", "alive", "dead"}] : in \in SUBSET Members}
  /\ Kept \in Nat /\ Window \in 1 .. Kept /\ Calm \in Nat \ {0}
  /\ Flips \in Nat /\ PickLoss \in Nat /\ FlappingPct \in 0 .. 100 /\ MinFlapping \in Nat

VARIABLES rounds,  \* poolHistory.rounds, oldest first: age, uplinkDown, ranked, nodes
          agile,   \* autoState.agile
          calm,    \* ticks since autoState.lastFlappy, up to Calm
          odd      \* history: the parity of the polls that were answered

autoVars == <<rounds, agile, calm, odd>>

States == {"unknown", "alive", "dead", "parked", "uplink"}
NoSample == [state |-> "none", picked |-> FALSE]
Samples == {NoSample} \cup [state : States, picked : BOOLEAN]

-----------------------------------------------------------------------------
\* poolStats, as far as the classifier uses it.

\* The rounds in which every picked member was dead.
Lost(r) == LET picked == {k \in Members : r.nodes[k].picked}
           IN  /\ r.ranked /\ ~r.uplinkDown /\ picked # {}
               /\ \A k \in picked : r.nodes[k].state = "dead"

\* How often the whole pick was lost at once.
Losses(rs) == Cardinality({i \in DOMAIN rs : Lost(rs[i]) /\ (i = 1 \/ ~Lost(rs[i - 1]))})

\* Mutant of Known: what the uplink hid counts as a state of its own.
KnownAtAll(rs, k) == {i \in DOMAIN rs : rs[i].nodes[k].state \in {"alive", "dead", "uplink"}}

\* The rounds that know a member alive or dead.
Known(rs, k) == {i \in DOMAIN rs : rs[i].nodes[k].state \in {"alive", "dead"}}

\* How often it went from one to the other.
FlipsOf(rs, k) ==
  LET known == Known(rs, k)
      Follows(i, j) == i < j /\ \A l \in known : ~(i < l /\ l < j)
  IN  Cardinality({j \in known : \E i \in known :
                     Follows(i, j) /\ rs[i].nodes[k].state # rs[j].nodes[k].state})

\* The rounds of the last ticks, without the older ones before them: trim, snapshot.
Recent(rs, ticks) ==
  LET old == {i \in DOMAIN rs : \A j \in 1 .. i : rs[j].age > ticks}
  IN  SubSeq(rs, Cardinality(old) + 1, Len(rs))

\* flapping.
Flapping(rs) ==
  LET observed == {k \in Members : Known(rs, k) # {}}
      flappers == {k \in observed : FlipsOf(rs, k) >= Flips}
  IN  \/ PickLoss > 0 /\ Losses(rs) >= PickLoss
      \/ /\ Cardinality(flappers) >= MinFlapping
         /\ Cardinality(flappers) * 100 >= FlappingPct * Cardinality(observed)

-----------------------------------------------------------------------------
AutoInit == rounds = <<>> /\ agile = FALSE /\ calm = Calm /\ odd = FALSE

\* A tick later; beyond Kept all ages are alike.
Aged(rs) == [i \in DOMAIN rs |-> [rs[i] EXCEPT !.age = IF @ > Kept THEN @ ELSE @ + 1]]

\* nodeHistory.record: the round of this poll.  found is what it knows of the members
\* loaded; a member that was here before and is parked now stays.
Round(found, elsewhere, pick, parked) ==
  LET in == DOMAIN found
      sampled == \E k \in in : found[k] # "unknown"
      alive == elsewhere \/ \E k \in in : found[k] = "alive"
      down == sampled /\ ~alive
      before == {k \in Members : \E i \in DOMAIN rounds : rounds[i].nodes[k].state # "none"}
      Sample(k) ==
        CASE k \in in -> [state |-> IF found[k] = "dead" /\ down THEN "uplink" ELSE found[k], picked |-> k \in pick]
          [] k \notin in /\ k \in before \cap parked -> [state |-> "parked", picked |-> FALSE]
          [] OTHER -> NoSample
  IN  [age |-> 0, uplinkDown |-> down, ranked |-> pick # {}, nodes |-> [k \in Members |-> Sample(k)]]

\* Mutant of Evaluate: while it is agile the pool is never calm.
EvaluateNeverCalm(rs) ==
  LET flappy == Flapping(Recent(rs, Window))
      since == IF flappy \/ agile THEN 0 ELSE IF calm < Calm THEN calm + 1 ELSE Calm
  IN  /\ agile' = (flappy \/ (agile /\ since < Calm))
      /\ calm' = since

\* autoClassifier.evaluate: agile at once, stable again when calm for long enough.
Evaluate(rs) ==
  LET flappy == Flapping(Recent(rs, Window))
      since == IF flappy THEN 0 ELSE IF calm < Calm THEN calm + 1 ELSE Calm
  IN  /\ agile' = (flappy \/ (agile /\ since < Calm))
      /\ calm' = since

\* A poll: PollNodeHealth records it, then judges the pool.
Poll(found, elsewhere, pick, parked) ==
  LET now == Recent(Append(Aged(rounds), Round(found, elsewhere, pick, parked)), Kept)
  IN  /\ rounds' = now
      /\ Evaluate(now)
      /\ odd' = ~odd

\* The poll gets no answer: nothing is recorded or judged.
Misses == /\ rounds' = Aged(rounds)
          /\ calm' = IF calm < Calm THEN calm + 1 ELSE Calm
          /\ UNCHANGED <<agile, odd>>

\* What a poll may find: parked members are not loaded.
SomePoll ==
  \E found \in Finds, elsewhere \in BOOLEAN, pick \in Picks :
    /\ pick \subseteq DOMAIN found
    /\ Poll(found, elsewhere, pick, Members \ DOMAIN found)
AutoNext == SomePoll \/ Misses

\* Polls get an answer again and again.
AutoFairness == []<>odd /\ []<>~odd
AutoSpec == AutoInit /\ [][AutoNext]_autoVars /\ AutoFairness

-----------------------------------------------------------------------------
Rounds == [age : 0 .. Kept + 1, uplinkDown : BOOLEAN, ranked : BOOLEAN, nodes : [Members -> Samples]]
AutoTypeOK ==
  /\ rounds \in Seq(Rounds)
  /\ agile \in BOOLEAN /\ odd \in BOOLEAN /\ calm \in 0 .. Calm

\* An outage of this box's uplink is not flapping: a member flips as often as if the
\* rounds it hid had found nothing (nodehistory.go:15-17, the stats leave it out).
Hidden(rs) ==
  [i \in DOMAIN rs |-> IF rs[i].uplinkDown THEN [rs[i] EXCEPT !.nodes = [k \in Members |-> NoSample]] ELSE rs[i]]
OutageIsNoFlip == \A k \in Members : FlipsOf(rounds, k) = FlipsOf(Hidden(rounds), k)

\* A pool whose members stop dying is stable again, for good.
AllLive == \A i \in DOMAIN rounds : \A k \in Members : rounds[i].age = 0 => rounds[i].nodes[k].state # "dead"
CalmsDown == (<>[]AllLive) => <>[](~agile)
=============================================================================
