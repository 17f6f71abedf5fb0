---------------------------- MODULE RankingProofs ----------------------------
(***************************************************************************)
(* What a reconcile makes of the scores and the chain verdicts, for any    *)
(* pool, any scores, and at most two active members.                       *)
(*                                                                         *)
(* Ordered sorts (OrderedSorts): rows of numbers are in a strict order, so *)
(* each thing has a rank.  The best members, ranked again with another     *)
(* hysteresis, are still those that no other member is ahead of            *)
(* (TopIsTop); a member that may carry ranks ahead of those that failed    *)
(* the chain, and they rank ahead of the dead (FitIsAhead); so what is     *)
(* active uses what carries (StablePickUses, AgilePickUses).  The machine  *)
(* needs no more than that its scores are numbers (RankInv).               *)
(***************************************************************************)
EXTENDS Ranking, Lemmas, SequenceTheorems

(* Rows of numbers, and what is sorted by them.                             *)
Rows(w) == [1 .. w -> Int]

LEMMA BeforeIsOrder ==
  ASSUME NEW w \in Nat, NEW a \in Rows(w), NEW b \in Rows(w), NEW c \in Rows(w)
  PROVE  /\ ~Before(a, a)
         /\ Before(a, b) /\ Before(b, c) => Before(a, c)
         /\ a # b => Before(a, b) \/ Before(b, a)
<1> USE DEF Rows
<1>1. ~Before(a, a)
  BY DEF Before
<1>2. ASSUME Before(a, b), Before(b, c)
      PROVE  Before(a, c)
  <2>1. PICK i \in 1 .. w : (\A j \in 1 .. i - 1 : a[j] = b[j]) /\ a[i] < b[i]
    BY <1>2 DEF Before
  <2>2. PICK l \in 1 .. w : (\A j \in 1 .. l - 1 : b[j] = c[j]) /\ b[l] < c[l]
    BY <1>2 DEF Before
  <2>3. CASE i < l
    <3>1. (\A j \in 1 .. i - 1 : a[j] = c[j]) /\ a[i] < c[i]
      BY <2>1, <2>2, <2>3
    <3>2. QED
      BY <3>1 DEF Before
  <2>4. CASE l < i
    <3>1. (\A j \in 1 .. l - 1 : a[j] = c[j]) /\ a[l] < c[l]
      BY <2>1, <2>2, <2>4
    <3>2. QED
      BY <3>1 DEF Before
  <2>5. CASE i = l
    <3>1. (\A j \in 1 .. i - 1 : a[j] = c[j]) /\ a[i] < c[i]
      BY <2>1, <2>2, <2>5
    <3>2. QED
      BY <3>1 DEF Before
  <2>6. QED
    BY <2>3, <2>4, <2>5
<1>3. ASSUME a # b
      PROVE  Before(a, b) \/ Before(b, a)
  <2> DEFINE apart == {i \in 1 .. w : a[i] # b[i]}
  <2>0. apart # {}
    <3>1. (\A i \in 1 .. w : a[i] = b[i]) => a = b
      OBVIOUS
    <3>2. QED
      BY <1>3, <3>1
  <2>1. apart \in SUBSET Nat
    OBVIOUS
  <2>2. PICK i \in apart : \A j \in apart : i <= j
    <3> HIDE DEF apart
    <3>1. QED
      BY <2>0, <2>1, LeastNumber
  <2>3. \A j \in 1 .. i - 1 : a[j] = b[j]
    BY <2>2
  <2>4. CASE a[i] < b[i]
    BY <2>3, <2>4 DEF Before
  <2>5. CASE b[i] < a[i]
    BY <2>3, <2>5 DEF Before
  <2>6. QED
    BY <2>4, <2>5
<1>4. QED
  BY <1>1, <1>2, <1>3

(* s is all of S, each once, in the order of its rows. *)
Sorts(s, S, row) ==
  /\ s \in [1 .. Cardinality(S) -> S]
  /\ \A i, j \in 1 .. Cardinality(S) : i < j => Before(row[s[i]], row[s[j]])
  /\ \A i, j \in 1 .. Cardinality(S) : s[i] = s[j] => i = j
  /\ \A e \in S : \E i \in 1 .. Cardinality(S) : s[i] = e
HasRows(S, row, w) ==
  /\ \A e \in S : row[e] \in Rows(w)
  /\ \A e, f \in S : row[e] = row[f] => e = f

LEMMA OrderedSorts ==
  ASSUME NEW S, IsFiniteSet(S), NEW w \in Nat, NEW row, HasRows(S, row, w)
  PROVE  Sorts(Ordered(S, row), S, row)
<1> DEFINE N == Cardinality(S)
           Below(e) == {f \in S : Before(row[f], row[e])}
           rank == [e \in S |-> Cardinality(Below(e)) + 1]
           Rises(s) == \A i, j \in DOMAIN s : i < j => Before(row[s[i]], row[s[j]])
<1>1. N \in Nat /\ IsFiniteSet(1 .. N) /\ Cardinality(1 .. N) = N
  BY FS_CardinalityType, FS_Interval
<1>2. /\ \A e \in S : ~Before(row[e], row[e])
      /\ \A e, f, g \in S : Before(row[e], row[f]) /\ Before(row[f], row[g]) => Before(row[e], row[g])
      /\ \A e, f \in S : e # f => Before(row[e], row[f]) \/ Before(row[f], row[e])
  <2>1. \A a, b, c \in Rows(w) : /\ ~Before(a, a)
                                 /\ Before(a, b) /\ Before(b, c) => Before(a, c)
                                 /\ a # b => Before(a, b) \/ Before(b, a)
    BY BeforeIsOrder
  <2>2. QED
    BY <2>1 DEF HasRows
<1>3. \A e \in S : Cardinality(Below(e)) \in 0 .. N - 1
  <2> SUFFICES ASSUME NEW e \in S
               PROVE  Cardinality(Below(e)) \in 0 .. N - 1
    OBVIOUS
  <2>1. Cardinality(S \ {e}) = N - 1 /\ IsFiniteSet(S \ {e})
    BY FS_RemoveElement
  <2>2. Below(e) \subseteq S \ {e}
    BY <1>2
  <2> HIDE DEF Below
  <2>3. QED
    BY <1>1, <2>1, <2>2, FS_Subset, FS_CardinalityType
<1>4. \A e, f \in S : Before(row[e], row[f]) => rank[e] < rank[f]
  <2> SUFFICES ASSUME NEW e \in S, NEW f \in S, Before(row[e], row[f])
               PROVE  Cardinality(Below(e)) < Cardinality(Below(f))
    <3>1. \A e \in S : rank[e] = Cardinality(Below(e)) + 1
      OBVIOUS
    <3> HIDE DEF rank, Below
    <3>2. QED
      BY <1>1, <1>3, <3>1
  <2>1. Below(e) \subseteq Below(f) /\ e \in Below(f) /\ e \notin Below(e)
    BY <1>2
  <2>2. IsFiniteSet(Below(f))
    BY FS_Subset
  <2> HIDE DEF Below
  <2>3. Cardinality(Below(f) \ {e}) = Cardinality(Below(f)) - 1 /\ IsFiniteSet(Below(f) \ {e})
    BY <2>1, <2>2, FS_RemoveElement
  <2>4. Cardinality(Below(e)) <= Cardinality(Below(f) \ {e})
    BY <2>1, <2>3, FS_Subset
  <2>5. QED
    BY <1>3, <2>3, <2>4
<1>5. rank \in Injection(S, 1 .. N)
  <2>1. rank \in [S -> 1 .. N]
    BY <1>1, <1>3
  <2> HIDE DEF rank
  <2>2. \A e, f \in S : rank[e] = rank[f] => e = f
    BY <1>2, <1>4, <2>1
  <2>3. QED
    BY <2>1, <2>2 DEF Injection, IsInjective
<1>6. \A n \in 1 .. N : \E e \in S : rank[e] = n
  <2> HIDE DEF rank
  <2>1. rank \in Surjection(S, 1 .. N)
    BY <1>1, <1>5, FS_Injection
  <2>2. QED
    BY <2>1 DEF Surjection
<1> HIDE DEF rank, Below
<1>7. \E s \in [1 .. N -> S] : Rises(s)
  <2> DEFINE s == [n \in 1 .. N |-> CHOOSE e \in S : rank[e] = n]
  <2>1. \A n \in 1 .. N : s[n] \in S /\ rank[s[n]] = n
    BY <1>6
  <2>2. s \in [1 .. N -> S] /\ DOMAIN s = 1 .. N
    BY <2>1
  <2> HIDE DEF s
  <2>3. ASSUME NEW i \in 1 .. N, NEW j \in 1 .. N, i < j
        PROVE  Before(row[s[i]], row[s[j]])
    BY <1>1, <1>2, <1>4, <2>1, <2>3
  <2>4. QED
    BY <2>2, <2>3
<1>8. PICK s : s = Ordered(S, row)
  OBVIOUS
<1>9. s \in [1 .. N -> S] /\ Rises(s)
  BY <1>7, <1>8 DEF Ordered
<1>10. \A i, j \in 1 .. N : i < j => Before(row[s[i]], row[s[j]])
  BY <1>9
<1>11. \A i, j \in 1 .. N : s[i] = s[j] => i = j
  <2> SUFFICES ASSUME NEW i \in 1 .. N, NEW j \in 1 .. N, s[i] = s[j], i # j
               PROVE  FALSE
    OBVIOUS
  <2>1. s[i] \in S /\ (Before(row[s[i]], row[s[j]]) \/ Before(row[s[j]], row[s[i]]))
    BY <1>1, <1>9, <1>10
  <2>2. QED
    BY <1>2, <2>1
<1>12. \A e \in S : \E i \in 1 .. N : s[i] = e
  <2>1. s \in Injection(1 .. N, S)
    BY <1>9, <1>11 DEF Injection, IsInjective
  <2>2. s \in Surjection(1 .. N, S)
    BY <1>1, <2>1, FS_Injection
  <2>3. QED
    BY <2>2 DEF Surjection
<1>13. QED
  BY <1>8, <1>9, <1>10, <1>11, <1>12 DEF Sorts

(* The rows of pickStableLocked. *)
Figures(sc) == sc.ok \in Int /\ sc.rtt \in Int /\ sc.last \in Int
Judged(v) == v.class \in {Good, Unproven, Bad} /\ v.cost \in Int
KnownOf(members, known, view) == \A k \in members : Figures(known[k]) /\ Judged(view[k])

LEMMA CostIsInt == ASSUME NEW sc, Figures(sc) PROVE Cost(sc) \in Int
<1> DEFINE ok == IF sc.ok < 5 THEN 5 ELSE sc.ok
           square == ok * ok
<1>1. ok \in Int /\ ok >= 5
  BY DEF Figures
<1>2. square \in Int /\ square > 0
  <2> HIDE DEF ok
  <2>1. QED
    BY <1>1
<1>3. sc.rtt * 10000 \in Int
  BY DEF Figures
<1>4. Cost(sc) = (sc.rtt * 10000) \div square
  BY DEF Cost
<1> HIDE DEF ok, square
<1>5. QED
  BY <1>2, <1>3, <1>4

BeginsEnds(r, first, last) == r \in Rows(8) /\ r[1] = first /\ r[8] = last

LEMMA EightInRow ==
  ASSUME NEW s \in Seq(Int), NEW t \in Seq(Int), NEW u \in Seq(Int), Len(s) = 2, Len(t) = 4, Len(u) = 2
  PROVE  BeginsEnds(s \o t \o u, s[1], u[2])
<1> DEFINE st == s \o t
<1>1. PICK r : r = st \o u
  OBVIOUS
<1>2. /\ st \in Seq(Int) /\ Len(st) = Len(s) + Len(t)
      /\ \A i \in 1 .. Len(s) + Len(t) : st[i] = IF i <= Len(s) THEN s[i] ELSE t[i - Len(s)]
  BY ConcatProperties, Zenon
<1> HIDE DEF st
<1>3. st[1] = s[1] /\ Len(st) = 6
  BY <1>2
<1>4. /\ r \in Seq(Int) /\ Len(r) = Len(st) + Len(u)
      /\ \A i \in 1 .. Len(st) + Len(u) : r[i] = IF i <= Len(st) THEN st[i] ELSE u[i - Len(st)]
  <2>1. /\ st \o u \in Seq(Int) /\ Len(st \o u) = Len(st) + Len(u)
        /\ \A i \in 1 .. Len(st) + Len(u) : (st \o u)[i] = IF i <= Len(st) THEN st[i] ELSE u[i - Len(st)]
    <3>1. st \in Seq(Int) /\ u \in Seq(Int)
      BY <1>2
    <3>2. QED
      BY <3>1, ConcatProperties, Zenon
  <2>2. QED
    BY <1>1, <2>1
<1>5. r[1] = s[1] /\ r[8] = u[2] /\ Len(r) = 8
  BY <1>3, <1>4
<1>6. QED
  <2>1. r \in Rows(8)
    BY <1>4, <1>5, LenProperties DEF Rows
  <2>2. BeginsEnds(r, s[1], u[2])
    BY <1>5, <2>1 DEF BeginsEnds
  <2>3. QED
    BY <1>1, <2>2 DEF st

LEMMA StableRow ==
  ASSUME NEW k \in Int, NEW known, NEW view, NEW sticky, Figures(known[k]), Judged(view[k]),
         NEW r, r = StableOrder(k, known, view, sticky)
  PROVE  r \in Rows(8) /\ r[1] = ChainTier(known[k], view[k]) /\ r[8] = k
<1> DEFINE tier == ChainTier(known[k], view[k])
           weight == Weigh(IF view[k].class = Good THEN view[k].cost ELSE Cost(known[k]), k \in sticky)
<1>1. tier \in Int /\ view[k].class \in Int
  BY DEF ChainTier, Tier, Judged, Healthy, Unknown, Suspect, ChainBad, Dead, Good, Unproven, Bad
<1>2. weight \in Int
  <2>1. Cost(known[k]) \in Int
    BY CostIsInt
  <2>2. (IF view[k].class = Good THEN view[k].cost ELSE Cost(known[k])) \in Int
    BY <2>1 DEF Judged
  <2>3. QED
    BY <2>2 DEF Weigh
<1>3. No(k \in sticky) \in Int /\ No(known[k].known) \in Int /\ No(known[k].rtt > 0) \in Int
  BY DEF No
<1>4. known[k].rtt \in Int /\ -known[k].ok \in Int
  BY DEF Figures
<1> DEFINE low == <<No(known[k].known), -known[k].ok, No(known[k].rtt > 0), known[k].rtt>>
           worth ==
             CASE tier = Healthy -> <<weight, 0, 0, 0>>
               [] tier = Unknown -> <<0, 0, 0, 0>>
               [] OTHER -> low
<1>0. r = <<tier, view[k].class>> \o worth \o <<No(k \in sticky), k>>
  BY DEF StableOrder
<1> HIDE DEF tier, weight
<1>5. \E c, d, e, f \in Int : worth = <<c, d, e, f>>
  <2>1. CASE tier = Healthy
    <3>1. worth = <<weight, 0, 0, 0>>
      BY <2>1 DEF Healthy, Unknown
    <3>2. QED
      BY <1>2, <3>1
  <2>2. CASE tier = Unknown
    <3>1. worth = <<0, 0, 0, 0>>
      BY <2>2 DEF Healthy, Unknown
    <3>2. QED
      BY <3>1
  <2>3. CASE tier # Healthy /\ tier # Unknown
    <3>1. worth = low
      <4> HIDE DEF low
      <4>1. QED
        BY <2>3
    <3>2. QED
      BY <1>3, <1>4, <3>1
  <2>4. QED
    BY <2>1, <2>2, <2>3
<1> HIDE DEF worth
<1>6. PICK c, d, e, f \in Int : worth = <<c, d, e, f>>
  BY <1>5
<1>7. PICK g : g = No(k \in sticky)
  OBVIOUS
<1>8. PICK b : b = view[k].class
  OBVIOUS
<1> HIDE DEF worth, low
<1>9. r = <<tier, b>> \o <<c, d, e, f>> \o <<g, k>>
  BY <1>0, <1>6, <1>7, <1>8
<1>10. b \in Int /\ g \in Int
  BY <1>1, <1>3, <1>7, <1>8
<1>11. PICK a : a = tier
  OBVIOUS
<1>12. a \in Int
  BY <1>1, <1>11
<1>13. PICK p, q, u : p = <<a, b>> /\ q = <<c, d, e, f>> /\ u = <<g, k>>
  OBVIOUS
<1>14. r = p \o q \o u
  BY <1>9, <1>11, <1>13
<1>15. /\ p \in Seq(Int) /\ q \in Seq(Int) /\ u \in Seq(Int)
       /\ Len(p) = 2 /\ Len(q) = 4 /\ Len(u) = 2 /\ p[1] = a /\ u[2] = k
  BY <1>10, <1>12, <1>13
<1>16. BeginsEnds(p \o q \o u, p[1], u[2])
  BY <1>15, EightInRow
<1>17. QED
  BY <1>11, <1>14, <1>15, <1>16 DEF tier, BeginsEnds

(* The rows of pickAgile and the order of the keys. *)
LEMMA InKeyOrderSorts ==
  ASSUME NEW S \in SUBSET Nat, IsFiniteSet(S)
  PROVE  Sorts(InKeyOrder(S), S, [k \in S |-> <<k>>])
<1> DEFINE row == [k \in S |-> <<k>>]
<1>1. HasRows(S, row, 1)
  <2>1. \A k \in S : row[k] \in Rows(1) /\ row[k][1] = k
    BY DEF Rows
  <2> HIDE DEF row
  <2>2. QED
    BY <2>1 DEF HasRows
<1> HIDE DEF row
<1>2. Sorts(Ordered(S, row), S, row)
  BY <1>1, OrderedSorts
<1>3. QED
  BY <1>2 DEF InKeyOrder, row

\* The first n of s are T, each once.
Lists(s, n, T) ==
  /\ \A i \in 1 .. n : s[i] \in T
  /\ \A i, j \in 1 .. n : s[i] = s[j] => i = j
  /\ \A e \in T : \E i \in 1 .. n : s[i] = e

LEMMA PrefixCount ==
  ASSUME NEW s, NEW n \in Nat, NEW T, Lists(s, n, T)
  PROVE  IsFiniteSet(T) /\ Cardinality(T) = n
<1> DEFINE f == [i \in 1 .. n |-> s[i]]
<1>1. f \in [1 .. n -> T] /\ (\A i, j \in 1 .. n : f[i] = f[j] => i = j) /\ \A e \in T : \E i \in 1 .. n : f[i] = e
  BY DEF Lists
<1> HIDE DEF f
<1>2. f \in Bijection(1 .. n, T)
  BY <1>1 DEF Bijection, Injection, Surjection, IsInjective
<1>3. ExistsBijection(1 .. n, T)
  BY <1>2 DEF ExistsBijection
<1>4. IsFiniteSet(1 .. n) /\ Cardinality(1 .. n) = n
  BY FS_Interval
<1>5. QED
  BY <1>3, <1>4, FS_Bijection

IsPickOf(p, T, rest) == p = [keys |-> InKeyOrder(T) \o rest, active |-> Cardinality(T)]

LEMMA ActiveAre ==
  ASSUME NEW T \in SUBSET Nat, IsFiniteSet(T), Cardinality(T) # 0, NEW X, NEW rest \in Seq(X), NEW p, IsPickOf(p, T, rest)
  PROVE  ActiveKeys(p) = T
<1> DEFINE Y == T \cup X
<1>0. PICK n : n = Cardinality(T) /\ n \in Nat \ {0}
  BY FS_CardinalityType
<1>1. PICK s : s = InKeyOrder(T)
  OBVIOUS
<1>2. s \in [1 .. n -> T] /\ \A e \in T : \E i \in 1 .. n : s[i] = e
  BY <1>0, <1>1, InKeyOrderSorts DEF Sorts
<1>3. s \in Seq(Y) /\ Len(s) = n
  <2>1. s \in [1 .. n -> Y]
    BY <1>2
  <2> HIDE DEF Y
  <2>2. QED
    BY <1>0, <2>1
<1>4. rest \in Seq(Y) /\ Len(rest) \in Nat
  <2>1. Len(rest) \in Nat /\ rest \in [1 .. Len(rest) -> X]
    BY LenProperties
  <2>2. rest \in [1 .. Len(rest) -> Y]
    BY <2>1
  <2> HIDE DEF Y
  <2>3. QED
    BY <2>1, <2>2
<1> HIDE DEF Y
<1>5. PICK keys : keys = s \o rest
  OBVIOUS
<1>6. /\ Len(keys) = Len(s) + Len(rest)
      /\ \A i \in 1 .. Len(s) + Len(rest) : keys[i] = IF i <= Len(s) THEN s[i] ELSE rest[i - Len(s)]
  <2>1. /\ Len(s \o rest) = Len(s) + Len(rest)
        /\ \A i \in 1 .. Len(s) + Len(rest) : (s \o rest)[i] = IF i <= Len(s) THEN s[i] ELSE rest[i - Len(s)]
    <3>1. s \in Seq(Y) /\ rest \in Seq(Y)
      BY <1>3, <1>4
    <3>2. QED
      BY <3>1, ConcatProperties, Zenon
  <2>2. QED
    BY <1>5, <2>1
<1>7. \A i \in 1 .. n : keys[i] = s[i]
  BY <1>0, <1>3, <1>4, <1>6
<1>8. p.keys = keys /\ p.active = n
  BY <1>0, <1>1, <1>5 DEF IsPickOf
<1>9. ActiveCount(p) = n
  BY <1>0, <1>3, <1>4, <1>6, <1>8 DEF ActiveCount, Least2
<1>10. ActiveKeys(p) = {keys[i] : i \in 1 .. n}
  BY <1>8, <1>9 DEF ActiveKeys
<1>11. {keys[i] : i \in 1 .. n} = {s[i] : i \in 1 .. n}
  BY <1>7
<1>12. {s[i] : i \in 1 .. n} = T
  BY <1>2
<1>13. QED
  BY <1>10, <1>11, <1>12

-----------------------------------------------------------------------------
(* What may carry, ranks ahead of what failed the chain, and that ahead of   *)
(* the dead.                                                                 *)
LiveNow(sc) == sc.sampled /\ sc.alive
FitFor(sc, v) == LiveNow(sc) /\ v.class # Bad
UsesOf(active, members, known, view) ==
  active \subseteq members /\ \A k \in active :
    /\ (LiveNow(known[k]) /\ view[k].class = Bad) => \A l \in members : ~FitFor(known[l], view[l])
    /\ Tier(known[k]) = Dead => \A l \in members : FitFor(known[l], view[l]) => l \in active

LEMMA FitIsAhead ==
  ASSUME NEW sc, NEW v, Judged(v)
  PROVE  /\ ChainTier(sc, v) \in 0 .. 4
         /\ FitFor(sc, v) => ChainTier(sc, v) < 3
         /\ LiveNow(sc) /\ v.class = Bad => ChainTier(sc, v) = 3
         /\ Tier(sc) = Dead => ChainTier(sc, v) = 4
BY DEF ChainTier, Tier, FitFor, LiveNow, Judged, Healthy, Unknown, Suspect, ChainBad, Dead, Good, Unproven, Bad

LEMMA SomeLeast ==
  ASSUME NEW U \in SUBSET Nat, U # {}
  PROVE  Min(U) \in U
<1>1. \E n \in U : \A m \in U : n <= m
  BY LeastNumber
<1>2. QED
  BY <1>1 DEF Min

(* The top of a ranking: the best n, ranked again.                           *)
HasTiers(row, members, known, view) == \A k \in members : row[k][1] = ChainTier(known[k], view[k])

TiersRise(s, n, known, view) ==
  \A i, j \in 1 .. n : i <= j => ChainTier(known[s[i]], view[s[i]]) <= ChainTier(known[s[j]], view[s[j]])

LEMMA SortedByTier ==
  ASSUME NEW members, NEW known, NEW view, NEW S \in SUBSET members, NEW row, NEW w \in Nat \ {0}, HasRows(S, row, w),
         HasTiers(row, members, known, view), KnownOf(members, known, view), NEW s, Sorts(s, S, row),
         NEW N \in Nat, N = Cardinality(S)
  PROVE  TiersRise(s, N, known, view)
<1> SUFFICES ASSUME NEW i \in 1 .. N, NEW j \in 1 .. N, i <= j
             PROVE  ChainTier(known[s[i]], view[s[i]]) <= ChainTier(known[s[j]], view[s[j]])
  BY DEF TiersRise
<1>1. s[i] \in S /\ s[j] \in S
  BY DEF Sorts
<1>2. PICK a, b : a = s[i] /\ b = s[j]
  OBVIOUS
<1>3. ChainTier(known[a], view[a]) \in 0 .. 4 /\ ChainTier(known[b], view[b]) \in 0 .. 4
  BY <1>1, <1>2, FitIsAhead DEF KnownOf
<1>4. CASE i = j
  BY <1>2, <1>3, <1>4
<1>5. CASE i < j
  <2>1. Before(row[a], row[b])
    BY <1>2, <1>5 DEF Sorts
  <2>2. row[a] \in Rows(w) /\ row[b] \in Rows(w)
    BY <1>1, <1>2 DEF HasRows
  <2>3. row[a][1] <= row[b][1]
    <3>1. PICK x \in 1 .. w : (\A y \in 1 .. x - 1 : row[a][y] = row[b][y]) /\ row[a][x] < row[b][x]
      BY <2>1, <2>2 DEF Before, Rows
    <3>2. row[a][1] \in Int /\ row[b][1] \in Int
      BY <2>2 DEF Rows
    <3>3. CASE x = 1
      BY <3>1, <3>2, <3>3
    <3>4. CASE x > 1
      BY <3>1, <3>2, <3>4
    <3>5. QED
      BY <3>3, <3>4
  <2>4. row[a][1] = ChainTier(known[a], view[a]) /\ row[b][1] = ChainTier(known[b], view[b])
    BY <1>1, <1>2 DEF HasTiers
  <2>5. QED
    BY <1>2, <2>3, <2>4
<1>6. QED
  BY <1>4, <1>5

LEMMA StableRows ==
  ASSUME NEW members \in SUBSET Nat, NEW known, NEW view, KnownOf(members, known, view), NEW sticky,
         NEW row, row = [k \in members |-> StableOrder(k, known, view, sticky)]
  PROVE  HasRows(members, row, 8) /\ HasTiers(row, members, known, view)
<1>1. \A k \in members : row[k] \in Rows(8) /\ row[k][1] = ChainTier(known[k], view[k]) /\ row[k][8] = k
  <2> SUFFICES ASSUME NEW k \in members
               PROVE  row[k] \in Rows(8) /\ row[k][1] = ChainTier(known[k], view[k]) /\ row[k][8] = k
    OBVIOUS
  <2>1. row[k] = StableOrder(k, known, view, sticky)
    OBVIOUS
  <2>2. k \in Int /\ Figures(known[k]) /\ Judged(view[k])
    BY DEF KnownOf
  <2>3. QED
    BY <2>1, <2>2, StableRow
<1>2. QED
  BY <1>1 DEF HasRows, HasTiers

(* How many are active: at most as many as there are, and no further than    *)
(* the first that failed the chain, unless it leads.                         *)
LEMMA ActiveCountIs ==
  ASSUME NEW n \in Nat \ {0}, NEW failed \in SUBSET (1 .. n), Expected <= 2, NEW a, a = StableActive(failed, n)
  PROVE  /\ a \in 1 .. n
         /\ 1 \notin failed => \A i \in 1 .. a : i \notin failed
<1> DEFINE E == Least2(Expected, n)
           U == {i \in 1 .. E : i = 1 \/ i \notin failed}
<1>1. E \in 1 .. 2 /\ E <= n
  BY PickAssumption DEF Least2
<1>2. U \in SUBSET (1 .. E) /\ U # {}
  BY <1>1
<1>3. Max(U) \in U
  <2> HIDE DEF U, E
  <2>1. QED
    BY <1>1, <1>2, MaxIsIn
<1>4. a = IF 1 \in failed THEN E ELSE Max(U)
  BY DEF StableActive
<1>5. QED
  BY <1>1, <1>3, <1>4

(* What the top n of a ranking is: the members that rank ahead of others.    *)
IsTop(top, n, members, known, view) ==
  /\ top \in [1 .. n -> members]
  /\ \A i, j \in 1 .. n : top[i] = top[j] => i = j
  /\ TiersRise(top, n, known, view)
  /\ \A l \in members : (\E i \in 1 .. n : top[i] = l)
       \/ \A i \in 1 .. n : ChainTier(known[top[i]], view[top[i]]) <= ChainTier(known[l], view[l])

StableRank(S, members, known, view, sticky) ==
  Ordered(S, [k \in members |-> StableOrder(k, known, view, sticky)])

AreFirst(best, first, n) == (\A i \in 1 .. n : first[i] \in best) /\ \A e \in best : \E i \in 1 .. n : first[i] = e

LEMMA TopIsTop ==
  ASSUME NEW members \in SUBSET Nat, IsFiniteSet(members), members # {}, NEW known, NEW view,
         KnownOf(members, known, view), NEW sticky, NEW wasActive,
         NEW first, first = StableRank(members, members, known, view, sticky),
         NEW n, n = Least2(PickCount, Len(first)),
         NEW best, AreFirst(best, first, n),
         NEW top, top = StableRank(best, members, known, view, wasActive)
  PROVE  n \in Nat \ {0} /\ IsTop(top, n, members, known, view)
<1> DEFINE row == [k \in members |-> StableOrder(k, known, view, sticky)]
           again == [k \in members |-> StableOrder(k, known, view, wasActive)]
           N == Cardinality(members)
           T(k) == ChainTier(known[k], view[k])
<1>1. N \in Nat \ {0}
  BY FS_CardinalityType, FS_EmptySet
<1>2. HasRows(members, row, 8) /\ HasTiers(row, members, known, view)
  BY StableRows
<1>3. HasRows(members, again, 8) /\ HasTiers(again, members, known, view)
  BY StableRows
<1>4. first = Ordered(members, row) /\ top = Ordered(best, again)
  BY DEF StableRank
<1> HIDE DEF row, again
<1>5. Sorts(first, members, row)
  BY <1>2, <1>4, OrderedSorts
<1>6. first \in [1 .. N -> members] /\ Len(first) = N
  <2>1. first \in [1 .. N -> members]
    BY <1>5 DEF Sorts
  <2> HIDE DEF N
  <2>2. QED
    BY <1>1, <2>1
<1>7. n \in 1 .. N
  <2> HIDE DEF N
  <2>1. QED
    BY <1>1, <1>6, PickAssumption DEF Least2
<1>8. \A i, j \in 1 .. N : first[i] = first[j] => i = j
  BY <1>5 DEF Sorts
<1>9. \A l \in members : \E i \in 1 .. N : first[i] = l
  BY <1>5 DEF Sorts
<1>10. best \subseteq members /\ IsFiniteSet(best) /\ Cardinality(best) = n
  <2>1. best \subseteq members
    BY <1>6, <1>7 DEF AreFirst
  <2> HIDE DEF N
  <2>2. IsFiniteSet(best) /\ Cardinality(best) = n
    <3>1. n \in Nat
      BY <1>1, <1>7
    <3>2. (\A i \in 1 .. n : first[i] \in best) /\ \A e \in best : \E i \in 1 .. n : first[i] = e
      BY DEF AreFirst
    <3>3. \A i, j \in 1 .. n : first[i] = first[j] => i = j
      BY <1>1, <1>7, <1>8
    <3>4. Lists(first, n, best)
      BY <3>2, <3>3 DEF Lists
    <3>5. QED
      BY <3>1, <3>4, PrefixCount
  <2>3. QED
    BY <2>1, <2>2
<1>11. HasRows(best, again, 8)
  BY <1>3, <1>10 DEF HasRows
<1>12. Sorts(top, best, again)
  BY <1>4, <1>10, <1>11, OrderedSorts
<1>13. best \in SUBSET members /\ members \in SUBSET members /\ 8 \in Nat \ {0}
  BY <1>10
<1>14. n \in Nat
  BY <1>1, <1>7
<1>15. TiersRise(first, N, known, view)
  <2>1. N \in Nat /\ N = Cardinality(members)
    BY <1>1
  <2> HIDE DEF N
  <2>2. QED
    BY <1>2, <1>5, <1>13, <2>1, SortedByTier
<1>16. TiersRise(top, n, known, view)
  <2>1. HasTiers(again, members, known, view) /\ n = Cardinality(best)
    BY <1>3, <1>10
  <2>2. QED
    BY <1>11, <1>12, <1>13, <1>14, <2>1, SortedByTier
<1>17. /\ top \in [1 .. n -> best]
       /\ \A i, j \in 1 .. n : top[i] = top[j] => i = j
       /\ \A e \in best : \E i \in 1 .. n : top[i] = e
  BY <1>10, <1>12 DEF Sorts
<1>18. top \in [1 .. n -> members]
  BY <1>10, <1>17
<1>19. ASSUME NEW l \in members, \A i \in 1 .. n : top[i] # l, NEW i \in 1 .. n
       PROVE  T(top[i]) <= T(l)
  <2>1. PICK x \in 1 .. N : first[x] = l
    BY <1>9
  <2>2. top[i] \in best /\ l \notin best
    BY <1>17, <1>19
  <2>3. PICK y \in 1 .. n : first[y] = top[i]
    BY <2>2 DEF AreFirst
  <2>4. x \notin 1 .. n
    BY <2>1, <2>2 DEF AreFirst
  <2>5. y \in 1 .. N /\ y <= x
    <3> HIDE DEF N
    <3>1. QED
      BY <1>1, <1>7, <2>4
  <2>6. T(first[y]) <= T(first[x])
    <3> HIDE DEF N
    <3>1. QED
      BY <1>15, <2>5 DEF TiersRise
  <2>7. QED
    BY <2>1, <2>3, <2>6
<1>20. n \in Nat \ {0}
  <2> HIDE DEF N
  <2>1. QED
    BY <1>1, <1>7
<1>21. \A l \in members : (\E i \in 1 .. n : top[i] = l) \/ \A i \in 1 .. n : T(top[i]) <= T(l)
  BY <1>19
<1>22. QED
  BY <1>16, <1>17, <1>18, <1>20, <1>21 DEF IsTop

FailedAt(failed, n, top, known, view) ==
  \A i \in 1 .. n : i \in failed <=> ChainTier(known[top[i]], view[top[i]]) = ChainBad
Spares(failed, a) == 1 \notin failed => \A i \in 1 .. a : i \notin failed

LEMMA TopUses ==
  ASSUME NEW members, NEW known, NEW view, \A k \in members : Judged(view[k]),
         NEW n \in Nat \ {0}, NEW top, IsTop(top, n, members, known, view),
         NEW failed, FailedAt(failed, n, top, known, view),
         NEW a \in 1 .. n, Spares(failed, a), NEW T, Lists(top, a, T)
  PROVE  UsesOf(T, members, known, view)
<1> DEFINE Tr(k) == ChainTier(known[k], view[k])
<1> SUFFICES ASSUME NEW i \in 1 .. a
             PROVE  /\ LiveNow(known[top[i]]) /\ view[top[i]].class = Bad => \A l \in members : ~FitFor(known[l], view[l])
                    /\ Tier(known[top[i]]) = Dead =>
                         \A l \in members : FitFor(known[l], view[l]) => \E j \in 1 .. a : top[j] = l
  BY DEF UsesOf, Lists, IsTop
<1>1. i \in 1 .. n /\ 1 \in 1 .. n /\ top[i] \in members /\ top[1] \in members
  BY DEF IsTop
<1>2. \A k \in members : /\ Tr(k) \in 0 .. 4
                         /\ FitFor(known[k], view[k]) => Tr(k) < 3
                         /\ LiveNow(known[k]) /\ view[k].class = Bad => Tr(k) = 3
                         /\ Tier(known[k]) = Dead => Tr(k) = 4
  BY FitIsAhead
<1>3. /\ \A j, k \in 1 .. n : j <= k => Tr(top[j]) <= Tr(top[k])
      /\ \A l \in members : (\E j \in 1 .. n : top[j] = l) \/ \A j \in 1 .. n : Tr(top[j]) <= Tr(l)
  BY DEF IsTop, TiersRise
<1>4. \A j \in 1 .. n : j \in failed <=> Tr(top[j]) = 3
  BY DEF FailedAt, ChainBad
<1> HIDE DEF Tr
<1>5. ASSUME LiveNow(known[top[i]]), view[top[i]].class = Bad, NEW l \in members, FitFor(known[l], view[l])
      PROVE  FALSE
  <2>1. Tr(top[i]) = 3 /\ Tr(l) < 3 /\ Tr(l) \in 0 .. 4
    BY <1>1, <1>2, <1>5
  <2>2. 1 \in failed
    BY <1>1, <1>4, <2>1 DEF Spares
  <2>3. Tr(top[1]) = 3
    BY <1>1, <1>4, <2>2
  <2>4. CASE \E j \in 1 .. n : top[j] = l
    <3>1. PICK j \in 1 .. n : top[j] = l
      BY <2>4
    <3>2. Tr(top[1]) <= Tr(top[j])
      BY <1>1, <1>3
    <3>3. QED
      BY <2>1, <2>3, <3>1, <3>2
  <2>5. CASE \A j \in 1 .. n : Tr(top[j]) <= Tr(l)
    <3>1. Tr(top[1]) <= Tr(l)
      BY <1>1, <2>5
    <3>2. QED
      BY <2>1, <2>3, <3>1
  <2>6. QED
    BY <1>3, <2>4, <2>5
<1>6. ASSUME Tier(known[top[i]]) = Dead, NEW l \in members, FitFor(known[l], view[l])
      PROVE  \E j \in 1 .. a : top[j] = l
  <2>1. Tr(top[i]) = 4 /\ Tr(l) < 3 /\ Tr(l) \in 0 .. 4
    BY <1>1, <1>2, <1>6
  <2>2. PICK j \in 1 .. n : top[j] = l
    <3>1. ~(Tr(top[i]) <= Tr(l))
      BY <2>1
    <3>2. QED
      BY <1>1, <1>3, <3>1
  <2>3. ~(i <= j)
    <3>1. ~(Tr(top[i]) <= Tr(top[j]))
      BY <2>1, <2>2
    <3>2. QED
      BY <1>1, <1>3, <3>1
  <2>4. j \in 1 .. a
    BY <2>3
  <2>5. QED
    BY <2>2, <2>4
<1>7. QED
  BY <1>5, <1>6

LEMMA StablePickUses ==
  ASSUME NEW members \in SUBSET Nat, IsFiniteSet(members), members # {}, NEW known, NEW view,
         KnownOf(members, known, view), NEW prev, Expected <= 2
  PROVE  UsesOf(ActiveKeys(StablePick(members, known, prev, view)), members, known, view)
<1> DEFINE wasActive == {prev.keys[i] : i \in 1 .. Least2(Expected, Len(prev.keys))}
           first == StableRank(members, members, known, view, Range(prev.keys))
           n == Least2(PickCount, Len(first))
           best == {first[i] : i \in 1 .. n}
           top == StableRank(best, members, known, view, wasActive)
           failed == {i \in 1 .. n : ChainTier(known[top[i]], view[top[i]]) = ChainBad}
           active == StableActive(failed, n)
           U == {n} \cup {i - 1 : i \in {j \in failed : j > active}}
           last == IF 1 \in failed THEN n ELSE Min(U)
           T == {top[i] : i \in 1 .. active}
<1>1. StablePick(members, known, prev, view) =
        IF \A k \in members : Tier(known[k]) = Unknown THEN NoPick
        ELSE [keys |-> InKeyOrder(T) \o SubSeq(top, active + 1, last), active |-> active]
  BY DEF StablePick, StableRank
<1>2. n \in Nat \ {0} /\ IsTop(top, n, members, known, view)
  <2> HIDE DEF wasActive
  <2>1. PICK f : f = first
    OBVIOUS
  <2>2. f = StableRank(members, members, known, view, Range(prev.keys))
    BY <2>1
  <2> HIDE DEF first
  <2>3. n = Least2(PickCount, Len(f))
    BY <2>1
  <2> HIDE DEF n
  <2>4. AreFirst(best, f, n)
    BY <2>1 DEF AreFirst
  <2> HIDE DEF best
  <2>5. top = StableRank(best, members, known, view, wasActive)
    OBVIOUS
  <2> HIDE DEF top
  <2>6. QED
    BY <2>2, <2>3, <2>4, <2>5, TopIsTop
<1> HIDE DEF top, n
<1>3. active \in 1 .. n /\ Spares(failed, active)
  <2>1. failed \in SUBSET (1 .. n)
    OBVIOUS
  <2> HIDE DEF failed
  <2>2. QED
    BY <1>2, <2>1, ActiveCountIs DEF Spares
<1>4. \A k \in members : Judged(view[k])
  BY DEF KnownOf
<1>5. FailedAt(failed, n, top, known, view)
  BY DEF FailedAt
<1>6. \A i \in failed : i \in 1 .. n
  OBVIOUS
<1> HIDE DEF active, failed
<1>7. last \in 0 .. n
  <2>1. U \in SUBSET (0 .. n) /\ U # {}
    BY <1>2, <1>6
  <2> HIDE DEF U
  <2>2. Min(U) \in U
    <3>1. U \in SUBSET Nat
      BY <1>2, <2>1
    <3>2. QED
      BY <2>1, <3>1, SomeLeast
  <2>3. CASE 1 \in failed
    BY <1>2, <2>3
  <2>4. CASE 1 \notin failed
    BY <2>1, <2>2, <2>4
  <2>5. QED
    BY <2>3, <2>4
<1> HIDE DEF last, U
<1>8. SubSeq(top, active + 1, last) \in Seq(members)
  <2>1. \A i \in active + 1 .. last : top[i] \in members
    BY <1>2, <1>3, <1>7 DEF IsTop
  <2>2. active + 1 \in Int /\ last \in Int
    BY <1>2, <1>3, <1>7
  <2>3. QED
    BY <2>1, <2>2, SubSeqProperties
<1>11. Lists(top, active, T) /\ T \subseteq members
  <2>1. top \in [1 .. n -> members] /\ \A i, j \in 1 .. n : top[i] = top[j] => i = j
    BY <1>2 DEF IsTop
  <2>2. \A i \in 1 .. active : i \in 1 .. n
    BY <1>2, <1>3
  <2>3. QED
    BY <2>1, <2>2 DEF Lists
<1> HIDE DEF T
<1>12. UsesOf(T, members, known, view)
  BY <1>2, <1>3, <1>4, <1>5, <1>11, TopUses
<1>13. T \in SUBSET Nat /\ IsFiniteSet(T) /\ Cardinality(T) = active
  <2>1. active \in Nat
    BY <1>2, <1>3
  <2>2. QED
    BY <1>11, <2>1, PrefixCount
<1>9. CASE \A k \in members : Tier(known[k]) = Unknown
  <2>1. ActiveKeys(NoPick) = {}
    BY PickAssumption DEF ActiveKeys, ActiveCount, NoPick, Least2
  <2>2. QED
    BY <1>1, <1>9, <2>1 DEF UsesOf
<1>10. CASE ~\A k \in members : Tier(known[k]) = Unknown
  <2>1. PICK p : p = [keys |-> InKeyOrder(T) \o SubSeq(top, active + 1, last), active |-> active]
    OBVIOUS
  <2>2. ActiveKeys(p) = T
    <3>1. IsPickOf(p, T, SubSeq(top, active + 1, last)) /\ Cardinality(T) # 0
      BY <1>2, <1>3, <1>13, <2>1 DEF IsPickOf
    <3>2. QED
      BY <1>8, <1>13, <3>1, ActiveAre
  <2>3. StablePick(members, known, prev, view) = p
    BY <1>1, <1>10, <2>1
  <2>4. QED
    BY <1>12, <2>2, <2>3
<1>14. QED
  BY <1>9, <1>10

(* The agile pick only makes members active that answer.                     *)
LEMMA AgilePickUses ==
  ASSUME NEW members \in SUBSET Nat, IsFiniteSet(members), NEW known, NEW view,
         KnownOf(members, known, view), NEW prev, \E k \in members : LiveNow(known[k])
  PROVE  UsesOf(ActiveKeys(AgilePick(members, known, prev, view)), members, known, view)
<1> DEFINE live == {k \in members : known[k].sampled /\ known[k].alive}
           fit == {k \in live : view[k].class # Bad}
           alive == IF fit # {} THEN fit ELSE live
           rest == SpareFrom(members, live)
           ByCost(k) ==
             LET sc == known[k]
                 raw == CASE view[k].class = Good -> view[k].cost
                          [] view[k].class # Good /\ sc.last > 0 -> sc.last
                          [] OTHER -> sc.rtt
             IN  <<view[k].class, Weigh(raw, k \in ActiveKeys(prev)), k>>
           ByRecord(k) == <<No(known[k].known), -known[k].ok, k>>
           row == [k \in alive |-> ByCost(k)]
           fastest == Ordered(alive, row)
           n == Least2(AgileMax, Len(fastest))
           next == Ordered(rest, [k \in rest |-> ByRecord(k)])[1]
           spare == CASE Len(fastest) > n -> <<fastest[n + 1]>>
                      [] Len(fastest) = n /\ rest # {} -> <<next>>
                      [] OTHER -> <<>>
           T == {fastest[i] : i \in 1 .. n}
           N == Cardinality(alive)
<1>1. AgilePick(members, known, prev, view) = [keys |-> InKeyOrder(T) \o spare, active |-> n]
  BY DEF AgilePick
<1>2. alive \subseteq members /\ alive # {}
  BY DEF LiveNow
<1>3. IsFiniteSet(alive) /\ N \in Nat \ {0}
  <2> HIDE DEF alive
  <2>1. IsFiniteSet(alive)
    BY <1>2, FS_Subset
  <2>2. QED
    BY <1>2, <2>1, FS_CardinalityType, FS_EmptySet
<1>4. /\ \A k \in alive : LiveNow(known[k])
      /\ \A k \in alive : view[k].class = Bad => \A l \in members : ~FitFor(known[l], view[l])
  BY DEF LiveNow, FitFor
<1> HIDE DEF alive
<1>5. HasRows(alive, row, 3)
  <2>1. ASSUME NEW k \in alive
        PROVE  ByCost(k) \in Rows(3) /\ ByCost(k)[3] = k
    <3> DEFINE raw == CASE view[k].class = Good -> view[k].cost
                        [] view[k].class # Good /\ known[k].last > 0 -> known[k].last
                        [] OTHER -> known[k].rtt
    <3>1. k \in Int /\ Figures(known[k]) /\ Judged(view[k])
      BY <1>2 DEF KnownOf
    <3>2. raw \in Int /\ view[k].class \in Int
      BY <3>1 DEF Figures, Judged, Good, Unproven, Bad
    <3>3. ByCost(k) = <<view[k].class, Weigh(raw, k \in ActiveKeys(prev)), k>>
      OBVIOUS
    <3> HIDE DEF raw, ByCost
    <3>4. Weigh(raw, k \in ActiveKeys(prev)) \in Int
      BY <3>2 DEF Weigh
    <3>5. PICK w : w = Weigh(raw, k \in ActiveKeys(prev))
      OBVIOUS
    <3>6. QED
      BY <3>1, <3>2, <3>3, <3>4, <3>5 DEF Rows
  <2>2. \A k \in alive : row[k] \in Rows(3) /\ row[k][3] = k
    <3>1. \A k \in alive : row[k] = ByCost(k)
      OBVIOUS
    <3> HIDE DEF row, ByCost
    <3>2. QED
      BY <2>1, <3>1
  <2> HIDE DEF row
  <2>3. QED
    BY <2>2 DEF HasRows
<1> HIDE DEF row
<1>6. Sorts(fastest, alive, row)
  BY <1>3, <1>5, OrderedSorts
<1> HIDE DEF fastest
<1>7. /\ fastest \in [1 .. N -> alive] /\ Len(fastest) = N
      /\ \A i, j \in 1 .. N : fastest[i] = fastest[j] => i = j
  <2>1. fastest \in [1 .. N -> alive] /\ \A i, j \in 1 .. N : fastest[i] = fastest[j] => i = j
    BY <1>6 DEF Sorts
  <2> HIDE DEF N
  <2>2. QED
    BY <1>3, <2>1
<1> HIDE DEF N
<1>8. n \in 1 .. N
  BY <1>3, <1>7, PickAssumption DEF Least2
<1> HIDE DEF n
<1>9. T \subseteq alive /\ Lists(fastest, n, T)
  <2>1. \A i \in 1 .. n : i \in 1 .. N
    BY <1>3, <1>8
  <2>2. QED
    BY <1>7, <2>1 DEF Lists
<1> HIDE DEF T
<1>10. T \in SUBSET Nat /\ IsFiniteSet(T) /\ Cardinality(T) = n /\ n \in Nat \ {0}
  <2>1. n \in Nat \ {0} /\ T \in SUBSET Nat
    BY <1>2, <1>3, <1>8, <1>9
  <2>2. QED
    BY <1>9, <2>1, PrefixCount
<1> DEFINE X == {fastest[n + 1], next}
<1>11. spare \in Seq(X)
  <2> HIDE DEF next, rest
  <2>1. Len(fastest) \in Int /\ n \in Int
    BY <1>3, <1>7, <1>8
  <2>2. spare = <<fastest[n + 1]>> \/ spare = <<next>> \/ spare = <<>>
    BY <2>1
  <2>3. <<fastest[n + 1]>> \in Seq(X) /\ <<next>> \in Seq(X) /\ <<>> \in Seq(X)
    OBVIOUS
  <2> HIDE DEF spare
  <2>4. QED
    BY <2>2, <2>3
<1> HIDE DEF spare, X
<1>12. PICK p : p = [keys |-> InKeyOrder(T) \o spare, active |-> n]
  OBVIOUS
<1>13. ActiveKeys(p) = T
  <2>1. IsPickOf(p, T, spare) /\ Cardinality(T) # 0
    BY <1>10, <1>12 DEF IsPickOf
  <2>2. QED
    BY <1>10, <1>11, <2>1, ActiveAre
<1>14. UsesOf(T, members, known, view)
  <2>1. \A k \in T : k \in alive /\ Tier(known[k]) # Dead
    BY <1>4, <1>9 DEF Tier, LiveNow, Healthy, Unknown, Suspect, Dead
  <2>2. QED
    BY <1>2, <1>4, <1>9, <2>1 DEF UsesOf
<1>15. QED
  BY <1>1, <1>12, <1>13, <1>14

LEMMA PickUses ==
  ASSUME NEW sl, sl.members \in SUBSET Nat, IsFiniteSet(sl.members), sl.strategy # "manual",
         NEW known, NEW view, KnownOf(sl.members, known, view), NEW prev, Expected <= 2
  PROVE  UsesOf(ActiveKeys(PickFor(sl, known, prev, view)), sl.members, known, view)
<1> DEFINE answers == \E k \in sl.members : known[k].sampled /\ known[k].alive
<1>1. CASE sl.members = {}
  <2>1. PickFor(sl, known, prev, view) = NoPick
    BY <1>1 DEF PickFor
  <2>2. ActiveKeys(NoPick) = {}
    BY PickAssumption DEF ActiveKeys, ActiveCount, NoPick, Least2
  <2>3. QED
    BY <2>1, <2>2 DEF UsesOf
<1>2. CASE sl.members # {} /\ sl.strategy = "agile" /\ answers
  <2>1. PickFor(sl, known, prev, view) = AgilePick(sl.members, known, prev, view)
    BY <1>2 DEF PickFor
  <2>2. \E k \in sl.members : LiveNow(known[k])
    BY <1>2 DEF LiveNow
  <2>3. UsesOf(ActiveKeys(AgilePick(sl.members, known, prev, view)), sl.members, known, view)
    BY <2>2, AgilePickUses
  <2>4. QED
    BY <2>1, <2>3
<1>3. CASE sl.members # {} /\ ~(sl.strategy = "agile" /\ answers)
  <2>1. PickFor(sl, known, prev, view) = StablePick(sl.members, known, prev, view)
    BY <1>3 DEF PickFor
  <2>2. UsesOf(ActiveKeys(StablePick(sl.members, known, prev, view)), sl.members, known, view)
    BY <1>3, StablePickUses
  <2>3. QED
    BY <2>1, <2>2
<1>4. QED
  BY <1>1, <1>2, <1>3

-----------------------------------------------------------------------------
(* The machine: the scores are numbers, and whoever reconciles picks with    *)
(* the scores and verdicts of that moment.                                   *)
Numbers ==
  [known : BOOLEAN, sampled : BOOLEAN, alive : BOOLEAN, clean : BOOLEAN, ok : Int, rtt : Int, last : Int]
RankInv ==
  /\ resolved \in Resolutions
  /\ scores \in [Keys -> Numbers]
  /\ poller.at = "seen" => poller.health \in Healths

LEMMA FoldedIsNumbers ==
  ASSUME NEW sc \in Numbers, NEW st \in [sampled : BOOLEAN, alive : BOOLEAN, clean : BOOLEAN, delay : Nat],
         NEW new \in Folded(sc, st)
  PROVE  new \in Numbers
<1> DEFINE rate == CASE ~st.alive -> 0 [] st.alive /\ st.clean -> 100 [] OTHER -> 50
           timed == st.alive /\ st.delay > 0
           oks == IF sc.known THEN Toward(sc.ok, rate, Rates) ELSE {rate}
           rtts == CASE ~timed -> {sc.rtt}
                     [] timed /\ sc.rtt = 0 -> {st.delay}
                     [] OTHER -> Toward(sc.rtt, st.delay, Delays)
           lastOne == IF timed THEN st.delay ELSE sc.last
<1>1. CASE ~st.sampled
  <2>1. new = [sc EXCEPT !.sampled = FALSE]
    BY <1>1 DEF Folded
  <2>2. QED
    BY <2>1 DEF Numbers
<1>2. CASE st.sampled
  <2>1. \E ok \in oks : \E rtt \in rtts :
          new = [known |-> TRUE, sampled |-> TRUE, alive |-> st.alive, clean |-> st.clean,
                 ok |-> ok, rtt |-> rtt, last |-> lastOne]
    BY <1>2 DEF Folded
  <2>2. sc.ok \in Int /\ sc.rtt \in Int /\ sc.last \in Int
    BY DEF Numbers
  <2>3. st.delay \in Int /\ st.alive \in BOOLEAN /\ st.clean \in BOOLEAN
    OBVIOUS
  <2>4. oks \subseteq Int /\ rtts \subseteq Int /\ lastOne \in Int
    <3>1. Rates \subseteq Int /\ Delays \subseteq Int
      BY RankingAssumption
    <3>2. oks \subseteq Int
      <4>1. rate \in Int
        OBVIOUS
      <4> HIDE DEF rate
      <4>2. QED
        BY <3>1, <4>1 DEF Toward
    <3>3. rtts \subseteq Int
      <4> HIDE DEF timed
      <4>1. QED
        BY <2>2, <2>3, <3>1 DEF Toward
    <3>4. QED
      BY <2>2, <2>3, <3>2, <3>3
  <2> HIDE DEF oks, rtts, lastOne
  <2>5. QED
    BY <2>1, <2>3, <2>4 DEF Numbers
<1>3. QED
  BY <1>1, <1>2

LEMMA ObservedAreNumbers ==
  ASSUME RankInv, NEW members, NEW h \in Healths, NEW new \in Observed(members, h)
  PROVE  new \in [Keys -> Numbers]
<1> DEFINE may == [k \in Keys |-> IF k \in members THEN Folded(scores[k], h[k]) ELSE {NoScore}]
<1>1. NoScore \in Numbers
  BY DEF NoScore, Numbers
<1>2. CASE SeesLife(members, h)
  <2>1. new \in [Keys -> UNION Range(may)] /\ \A k \in Keys : new[k] \in may[k]
    BY <1>2 DEF Observed
  <2>2. \A k \in Keys : new[k] \in IF k \in members THEN Folded(scores[k], h[k]) ELSE {NoScore}
    BY <2>1
  <2>3. \A k \in Keys : new[k] \in Numbers
    <3> SUFFICES ASSUME NEW k \in Keys PROVE new[k] \in Numbers
      OBVIOUS
    <3>1. scores[k] \in Numbers /\ h[k] \in [sampled : BOOLEAN, alive : BOOLEAN, clean : BOOLEAN, delay : Nat]
      BY RankingAssumption DEF RankInv
    <3>2. CASE k \in members
      <4>1. new[k] \in Folded(scores[k], h[k])
        BY <2>2, <3>2
      <4>2. QED
        BY <3>1, <4>1, FoldedIsNumbers
    <3>3. CASE k \notin members
      BY <1>1, <2>2, <3>3
    <3>4. QED
      BY <3>2, <3>3
  <2> HIDE DEF may
  <2>4. QED
    BY <2>1, <2>3
<1>3. CASE ~SeesLife(members, h)
  <2>1. new = [k \in Keys |-> IF k \in members THEN scores[k] ELSE NoScore]
    BY <1>3 DEF Observed
  <2>2. QED
    BY <1>1, <2>1 DEF RankInv
<1>4. QED
  BY <1>2, <1>3

LEMMA RankInit == Init => RankInv
BY DEF Init, RankInv, NoScore, Numbers, Idle

LEMMA RankStep == RankInv /\ [RankingNext]_vars => RankInv'
<1> SUFFICES ASSUME RankInv, [RankingNext]_vars
             PROVE  RankInv'
  OBVIOUS
<1>1. CASE UNCHANGED <<resolved, scores, poller>>
  BY <1>1 DEF RankInv
<1>2. CASE Poll
  <2>1. CASE PollStart \/ PollFails \/ PollApplies \/ PollApplyFails
    BY <2>1 DEF RankInv, PollStart, PollFails, PollApplies, PollApplyFails, Idle
  <2>2. ASSUME NEW h \in Healths, PollAnswers(h)
        PROVE  RankInv'
    BY <2>2 DEF RankInv, PollAnswers
  <2>3. CASE PollObserve
    <3>1. poller.health \in Healths
      BY <2>3 DEF PollObserve, RankInv
    <3>2. scores' \in Observed(poller.slot.members, poller.health) /\ resolved' = resolved
      BY <2>3 DEF PollObserve
    <3>3. scores' \in [Keys -> Numbers]
      BY <3>1, <3>2, ObservedAreNumbers
    <3>4. poller'.at # "seen"
      BY <2>3 DEF PollObserve, Idle
    <3>5. QED
      BY <3>2, <3>3, <3>4 DEF RankInv
  <2>4. QED
    BY <1>2, <2>1, <2>2, <2>3 DEF Poll
<1>3. CASE RpcReconcile \/ Tick \/ Round
  <2>1. UNCHANGED <<resolved, scores, poller>>
    BY <1>3 DEF RpcReconcile, Tick, Round, ProbeStart, ProbeAborts, ProbeEnds, ProbeApplies, ProbeApplyFails
  <2>2. QED
    BY <1>1, <2>1
<1>4. CASE UNCHANGED vars
  BY <1>1, <1>4 DEF vars
<1>5. QED
  BY <1>2, <1>3, <1>4 DEF RankingNext

LEMMA ReconciledUses ==
  ASSUME RankInv, Expected <= 2, loaded' = Reconciled, UNCHANGED <<scores, chain>>
  PROVE  UsesWhatCarries
<1> DEFINE sl == Slot(resolved)
           members == resolved.members
           views == Views(chain, members)
           judged == {m \in DOMAIN views : \E k \in members : views[m][k].class # Unproven}
           none == [k \in DOMAIN scores |-> NoVerdict]
           after == [sl EXCEPT !.pick = PickFor(sl, scores, loaded.pick, none),
                               !.own = [m \in IF sl.strategy = "manual" THEN {} ELSE judged |->
                                          PickFor(sl, scores, PickOf(loaded, m), views[m])]]
<1>1. members \in SUBSET Nat /\ IsFiniteSet(members) /\ members \subseteq Keys
  BY RankingAssumption DEF RankInv
<1>2. loaded' = after
  BY DEF Reconciled, PickSlot, Slot
<1>3. sl.members = members /\ sl.strategy = resolved.strategy
  BY DEF Slot
<1>4. /\ DOMAIN views = Masters
      /\ \A m \in Masters : \A k \in members : Judged(views[m][k])
  <2>1. ASSUME NEW m \in Masters, NEW k \in members
        PROVE  Judged(views[m][k])
    <3>1. views[m][k] = NoVerdict \/ views[m][k] = Verdict(m, k, chain[m][k])
      BY <1>1 DEF Views
    <3>2. ChainDelay[m][k] \in Int
      BY <1>1, RankingAssumption
    <3>3. Judged(NoVerdict) /\ Judged(Verdict(m, k, chain[m][k]))
      BY <3>2 DEF Judged, NoVerdict, Verdict, Good, Unproven, Bad
    <3>4. QED
      BY <3>1, <3>3
  <2>2. QED
    BY <2>1 DEF Views
<1>5. \A k \in members : Figures(scores[k])
  BY <1>1 DEF RankInv, Numbers, Figures
<1>6. /\ KnownOf(members, scores, none)
      /\ \A m \in Masters : KnownOf(members, scores, views[m])
      /\ \A k \in members : none[k].class = Unproven
  <2>1. \A k \in members : none[k] = NoVerdict
    BY <1>1 DEF RankInv
  <2> HIDE DEF none, views
  <2>2. QED
    BY <1>4, <1>5, <2>1 DEF KnownOf, Judged, NoVerdict
<1> HIDE DEF views, none
<1>7. /\ loaded'.members = members /\ loaded'.strategy = resolved.strategy
      /\ loaded'.pick = PickFor(sl, scores, loaded.pick, none)
      /\ loaded'.own = [m \in IF sl.strategy = "manual" THEN {} ELSE judged |->
                          PickFor(sl, scores, PickOf(loaded, m), views[m])]
  BY <1>2 DEF Slot
<1> SUFFICES ASSUME resolved.strategy # "manual", NEW m \in Masters
             PROVE  UsesOf(ActiveKeys(PickOf(loaded', m)), members, scores, views[m])
  <2>1. resolved.strategy # "manual" =>
          \A m \in Masters : UsesOf(ActiveKeys(PickOf(loaded', m)), members, scores, views[m])
    OBVIOUS
  <2>2. Views(chain', loaded'.members) = views
    BY <1>7 DEF views
  <2>3. scores' = scores
    OBVIOUS
  <2>4. QED
    BY <1>7, <2>1, <2>2, <2>3 DEF UsesWhatCarries, UsesOf, FitFor, LiveNow
<1>8. CASE m \in judged
  <2>1. PickOf(loaded', m) = PickFor(sl, scores, PickOf(loaded, m), views[m])
    BY <1>3, <1>7, <1>8 DEF PickOf
  <2>2. UsesOf(ActiveKeys(PickFor(sl, scores, PickOf(loaded, m), views[m])), members, scores, views[m])
    BY <1>1, <1>3, <1>6, PickUses
  <2>3. QED
    BY <2>1, <2>2
<1>9. CASE m \notin judged
  <2>1. PickOf(loaded', m) = PickFor(sl, scores, loaded.pick, none)
    BY <1>3, <1>7, <1>9 DEF PickOf
  <2>2. UsesOf(ActiveKeys(PickFor(sl, scores, loaded.pick, none)), members, scores, none)
    BY <1>1, <1>3, <1>6, PickUses
  <2>3. \A k \in members : views[m][k].class = none[k].class
    BY <1>4, <1>6, <1>9
  <2>4. UsesOf(ActiveKeys(PickFor(sl, scores, loaded.pick, none)), members, scores, views[m])
    <3>1. \A k \in members : FitFor(scores[k], none[k]) <=> FitFor(scores[k], views[m][k])
      BY <2>3 DEF FitFor
    <3>2. \A k \in members : views[m][k].class # Bad
      BY <1>6, <2>3 DEF Unproven, Bad
    <3>3. QED
      BY <2>2, <3>1, <3>2 DEF UsesOf
  <2>5. QED
    BY <2>1, <2>4
<1>10. QED
  BY <1>8, <1>9

(* A reconcile never makes a member active that is known not to carry a      *)
(* master, or is dead, while one that may carry it is left out: for the two  *)
(* active members there are (SlotBalancerExpected).  With three it would be  *)
(* false: a member that failed the chain would be active between one that    *)
(* did not and a dead one, as pickStableLocked only looks at the last of the *)
(* active.                                                                   *)
THEOREM ReconcilesUseWhatCarries ==
  ASSUME Expected <= 2
  PROVE  RankingSpec => ReconcileUsesWhatCarries
<1>1. RankInv /\ [RankingNext]_vars => [loaded' # loaded => UsesWhatCarries]_vars
  <2> SUFFICES ASSUME RankInv, RankingNext, loaded' # loaded
               PROVE  UsesWhatCarries
    BY DEF vars
  <2>1. loaded' = Reconciled /\ UNCHANGED <<scores, chain>>
    BY DEF RankingNext, RpcReconcile, Tick, Poll, PollStart, PollAnswers, PollFails, PollObserve, PollApplies,
           PollApplyFails, Round, ProbeStart, ProbeAborts, ProbeEnds, ProbeApplies, ProbeApplyFails
  <2>2. QED
    BY <2>1, ReconciledUses
<1>2. QED
  BY <1>1, RankInit, RankStep, PTL DEF RankingSpec, ReconcileUsesWhatCarries
=============================================================================
