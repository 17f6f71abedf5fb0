------------------------------- MODULE Lemmas -------------------------------
(***************************************************************************)
(* What the proofs of several modules rest on.                             *)
(*                                                                         *)
(* Induction on a number, and that recursion and folds define a function:  *)
(* stated for sets and functions, so that a proof can cite them.           *)
(*                                                                         *)
(* What the operators of Slots compute, for any number of masters, pools   *)
(* and slots: the pools in order are those of the masters and no others,   *)
(* no slot is given twice, a pool that had a slot has that.  The two       *)
(* rounds of assignSlotIndices are folds: induction over the pools.        *)
(***************************************************************************)
EXTENDS Slots, FiniteSetsExt, FiniteSetTheorems, TLAPS

LEMMA LeastNumber ==
  ASSUME NEW T \in SUBSET Nat, T # {}
  PROVE  \E n \in T : \A m \in T : n <= m
<1> DEFINE F == {0 .. n : n \in T}
<1>1. F \subseteq FiniteSubsetsOf(Nat) /\ F # {}
  <2>1. \A n \in Nat : IsFiniteSet(0 .. n) /\ 0 .. n \subseteq Nat
    BY FS_Interval
  <2>2. \A n \in T : 0 .. n \in FiniteSubsetsOf(Nat)
    BY <2>1 DEF FiniteSubsetsOf
  <2>3. QED
    BY <2>2
<1>2. IsWellFoundedOn(StrictSubsetOrdering(Nat), FiniteSubsetsOf(Nat))
  BY FS_StrictSubsetOrderingWellFounded
<1> HIDE DEF F
<1>3. PICK x \in F : \A y \in F : <<y, x>> \notin StrictSubsetOrdering(Nat)
  BY <1>1, <1>2, WFMin
<1>4. PICK n \in T : x = 0 .. n
  BY DEF F
<1>5. ASSUME NEW m \in T, m < n
      PROVE  FALSE
  <2>1. 0 .. m \in F
    BY DEF F
  <2>2. <<0 .. m, x>> \in StrictSubsetOrdering(Nat)
    BY <1>4, <1>5 DEF StrictSubsetOrdering
  <2>3. QED
    BY <1>3, <2>1, <2>2
<1>6. QED
  BY <1>5

LEMMA Induction ==
  ASSUME NEW N \in Nat, NEW T, 0 \in T, \A n \in 1 .. N : n - 1 \in T => n \in T
  PROVE  0 .. N \subseteq T
<1> DEFINE Missing == 0 .. N \ T
<1> SUFFICES ASSUME Missing # {} PROVE FALSE
  OBVIOUS
<1>1. Missing \in SUBSET Nat
  OBVIOUS
<1> HIDE DEF Missing
<1>2. PICK n \in Missing : \A m \in Missing : n <= m
  BY <1>1, LeastNumber
<1>3. n \in 1 .. N /\ n - 1 \in 0 .. N
  BY DEF Missing
<1>4. n - 1 \in T
  BY <1>2, <1>3 DEF Missing
<1>5. QED
  BY <1>3, <1>4 DEF Missing

(* f is where N steps lead from base, each in S.                            *)
Steps(N, S) == [1 .. N -> [S -> S]]
Leads(f, N, S, base, Step) ==
  f \in [0 .. N -> S] /\ f[0] = base /\ \A n \in 1 .. N : f[n] = Step[n][f[n - 1]]

LEMMA Recursion ==
  ASSUME NEW N \in Nat, NEW S, NEW base \in S, NEW Step \in Steps(N, S)
  PROVE  \E f : Leads(f, N, S, base, Step)
<1> USE DEF Steps
<1> DEFINE T == {n \in 0 .. N : \E f \in [0 .. n -> S] :
                   f[0] = base /\ \A m \in 1 .. n : f[m] = Step[m][f[m - 1]]}
<1>1. 0 \in T
  <2> DEFINE g == [n \in 0 .. 0 |-> base]
  <2>1. g \in [0 .. 0 -> S] /\ g[0] = base /\ 1 .. 0 = {}
    OBVIOUS
  <2> HIDE DEF g
  <2>2. QED
    BY <2>1
<1>2. ASSUME NEW n \in 1 .. N, n - 1 \in T
      PROVE  n \in T
  <2>1. PICK f \in [0 .. n - 1 -> S] : f[0] = base /\ \A m \in 1 .. n - 1 : f[m] = Step[m][f[m - 1]]
    BY <1>2
  <2> DEFINE g == [m \in 0 .. n |-> IF m = n THEN Step[n][f[n - 1]] ELSE f[m]]
  <2>2. g \in [0 .. n -> S]
    BY <2>1
  <2>3. g[0] = base /\ \A m \in 1 .. n : g[m] = Step[m][g[m - 1]]
    BY <2>1
  <2> HIDE DEF g
  <2>4. QED
    BY <2>2, <2>3
<1>3. N \in T
  <2> HIDE DEF T
  <2>1. 0 .. N \subseteq T
    BY <1>1, <1>2, Induction
  <2>2. QED
    BY <2>1
<1>4. QED
  BY <1>3 DEF Leads

-----------------------------------------------------------------------------
(* Folds, which recur on the set of positions that are left (Folds.tla).    *)

LEMMA MaxOfPositions ==
  ASSUME NEW n \in Nat, NEW s \in SUBSET (1 .. n), n \in s
  PROVE  Max(s) = n
<1>1. \A y \in s : n >= y
  OBVIOUS
<1>2. \A x \in s : (\A y \in s : x >= y) => x = n
  OBVIOUS
<1>3. QED
  BY <1>1, <1>2 DEF Max

LEMMA MaxIsIn ==
  ASSUME NEW N \in Nat, NEW s \in SUBSET (1 .. N), s # {}
  PROVE  Max(s) \in s
<1> DEFINE U == {k \in 0 .. N : \E m \in s : m = N - k}
<1>1. U \in SUBSET Nat
  OBVIOUS
<1>0. U # {}
  <2>1. PICK m \in s : TRUE
    OBVIOUS
  <2>2. N - m \in 0 .. N /\ m = N - (N - m)
    OBVIOUS
  <2>3. QED
    BY <2>2
<1> HIDE DEF U
<1>2. PICK k \in U : \A l \in U : k <= l
  BY <1>0, <1>1, LeastNumber
<1>3. N - k \in s
  BY DEF U
<1>4. \A m \in s : N - k >= m
  <2>1. \A m \in s : N - m \in U
    BY DEF U
  <2>2. QED
    BY <1>1, <1>2, <2>1
<1>5. \E x \in s : \A y \in s : x >= y
  BY <1>3, <1>4
<1>6. QED
  BY <1>5 DEF Max

(* In a finite set of numbers as many come before one of them as one likes. *)
LEMMA Ranks ==
  ASSUME NEW F \in SUBSET Nat, IsFiniteSet(F), NEW n \in 1 .. Cardinality(F)
  PROVE  \E e \in F : Cardinality({f \in F : f < e}) = n - 1
<1> DEFINE N == Cardinality(F)
           Below(e) == {f \in F : f < e}
           T == {k \in 0 .. N : k = 0 \/ \E e \in F : Cardinality(Below(e)) = k - 1}
<1>1. N \in Nat
  BY FS_CardinalityType
<1>2. 0 \in T
  BY <1>1
<1>3. ASSUME NEW k \in 1 .. N, k - 1 \in T
      PROVE  k \in T
  <2>1. ASSUME NEW G \in SUBSET F, Cardinality(G) = k - 1,
               \A g \in G : \A f \in F : f < g => f \in G
        PROVE  \E e \in F : Cardinality(Below(e)) = k - 1
    <3>1. G # F
      BY <1>1, <2>1
    <3>2. PICK e \in F \ G : \A f \in F \ G : e <= f
      BY <3>1, LeastNumber
    <3>3. Below(e) = G
      <4>1. ASSUME NEW f \in F, f < e PROVE f \in G
        BY <3>2, <4>1
      <4>2. ASSUME NEW g \in G PROVE g < e
        BY <2>1, <3>2
      <4>3. QED
        BY <4>1, <4>2
    <3>4. QED
      BY <2>1, <3>3
  <2>2. CASE k = 1
    <3>1. Cardinality({}) = k - 1
      BY <2>2, FS_EmptySet
    <3>2. QED
      BY <1>1, <2>1, <3>1
  <2>3. CASE k > 1
    <3>1. PICK e \in F : Cardinality(Below(e)) = k - 2
      BY <1>3, <2>3
    <3> DEFINE G == Below(e) \cup {e}
    <3>2. IsFiniteSet(Below(e)) /\ e \notin Below(e)
      BY FS_Subset
    <3>3. Cardinality(G) = k - 1
      <4>1. Cardinality(G) = Cardinality(Below(e)) + 1
        BY <3>2, FS_AddElement
      <4>2. QED
        BY <2>3, <3>1, <4>1
    <3>4. G \in SUBSET F /\ \A g \in G : \A f \in F : f < g => f \in G
      OBVIOUS
    <3> HIDE DEF G
    <3>5. QED
      BY <1>1, <2>1, <3>3, <3>4
  <2>4. QED
    BY <2>2, <2>3
<1> HIDE DEF T, N
<1>4. 0 .. N \subseteq T
  BY <1>1, <1>2, <1>3, Induction
<1>5. QED
  BY <1>1, <1>4 DEF T, N

\* A fold of the first n positions, as a function of the positions folded.
Folds(it, n, S, base, Step) ==
  /\ it \in [SUBSET (1 .. n) -> S]
  /\ it[{}] = base
  /\ \A s \in SUBSET (1 .. n) : s # {} => it[s] = Step[Max(s)][it[s \ {Max(s)}]]

LEMMA FoldExists ==
  ASSUME NEW N \in Nat, NEW S, NEW base \in S, NEW Step \in Steps(N, S)
  PROVE  \E it : Folds(it, N, S, base, Step)
<1> DEFINE T == {n \in 0 .. N : \E it : Folds(it, n, S, base, Step)}
<1>1. 0 \in T
  <2> DEFINE it == [s \in SUBSET (1 .. 0) |-> base]
  <2>1. \A s \in SUBSET (1 .. 0) : s = {}
    OBVIOUS
  <2>2. Folds(it, 0, S, base, Step)
    BY <2>1 DEF Folds
  <2> HIDE DEF it
  <2>3. QED
    BY <2>2
<1>2. ASSUME NEW n \in 1 .. N, n - 1 \in T
      PROVE  n \in T
  <2>1. PICK was : Folds(was, n - 1, S, base, Step)
    BY <1>2
  <2>2. \A s \in SUBSET (1 .. n) : n \notin s => s \in SUBSET (1 .. n - 1)
    OBVIOUS
  <2> DEFINE it == [s \in SUBSET (1 .. n) |-> IF n \in s THEN Step[n][was[s \ {n}]] ELSE was[s]]
  <2>3. it \in [SUBSET (1 .. n) -> S]
    BY <2>1, <2>2 DEF Folds, Steps
  <2>4. it[{}] = base
    BY <2>1 DEF Folds
  <2>5. ASSUME NEW s \in SUBSET (1 .. n), s # {}
        PROVE  it[s] = Step[Max(s)][it[s \ {Max(s)}]]
    <3>1. CASE n \in s
      <4>1. Max(s) = n
        BY <3>1, MaxOfPositions
      <4>2. it[s \ {n}] = was[s \ {n}]
        OBVIOUS
      <4>3. QED
        BY <3>1, <4>1, <4>2
    <3>2. CASE n \notin s
      <4>1. was[s] = Step[Max(s)][was[s \ {Max(s)}]]
        BY <2>1, <2>2, <2>5, <3>2 DEF Folds
      <4>2. it[s] = was[s] /\ it[s \ {Max(s)}] = was[s \ {Max(s)}]
        BY <3>2
      <4>3. QED
        BY <4>1, <4>2
    <3>3. QED
      BY <3>1, <3>2
  <2> HIDE DEF it
  <2>6. Folds(it, n, S, base, Step)
    BY <2>3, <2>4, <2>5 DEF Folds
  <2>7. QED
    BY <2>6
<1>3. N \in T
  <2> HIDE DEF T
  <2>1. 0 .. N \subseteq T
    BY <1>1, <1>2, Induction
  <2>2. QED
    BY <2>1
<1>4. QED
  BY <1>3

\* Position after position.
LEMMA FoldLeads ==
  ASSUME NEW N \in Nat, NEW S, NEW base \in S, NEW Step \in Steps(N, S),
         NEW it, Folds(it, N, S, base, Step)
  PROVE  \E f : Leads(f, N, S, base, Step) /\ f[N] = it[1 .. N]
<1> DEFINE f == [n \in 0 .. N |-> it[1 .. n]]
<1>1. \A n \in 0 .. N : 1 .. n \in SUBSET (1 .. N)
  OBVIOUS
<1>2. f \in [0 .. N -> S] /\ f[N] = it[1 .. N]
  BY <1>1 DEF Folds
<1>3. f[0] = base
  <2>1. 1 .. 0 = {}
    OBVIOUS
  <2>2. QED
    BY <2>1 DEF Folds
<1>4. ASSUME NEW n \in 1 .. N
      PROVE  f[n] = Step[n][f[n - 1]]
  <2>1. Max(1 .. n) = n
    BY MaxOfPositions
  <2>2. (1 .. n) \ {n} = 1 .. n - 1
    OBVIOUS
  <2>3. it[1 .. n] = Step[n][it[1 .. n - 1]]
    <3> DEFINE s == 1 .. n
    <3>1. s \in SUBSET (1 .. N) /\ s # {}
      OBVIOUS
    <3>2. Max(s) = n /\ s \ {n} = 1 .. n - 1
      BY <2>1, <2>2
    <3> HIDE DEF s
    <3>3. it[s] = Step[Max(s)][it[s \ {Max(s)}]]
      BY <3>1 DEF Folds
    <3>4. it[s] = Step[n][it[1 .. n - 1]]
      BY <3>2, <3>3
    <3>5. QED
      BY <3>4 DEF s
  <2>4. QED
    BY <2>3
<1> HIDE DEF f
<1>5. QED
  BY <1>2, <1>3, <1>4 DEF Leads

-----------------------------------------------------------------------------
(* The pools, first master by first master, are those of the masters. *)
LEMMA PoolsByMasterAre ==
  ASSUME NEW masters \in SUBSET Nat, IsFiniteSet(masters), NEW dialer,
         NEW used, used = {dialer[e] : e \in masters}
  PROVE  /\ PoolsByMaster(masters, dialer) \in Seq(used)
         /\ \A p \in used : \E i \in 1 .. Len(PoolsByMaster(masters, dialer)) : PoolsByMaster(masters, dialer)[i] = p
<1> DEFINE first == {e \in masters : \A f \in masters : f < e => dialer[f] # dialer[e]}
           Below(e) == {f \in first : f < e}
           At(n) == CHOOSE e \in first : Cardinality(Below(e)) = n - 1
           N == Cardinality(first)
           pools == PoolsByMaster(masters, dialer)
<1>1. pools = [n \in 1 .. N |-> dialer[At(n)]]
  BY DEF PoolsByMaster
<1>2. first \subseteq masters
  OBVIOUS
\* Every pool has a first master.
<1>3. ASSUME NEW e \in masters
      PROVE  \E m \in first : dialer[m] = dialer[e]
  <2> DEFINE same == {f \in masters : dialer[f] = dialer[e]}
  <2>1. same \in SUBSET Nat /\ same # {}
    OBVIOUS
  <2> HIDE DEF same
  <2>2. PICK m \in same : \A f \in same : m <= f
    BY <2>1, LeastNumber
  <2>3. m \in masters /\ dialer[m] = dialer[e] /\ \A f \in masters : f < m => dialer[f] # dialer[m]
    BY <2>2 DEF same
  <2>4. QED
    BY <2>3
<1> HIDE DEF first, pools
<1>4. IsFiniteSet(first) /\ first \in SUBSET Nat
  BY <1>2, FS_Subset
<1>5. N \in Nat
  BY <1>4, FS_CardinalityType
<1>6. ASSUME NEW n \in 1 .. N
      PROVE  At(n) \in first /\ Cardinality(Below(At(n))) = n - 1
  <2>1. \E e \in first : Cardinality(Below(e)) = n - 1
    BY <1>4, Ranks
  <2> HIDE DEF Below
  <2>2. QED
    BY <2>1
\* No two of them have one rank.
<1>7. ASSUME NEW e \in first, NEW f \in first, e < f
      PROVE  Cardinality(Below(e)) # Cardinality(Below(f))
  <2>1. IsFiniteSet(Below(f)) /\ Below(e) \in SUBSET Below(f)
    BY <1>4, <1>7, FS_Subset
  <2>2. Below(e) # Below(f)
    BY <1>4, <1>7
  <2>3. QED
    BY <2>1, <2>2, FS_Subset
<1>8. ASSUME NEW m \in first
      PROVE  \E n \in 1 .. N : At(n) = m
  <2> DEFINE n == Cardinality(Below(m)) + 1
  <2>1. IsFiniteSet(Below(m)) /\ Below(m) \in SUBSET first /\ m \in first \ Below(m)
    BY <1>4, FS_Subset
  <2>2. Cardinality(Below(m)) \in Nat /\ Cardinality(Below(m)) < N
    <3>1. Cardinality(Below(m)) \in Nat
      BY <2>1, FS_CardinalityType
    <3>2. Cardinality(Below(m)) <= N /\ (N = Cardinality(Below(m)) => first = Below(m))
      BY <1>4, <2>1, FS_Subset
    <3>3. QED
      BY <1>5, <2>1, <3>1, <3>2
  <2>3. n \in 1 .. N
    BY <1>5, <2>2
  <2>4. At(n) \in first /\ Cardinality(Below(At(n))) = Cardinality(Below(m))
    <3> HIDE DEF At, Below
    <3>1. At(n) \in first /\ Cardinality(Below(At(n))) = n - 1
      BY <1>6, <2>3
    <3>2. QED
      BY <2>2, <3>1
  <2> HIDE DEF At, n
  <2>5. At(n) = m
    <3> HIDE DEF Below
    <3>1. At(n) \in Nat /\ m \in Nat
      BY <1>4, <2>4
    <3>2. QED
      BY <1>7, <2>4, <3>1
  <2>6. QED
    BY <2>3, <2>5
<1> HIDE DEF At, N
<1>9. \A n \in 1 .. N : dialer[At(n)] \in used
  BY <1>2, <1>6
<1>10. pools \in Seq(used) /\ Len(pools) = N
  <2>1. pools \in [1 .. N -> used]
    BY <1>1, <1>9
  <2>2. QED
    BY <1>5, <2>1
<1>11. \A p \in used : \E n \in 1 .. N : pools[n] = p
  BY <1>1, <1>3, <1>8
<1>12. QED
  BY <1>10, <1>11 DEF pools

\* No two pools have one slot.
IsNumbering(f) ==
  /\ f \in [DOMAIN f -> 0 .. SlotCount - 1]
  /\ \A p, q \in DOMAIN f : f[p] = f[q] => p = q
\* The numberings of some of D.
Numberings(D) == {f \in UNION {[P -> 0 .. SlotCount - 1] : P \in SUBSET D} : IsNumbering(f)}

\* The two rounds of assignSlotIndices.
KeepSlot(prev, f, p) == IF p \in DOMAIN prev /\ prev[p] \in FreeSlots(f) THEN Extend(f, p, prev[p]) ELSE f
NewSlot(f, p) == IF p \in DOMAIN f \/ FreeSlots(f) = {} THEN f ELSE Extend(f, p, Least(FreeSlots(f)))
KeptSlots(prev, pools) == LET Keep(f, p) == KeepSlot(prev, f, p) IN FoldLeft(Keep, <<>>, pools)
NewSlots(kept, pools) == FoldLeft(NewSlot, kept, pools)

LEMMA TwoRounds ==
  ASSUME NEW prev, NEW pools
  PROVE  AssignSlotIndices(prev, pools) = NewSlots(KeptSlots(prev, pools), pools)
BY DEF AssignSlotIndices, NewSlots, KeptSlots, KeepSlot, NewSlot

LEMMA NumberingsAre ==
  ASSUME NEW D, NEW f
  PROVE  f \in Numberings(D) <=> IsNumbering(f) /\ DOMAIN f \subseteq D
<1>1. ASSUME f \in Numberings(D) PROVE IsNumbering(f) /\ DOMAIN f \subseteq D
  BY <1>1 DEF Numberings
<1>2. ASSUME IsNumbering(f), DOMAIN f \subseteq D PROVE f \in Numberings(D)
  BY <1>2 DEF Numberings, IsNumbering
<1>3. QED
  BY <1>1, <1>2

LEMMA NoNumbering == ASSUME NEW D PROVE <<>> \in Numberings(D)
<1>1. DOMAIN <<>> = {}
  OBVIOUS
<1>2. <<>> \in [{} -> 0 .. SlotCount - 1]
  OBVIOUS
<1>3. IsNumbering(<<>>)
  BY <1>1, <1>2 DEF IsNumbering
<1>4. QED
  BY <1>1, <1>3, NumberingsAre

LEMMA ExtendNumbering ==
  ASSUME NEW D, NEW f \in Numberings(D), NEW p \in D \ DOMAIN f, NEW i \in FreeSlots(f)
  PROVE  Extend(f, p, i) \in Numberings(D)
<1>1. IsNumbering(f) /\ DOMAIN f \subseteq D
  BY NumberingsAre
<1>2. i \in 0 .. SlotCount - 1 /\ \A q \in DOMAIN f : f[q] # i
  BY DEF FreeSlots, Range
<1> DEFINE g == Extend(f, p, i)
<1>3. DOMAIN g = DOMAIN f \cup {p} /\ g[p] = i /\ \A q \in DOMAIN f : g[q] = f[q]
  BY DEF Extend
<1>4. g \in [DOMAIN g -> 0 .. SlotCount - 1]
  BY <1>1, <1>2 DEF Extend, IsNumbering
<1> HIDE DEF g
<1>5. IsNumbering(g)
  BY <1>1, <1>2, <1>3, <1>4 DEF IsNumbering
<1>6. QED
  BY <1>1, <1>3, <1>5, NumberingsAre DEF g

LEMMA LeastFree ==
  ASSUME NEW f, FreeSlots(f) # {}
  PROVE  Least(FreeSlots(f)) \in FreeSlots(f)
<1> DEFINE F == FreeSlots(f)
<1>1. F \in SUBSET Nat
  BY SlotsAssumption DEF FreeSlots
<1> HIDE DEF F
<1>2. \E x \in F : \A y \in F : x <= y
  BY <1>1, LeastNumber DEF F
<1>3. Least(F) \in F
  BY <1>2 DEF Least
<1>4. QED
  BY <1>3 DEF F

LEMMA SlotsStay ==
  ASSUME NEW D, NEW p \in D, NEW f \in Numberings(D)
  PROVE  /\ NewSlot(f, p) \in Numberings(D)
         /\ \A q \in DOMAIN f : q \in DOMAIN NewSlot(f, p) /\ NewSlot(f, p)[q] = f[q]
<1>1. CASE p \in DOMAIN f \/ FreeSlots(f) = {}
  BY <1>1 DEF NewSlot
<1>2. CASE ~(p \in DOMAIN f \/ FreeSlots(f) = {})
  <2> DEFINE i == Least(FreeSlots(f))
  <2>1. i \in FreeSlots(f)
    BY <1>2, LeastFree
  <2>2. NewSlot(f, p) = Extend(f, p, i)
    BY <1>2 DEF NewSlot
  <2> HIDE DEF i
  <2>3. Extend(f, p, i) \in Numberings(D)
    BY <1>2, <2>1, ExtendNumbering
  <2>4. \A q \in DOMAIN f : q \in DOMAIN Extend(f, p, i) /\ Extend(f, p, i)[q] = f[q]
    BY <1>2 DEF Extend
  <2>5. QED
    BY <2>2, <2>3, <2>4
<1>3. QED
  BY <1>1, <1>2

Agrees(f, prev) == \A q \in DOMAIN f : q \in DOMAIN prev /\ f[q] = prev[q]

LEMMA SlotIsKept ==
  ASSUME NEW D, NEW p \in D, NEW prev, IsNumbering(prev), NEW f \in Numberings(D), Agrees(f, prev)
  PROVE  /\ KeepSlot(prev, f, p) \in Numberings(D)
         /\ \A q : q \in DOMAIN KeepSlot(prev, f, p) <=> q \in DOMAIN f \/ (q = p /\ p \in DOMAIN prev)
         /\ Agrees(KeepSlot(prev, f, p), prev)
<1> USE DEF Agrees
<1>1. CASE p \in DOMAIN prev \ DOMAIN f
  <2>1. prev[p] \in FreeSlots(f)
    BY <1>1 DEF FreeSlots, Range, IsNumbering
  <2>2. KeepSlot(prev, f, p) = Extend(f, p, prev[p])
    BY <1>1, <2>1 DEF KeepSlot
  <2>3. Extend(f, p, prev[p]) \in Numberings(D)
    BY <1>1, <2>1, ExtendNumbering
  <2>4. /\ DOMAIN Extend(f, p, prev[p]) = DOMAIN f \cup {p}
        /\ \A q \in DOMAIN f \cup {p} : Extend(f, p, prev[p])[q] = prev[q]
    BY DEF Extend
  <2>5. QED
    BY <1>1, <2>2, <2>3, <2>4
<1>2. CASE p \notin DOMAIN prev
  BY <1>2 DEF KeepSlot
<1>3. CASE p \in DOMAIN f
  <2>1. prev[p] \notin FreeSlots(f)
    BY <1>3 DEF FreeSlots, Range
  <2>2. KeepSlot(prev, f, p) = f
    BY <2>1 DEF KeepSlot
  <2>3. QED
    BY <1>3, <2>2
<1>4. QED
  BY <1>1, <1>2, <1>3

LEMMA KeptOneByOne ==
  ASSUME NEW prev, NEW X, NEW s \in Seq(X),
         NEW R, <<>> \in R, \A x \in X : \A a \in R : KeepSlot(prev, a, x) \in R
  PROVE  \E f : /\ f[0] = <<>> /\ KeptSlots(prev, s) = f[Len(s)]
                /\ \A n \in 1 .. Len(s) : f[n] = KeepSlot(prev, f[n - 1], s[n])
<1> DEFINE N == Len(s)
           Add(a, x) == KeepSlot(prev, a, x)
           Step == [n \in 1 .. N |-> [a \in R |-> Add(a, s[n])]]
           Body(it) == [t \in SUBSET DOMAIN s |->
                          IF t = {} THEN <<>> ELSE Add(it[t \ {Max(t)}], s[Max(t)])]
           g == CHOOSE it : it = Body(it)
<1>1. N \in Nat /\ DOMAIN s = 1 .. N /\ <<>> \in R
  OBVIOUS
<1>2. \A n \in 1 .. N : \A a \in R : Add(a, s[n]) \in R
  OBVIOUS
<1>3. Step \in Steps(N, R)
  BY <1>2 DEF Steps
<1>4. \A n \in 1 .. N : \A a \in R : Step[n][a] = Add(a, s[n])
  OBVIOUS
<1> HIDE DEF N, Add, Step
<1>5. PICK it : Folds(it, N, R, <<>>, Step)
  BY <1>1, <1>3, FoldExists
<1>6. it = Body(it)
  <2>1. it \in [SUBSET (1 .. N) -> R] /\ it[{}] = <<>>
    BY <1>5 DEF Folds
  <2>2. ASSUME NEW t \in SUBSET (1 .. N), t # {}
        PROVE  it[t] = Add(it[t \ {Max(t)}], s[Max(t)])
    <3>1. Max(t) \in 1 .. N
      BY <1>1, <2>2, MaxIsIn
    <3>2. it[t \ {Max(t)}] \in R
      BY <2>1
    <3>3. it[t] = Step[Max(t)][it[t \ {Max(t)}]]
      BY <1>5, <2>2 DEF Folds
    <3>4. QED
      BY <1>4, <3>1, <3>2, <3>3
  <2>3. QED
    BY <1>1, <2>1, <2>2
<1>7. g = Body(g)
  BY <1>6
<1>8. KeptSlots(prev, s) = g[DOMAIN s]
  BY DEF KeptSlots, FoldLeft, MapThenFoldSet, Add
<1> HIDE DEF g
<1> DEFINE f == [n \in 0 .. N |-> g[1 .. n]]
<1>9. f[0] = <<>>
  <2>1. 1 .. 0 = {} /\ {} \in SUBSET DOMAIN s /\ 0 \in 0 .. N
    BY <1>1
  <2>2. g[{}] = <<>>
    BY <1>7, <2>1
  <2>3. QED
    BY <2>1, <2>2
<1>10. ASSUME NEW n \in 1 .. N
       PROVE  f[n] = Add(f[n - 1], s[n])
  <2> DEFINE t == 1 .. n
  <2>0. (1 .. n) \ {n} = 1 .. n - 1
    OBVIOUS
  <2>1. t \in SUBSET (1 .. N) /\ n \in t
    BY <1>1
  <2>2. Max(t) = n
    BY <1>1, <2>1, MaxOfPositions
  <2>3. t \ {n} = 1 .. n - 1
    BY <2>0
  <2> HIDE DEF t
  <2>4. g[t] = Add(g[t \ {Max(t)}], s[Max(t)])
    BY <1>1, <1>7, <2>1
  <2>5. g[t] = Add(g[1 .. n - 1], s[n])
    BY <2>2, <2>3, <2>4
  <2>6. QED
    BY <1>1, <2>5 DEF t
<1>11. KeptSlots(prev, s) = f[N]
  BY <1>1, <1>8
<1> HIDE DEF f
<1>12. QED
  BY <1>9, <1>10, <1>11 DEF Add, N

LEMMA NewOneByOne ==
  ASSUME NEW kept, NEW X, NEW s \in Seq(X),
         NEW R, kept \in R, \A x \in X : \A a \in R : NewSlot(a, x) \in R
  PROVE  \E f : /\ f[0] = kept /\ NewSlots(kept, s) = f[Len(s)]
                /\ \A n \in 1 .. Len(s) : f[n] = NewSlot(f[n - 1], s[n])
<1> DEFINE N == Len(s)
           Add(a, x) == NewSlot(a, x)
           Step == [n \in 1 .. N |-> [a \in R |-> Add(a, s[n])]]
           Body(it) == [t \in SUBSET DOMAIN s |->
                          IF t = {} THEN kept ELSE Add(it[t \ {Max(t)}], s[Max(t)])]
           g == CHOOSE it : it = Body(it)
<1>1. N \in Nat /\ DOMAIN s = 1 .. N /\ kept \in R
  OBVIOUS
<1>2. \A n \in 1 .. N : \A a \in R : Add(a, s[n]) \in R
  OBVIOUS
<1>3. Step \in Steps(N, R)
  BY <1>2 DEF Steps
<1>4. \A n \in 1 .. N : \A a \in R : Step[n][a] = Add(a, s[n])
  OBVIOUS
<1> HIDE DEF N, Add, Step
<1>5. PICK it : Folds(it, N, R, kept, Step)
  BY <1>1, <1>3, FoldExists
<1>6. it = Body(it)
  <2>1. it \in [SUBSET (1 .. N) -> R] /\ it[{}] = kept
    BY <1>5 DEF Folds
  <2>2. ASSUME NEW t \in SUBSET (1 .. N), t # {}
        PROVE  it[t] = Add(it[t \ {Max(t)}], s[Max(t)])
    <3>1. Max(t) \in 1 .. N
      BY <1>1, <2>2, MaxIsIn
    <3>2. it[t \ {Max(t)}] \in R
      BY <2>1
    <3>3. it[t] = Step[Max(t)][it[t \ {Max(t)}]]
      BY <1>5, <2>2 DEF Folds
    <3>4. QED
      BY <1>4, <3>1, <3>2, <3>3
  <2>3. QED
    BY <1>1, <2>1, <2>2
<1>7. g = Body(g)
  BY <1>6
<1>8. NewSlots(kept, s) = g[DOMAIN s]
  BY DEF NewSlots, FoldLeft, MapThenFoldSet, Add
<1> HIDE DEF g
<1> DEFINE f == [n \in 0 .. N |-> g[1 .. n]]
<1>9. f[0] = kept
  <2>1. 1 .. 0 = {} /\ {} \in SUBSET DOMAIN s /\ 0 \in 0 .. N
    BY <1>1
  <2>2. g[{}] = kept
    BY <1>7, <2>1
  <2>3. QED
    BY <2>1, <2>2
<1>10. ASSUME NEW n \in 1 .. N
       PROVE  f[n] = Add(f[n - 1], s[n])
  <2> DEFINE t == 1 .. n
  <2>0. (1 .. n) \ {n} = 1 .. n - 1
    OBVIOUS
  <2>1. t \in SUBSET (1 .. N) /\ n \in t
    BY <1>1
  <2>2. Max(t) = n
    BY <1>1, <2>1, MaxOfPositions
  <2>3. t \ {n} = 1 .. n - 1
    BY <2>0
  <2> HIDE DEF t
  <2>4. g[t] = Add(g[t \ {Max(t)}], s[Max(t)])
    BY <1>1, <1>7, <2>1
  <2>5. g[t] = Add(g[1 .. n - 1], s[n])
    BY <2>2, <2>3, <2>4
  <2>6. QED
    BY <1>1, <2>5 DEF t
<1>11. NewSlots(kept, s) = f[N]
  BY <1>1, <1>8
<1> HIDE DEF f
<1>12. QED
  BY <1>9, <1>10, <1>11 DEF Add, N

LEMMA KeptAre ==
  ASSUME NEW prev, IsNumbering(prev), NEW used, NEW pools \in Seq(used),
         used = {pools[i] : i \in 1 .. Len(pools)}
  PROVE  LET kept == KeptSlots(prev, pools)
         IN  /\ kept \in Numberings(used) /\ DOMAIN kept = used \cap DOMAIN prev
             /\ \A p \in DOMAIN kept : kept[p] = prev[p]
<1> DEFINE N == Len(pools)
           R == {f \in Numberings(used) : Agrees(f, prev)}
<1>1. N \in Nat /\ pools \in Seq(used)
  OBVIOUS
<1>2. <<>> \in R
  BY NoNumbering DEF Agrees
<1> HIDE DEF R
<1>3. ASSUME NEW p \in used, NEW f \in R
      PROVE  /\ KeepSlot(prev, f, p) \in R
             /\ \A q : q \in DOMAIN KeepSlot(prev, f, p) <=> q \in DOMAIN f \/ (q = p /\ p \in DOMAIN prev)
  <2>1. f \in Numberings(used) /\ Agrees(f, prev)
    BY DEF R
  <2>2. KeepSlot(prev, f, p) \in Numberings(used)
    BY <2>1, SlotIsKept
  <2>3. Agrees(KeepSlot(prev, f, p), prev)
    BY <2>1, SlotIsKept
  <2>4. \A q : q \in DOMAIN KeepSlot(prev, f, p) <=> q \in DOMAIN f \/ (q = p /\ p \in DOMAIN prev)
    BY <2>1, SlotIsKept
  <2>5. QED
    BY <2>2, <2>3, <2>4 DEF R
<1>4. PICK f : /\ f[0] = <<>> /\ KeptSlots(prev, pools) = f[N]
               /\ \A n \in 1 .. N : f[n] = KeepSlot(prev, f[n - 1], pools[n])
  <2>1. \A p \in used : \A f \in R : KeepSlot(prev, f, p) \in R
    BY <1>3
  <2>2. QED
    BY <1>1, <1>2, <2>1, KeptOneByOne, SMTT(60)
<1> DEFINE T == {n \in 0 .. N : f[n] \in R /\ DOMAIN f[n] = {pools[i] : i \in 1 .. n} \cap DOMAIN prev}
<1>5. 0 \in T
  BY <1>1, <1>2, <1>4
<1>6. ASSUME NEW n \in 1 .. N, n - 1 \in T
      PROVE  n \in T
  <2>1. pools[n] \in used /\ f[n - 1] \in R
    BY <1>6
  <2>2. f[n] = KeepSlot(prev, f[n - 1], pools[n])
    BY <1>4
  <2>3. f[n] \in R
    BY <1>3, <2>1, <2>2
  <2>4. \A q : q \in DOMAIN f[n] <=> q \in DOMAIN f[n - 1] \/ (q = pools[n] /\ pools[n] \in DOMAIN prev)
    BY <1>3, <2>1, <2>2
  <2>5. {pools[i] : i \in 1 .. n} = {pools[i] : i \in 1 .. n - 1} \cup {pools[n]}
    BY <1>1
  <2>6. DOMAIN f[n - 1] = {pools[i] : i \in 1 .. n - 1} \cap DOMAIN prev
    BY <1>6
  <2>7. DOMAIN f[n] = {pools[i] : i \in 1 .. n} \cap DOMAIN prev
    BY <2>4, <2>5, <2>6
  <2>8. QED
    BY <2>3, <2>7
<1> HIDE DEF T
<1>7. 0 .. N \subseteq T
  BY <1>1, <1>5, <1>6, Induction
<1>8. f[N] \in R /\ DOMAIN f[N] = used \cap DOMAIN prev
  BY <1>1, <1>7 DEF T
<1>9. QED
  BY <1>4, <1>8 DEF R, Agrees

LEMMA NewAre ==
  ASSUME NEW D, NEW pools \in Seq(D), NEW kept \in Numberings(D)
  PROVE  LET slots == NewSlots(kept, pools)
         IN  /\ slots \in Numberings(D)
             /\ \A p \in DOMAIN kept : p \in DOMAIN slots /\ slots[p] = kept[p]
<1> DEFINE N == Len(pools)
           R == Numberings(D)
<1>1. N \in Nat
  OBVIOUS
<1>2. \A p \in D : \A f \in R : NewSlot(f, p) \in R
  BY SlotsStay
<1> HIDE DEF R
<1>3. kept \in R
  BY DEF R
<1>4. PICK f : /\ f[0] = kept /\ NewSlots(kept, pools) = f[N]
               /\ \A n \in 1 .. N : f[n] = NewSlot(f[n - 1], pools[n])
  BY <1>2, <1>3, NewOneByOne
<1> DEFINE T == {n \in 0 .. N : f[n] \in R /\ \A p \in DOMAIN kept : p \in DOMAIN f[n] /\ f[n][p] = kept[p]}
<1>5. 0 \in T
  BY <1>1, <1>3, <1>4
<1>6. ASSUME NEW n \in 1 .. N, n - 1 \in T
      PROVE  n \in T
  <2>1. /\ pools[n] \in D /\ f[n - 1] \in R
        /\ \A p \in DOMAIN kept : p \in DOMAIN f[n - 1] /\ f[n - 1][p] = kept[p]
    BY <1>6
  <2>2. f[n] = NewSlot(f[n - 1], pools[n])
    BY <1>4
  <2>3. f[n] \in R /\ \A q \in DOMAIN f[n - 1] : q \in DOMAIN f[n] /\ f[n][q] = f[n - 1][q]
    BY <2>1, <2>2, SlotsStay DEF R
  <2>4. QED
    BY <2>1, <2>3
<1> HIDE DEF T
<1>7. 0 .. N \subseteq T
  BY <1>1, <1>5, <1>6, Induction
<1>8. QED
  BY <1>1, <1>4, <1>7 DEF T, R

(* What assignSlotIndices assigns: no slot twice, and a pool that had a     *)
(* slot has that slot.                                                      *)
LEMMA SlotsAssigned ==
  ASSUME NEW prev, IsNumbering(prev), NEW D, NEW pools \in Seq(D)
  PROVE  LET slots == AssignSlotIndices(prev, pools)
         IN  /\ IsNumbering(slots) /\ DOMAIN slots \subseteq D
             /\ \A p \in DOMAIN prev \cap DOMAIN slots : slots[p] = prev[p]
             /\ \A i \in 1 .. Len(pools) : pools[i] \in DOMAIN prev => pools[i] \in DOMAIN slots
<1> DEFINE used == {pools[i] : i \in 1 .. Len(pools)}
           kept == KeptSlots(prev, pools)
           slots == NewSlots(kept, pools)
<1>1. pools \in Seq(used) /\ used \subseteq D
  OBVIOUS
<1>2. used = {pools[i] : i \in 1 .. Len(pools)}
  OBVIOUS
<1> HIDE DEF used, slots
<1>0. /\ kept \in Numberings(used) /\ DOMAIN kept = used \cap DOMAIN prev
      /\ \A p \in DOMAIN kept : kept[p] = prev[p]
  BY <1>1, <1>2, KeptAre
<1> HIDE DEF kept
<1>3. /\ slots \in Numberings(used)
      /\ \A p \in DOMAIN kept : p \in DOMAIN slots /\ slots[p] = kept[p]
  BY <1>0, <1>1, NewAre DEF slots
<1>4. IsNumbering(slots) /\ DOMAIN slots \subseteq used
  BY <1>3, NumberingsAre
<1>5. AssignSlotIndices(prev, pools) = slots
  BY TwoRounds DEF slots, kept
<1>6. \A i \in 1 .. Len(pools) : pools[i] \in DOMAIN prev => pools[i] \in DOMAIN slots
  BY <1>0, <1>2, <1>3
<1>7. QED
  BY <1>0, <1>1, <1>3, <1>4, <1>5, <1>6
=============================================================================
