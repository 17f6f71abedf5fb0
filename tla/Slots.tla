------------------------------- MODULE Slots -------------------------------
(***************************************************************************)
(* The node pools (daemon/xray.go): the order in which resolveDialerSlots  *)
(* meets them, and assignSlotIndices, which numbers them.                  *)
(***************************************************************************)
EXTENDS Integers, Sequences, FiniteSets, SequencesExt

CONSTANT SlotCount  \* the number of slots

ASSUME SlotsAssumption == SlotCount \in Nat

\* The pools of masters numbered in the order of their names, by first master.
PoolsByMaster(masters, dialer) ==
  LET first == {e \in masters : \A f \in masters : f < e => dialer[f] # dialer[e]}
      At(n) == CHOOSE e \in first : Cardinality({f \in first : f < e}) = n - 1
  IN  [n \in 1 .. Cardinality(first) |-> dialer[At(n)]]

Extend(f, k, v) == [x \in DOMAIN f \cup {k} |-> IF x = k THEN v ELSE f[x]]
FreeSlots(f) == (0 .. SlotCount - 1) \ Range(f)
Least(S) == CHOOSE x \in S : \A y \in S : x <= y

\* Mutant of AssignSlotIndices: every pool is numbered anew.
AssignSlotIndicesAfresh(prev, pools) ==
  LET New(f, p) == IF FreeSlots(f) = {} THEN f ELSE Extend(f, p, Least(FreeSlots(f)))
  IN  FoldLeft(New, <<>>, pools)

\* assignSlotIndices: a pool keeps its index, a new one takes the lowest that
\* is free, and one that finds none is not in the result.
AssignSlotIndices(prev, pools) ==
  LET Keep(f, p) ==
        IF p \in DOMAIN prev /\ prev[p] \in FreeSlots(f) THEN Extend(f, p, prev[p]) ELSE f
      New(f, p) ==
        IF p \in DOMAIN f \/ FreeSlots(f) = {} THEN f ELSE Extend(f, p, Least(FreeSlots(f)))
  IN  FoldLeft(New, FoldLeft(Keep, <<>>, pools), pools)
=============================================================================
