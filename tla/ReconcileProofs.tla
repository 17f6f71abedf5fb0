-------------------------- MODULE ReconcileProofs --------------------------
(***************************************************************************)
(* Proofs about Reconcile and the LiveApply and XrayConfig under it, for   *)
(* any stores, any number of pools and slots, any configs Generate makes.  *)
(*                                                                         *)
(* LiveApply's inductive invariant IInv says, stage by stage, which of the *)
(* new config's objects the process already has (Has), which of the        *)
(* removed ones it no longer has, and that anything else in it is from one *)
(* of the two configs.  NoDangling rests on three facts about a pair of    *)
(* configs: a dialer has no dialer, a dialer is only there with its owner, *)
(* and the owner of a dialer that is replaced is itself taken down.        *)
(*                                                                         *)
(* RecInv adds where the two configs were made from: every config Generate *)
(* makes is one LiveApply can be given (WellFormed) and keeps its masters  *)
(* behind slots (Hides).  Served adds that slotIdx numbers the pools, that *)
(* only what xray refuses is rejected, and that without an error the       *)
(* config is the one the store makes.  The last two need what the folds    *)
(* assignSlotIndices and Only compute, by induction over the pools and the *)
(* ranking (Lemmas).                                                       *)
(***************************************************************************)
EXTENDS Reconcile, Lemmas

USE TagsAssumption

-----------------------------------------------------------------------------
(* Facts about two configs. *)

Changed(old, new) == RmOut(old, new) \cap AddOut(old, new)
Gone(old, new) == RmOut(old, new) \ AddOut(old, new)
ChangedIn(old, new) == RmIn(old, new) \cap AddIn(old, new)
GoneIn(old, new) == RmIn(old, new) \ AddIn(old, new)

\* An outbound that dials through another is an entry's, and what it dials
\* through is there and is not an entry's.
LEMMA DialerIsPlain ==
  ASSUME NEW c, WellFormed(c), NEW t \in DOMAIN c.outs, Dialer(c, t) # NoTag
  PROVE  /\ t \in Masters
         /\ Dialer(c, t) \in DOMAIN c.outs
         /\ Dialer(c, t) \notin Masters
         /\ Dialer(c, t) = Block \/ Dialer(c, t) = DialerOf[t]
<1>1. WellFormed(c)
  OBVIOUS
<1>2. QED
  BY <1>1 DEF WellFormed

\* The blackhole is never touched.
LEMMA BlockStays ==
  ASSUME NEW old, WellFormed(old), NEW new, WellFormed(new)
  PROVE  Block \notin RmOut(old, new) /\ Block \notin AddOut(old, new)
<1>1. WellFormed(old) /\ WellFormed(new)
  OBVIOUS
<1>2. Block \notin Differing(old.outs, new.outs) /\ Block \notin Differing(new.outs, old.outs)
  BY <1>1 DEF WellFormed, Differing
<1>3. Block \notin Moved(old, new)
  BY DialerIsPlain DEF Moved
<1>4. QED
  BY <1>2, <1>3 DEF RmOut, AddOut

\* What is not an entry's is removed after the entries' outbounds and added
\* before them.
LEMMA PlainIsNotDependent ==
  ASSUME NEW old, WellFormed(old), NEW new, WellFormed(new), NEW t, t \notin Masters
  PROVE  ~Dependent(old, new, t)
BY DialerIsPlain DEF Dependent

\* Whoever dials through an outbound that is replaced is replaced as well.
LEMMA OwnerMoves ==
  ASSUME NEW old, WellFormed(old), NEW new, WellFormed(new),
         NEW t \in Changed(old, new), t # NoTag, NEW u,
         \/ u \in DOMAIN old.outs /\ Dialer(old, u) = t
         \/ u \in DOMAIN new.outs /\ Dialer(new, u) = t
  PROVE  /\ u \in Changed(old, new)
         /\ t \notin Masters
         /\ Dependent(old, new, u)
<1>1. WellFormed(old) /\ WellFormed(new)
  OBVIOUS
<1>2. t # Block
  BY BlockStays DEF Changed
<1>3. u \in Masters /\ t \notin Masters /\ t = DialerOf[u]
  BY <1>2, DialerIsPlain
<1>4. t \notin Moved(old, new)
  BY <1>3, DialerIsPlain DEF Moved
<1>5. t \in Differing(old.outs, new.outs) /\ t \in Differing(new.outs, old.outs)
  BY <1>4 DEF Changed, RmOut, AddOut
<1>6. u \in DOMAIN old.outs /\ u \in DOMAIN new.outs
  BY <1>1, <1>3, <1>5 DEF WellFormed, Differing
<1>7. Dependent(old, new, u)
  BY <1>6 DEF Dependent
<1>8. u \in Changed(old, new)
  <2>1. CASE old.outs[u] = new.outs[u]
    <3>1. Dialer(new, u) = t
      BY <2>1 DEF Dialer
    <3>2. u \in Moved(old, new)
      BY <3>1, <1>5, <1>6 DEF Moved
    <3>3. QED
      BY <3>2 DEF Changed, RmOut, AddOut
  <2>2. CASE old.outs[u] # new.outs[u]
    BY <2>2, <1>6 DEF Changed, RmOut, AddOut, Differing
  <2>3. QED
    BY <2>1, <2>2
<1>9. QED
  BY <1>3, <1>7, <1>8

\* What is added is in the new config, what is only removed is not.
LEMMA AddedIsNew ==
  ASSUME NEW old, NEW new
  PROVE  /\ AddOut(old, new) \subseteq DOMAIN new.outs
         /\ AddIn(old, new) \subseteq DOMAIN new.ins
         /\ \A t \in Gone(old, new) : t \in DOMAIN old.outs /\ t \notin DOMAIN new.outs
         /\ \A t \in DOMAIN old.outs : t \notin DOMAIN new.outs => t \in Gone(old, new)
         /\ \A i \in GoneIn(old, new) : i \notin DOMAIN new.ins
         /\ \A i \in DOMAIN old.ins : i \notin DOMAIN new.ins => i \in GoneIn(old, new)
<1>1. AddOut(old, new) \subseteq DOMAIN new.outs
  BY DEF AddOut, Differing, Moved
<1>2. AddIn(old, new) \subseteq DOMAIN new.ins
  BY DEF AddIn, Differing
<1>3. \A t \in Gone(old, new) : t \in DOMAIN old.outs /\ t \notin DOMAIN new.outs
  BY DEF Gone, RmOut, AddOut, Differing, Moved
<1>4. \A t \in DOMAIN old.outs : t \notin DOMAIN new.outs => t \in Gone(old, new)
  BY DEF Gone, RmOut, AddOut, Differing, Moved
<1>5. \A i \in GoneIn(old, new) : i \notin DOMAIN new.ins
  BY DEF GoneIn, RmIn, AddIn, Differing
<1>6. \A i \in DOMAIN old.ins : i \notin DOMAIN new.ins => i \in GoneIn(old, new)
  BY DEF GoneIn, RmIn, AddIn, Differing
<1>7. QED
  BY <1>1, <1>2, <1>3, <1>4, <1>5, <1>6

\* What is neither removed nor replaced is the same in both.
LEMMA KeptIsSame ==
  ASSUME NEW old, NEW new
  PROVE  /\ \A t \in DOMAIN old.outs \ RmOut(old, new) :
              /\ t \in DOMAIN new.outs
              /\ new.outs[t] = old.outs[t]
              /\ t \notin AddOut(old, new)
         /\ \A i \in DOMAIN old.ins \ RmIn(old, new) :
              /\ i \in DOMAIN new.ins
              /\ new.ins[i] = old.ins[i]
              /\ i \notin AddIn(old, new)
<1>1. \A t \in DOMAIN old.outs \ RmOut(old, new) :
        t \in DOMAIN new.outs /\ new.outs[t] = old.outs[t] /\ t \notin AddOut(old, new)
  BY DEF RmOut, AddOut, Differing
<1>2. \A i \in DOMAIN old.ins \ RmIn(old, new) :
        i \in DOMAIN new.ins /\ new.ins[i] = old.ins[i] /\ i \notin AddIn(old, new)
  BY DEF RmIn, AddIn, Differing
<1>3. QED
  BY <1>1, <1>2

-----------------------------------------------------------------------------
(* The inductive invariant. *)

Has(f, g, t) == t \in DOMAIN f /\ f[t] = g[t]

\* The process is a config, and which one when nothing is being applied.
ProcInv ==
  /\ WellFormed(running) /\ WellFormed(want)
  /\ file = want
  /\ IsConfig(proc)
  /\ proc.first = Block
  /\ stage = "idle" => running = want /\ proc = want
  /\ stage \in Stages => ~RestartNeeded(running, want) /\ proc.fixed = want.fixed
  /\ stage \in {"rmiGone", "rmoGone"} => proc.routing = want.routing

TodoInv ==
  /\ stage \in Stages \cup {"idle", "restart"}
  /\ fresh \in BOOLEAN
  /\ todo \subseteq StageTodo(stage, running, want)
  /\ (fresh /\ stage # "ado") => todo = StageTodo(stage, running, want)

AfterAdo == {"rmiChanged", "adi", "adrules", "rmiGone", "rmoGone"}
AfterAdi == {"adrules", "rmiGone", "rmoGone"}

OutsInv ==
  /\ \A t \in DOMAIN proc.outs : Has(running.outs, proc.outs, t) \/ Has(want.outs, proc.outs, t)
  /\ stage = "rmoChanged" =>
       /\ \A t \in DOMAIN want.outs \ AddOut(running, want) : Has(proc.outs, want.outs, t)
       /\ \A t \in Changed(running, want) \ todo : t \notin DOMAIN proc.outs
  /\ stage = "ado" => \A t \in DOMAIN want.outs \ todo : Has(proc.outs, want.outs, t)
  /\ stage \in AfterAdo => \A t \in DOMAIN want.outs : Has(proc.outs, want.outs, t)
  /\ stage = "rmoGone" => \A t \in Gone(running, want) \ todo : t \notin DOMAIN proc.outs

InsInv ==
  /\ \A i \in DOMAIN proc.ins : Has(running.ins, proc.ins, i) \/ Has(want.ins, proc.ins, i)
  /\ stage \in {"rmoChanged", "ado", "rmiChanged"} =>
       \A i \in DOMAIN want.ins \ AddIn(running, want) : Has(proc.ins, want.ins, i)
  /\ stage = "adi" => \A i \in DOMAIN want.ins \ todo : Has(proc.ins, want.ins, i)
  /\ stage \in AfterAdi => \A i \in DOMAIN want.ins : Has(proc.ins, want.ins, i)
  /\ stage = "rmiGone" => \A i \in GoneIn(running, want) \ todo : i \notin DOMAIN proc.ins
  /\ stage = "rmoGone" => \A i \in GoneIn(running, want) : i \notin DOMAIN proc.ins

SessionsInv ==
  \A s \in sessions :
    /\ s[1] \notin SlotIns
    /\ stage # "restart" => s[2] \in Creds(want, s[1])

IInv == ProcInv /\ TodoInv /\ OutsInv /\ InsInv /\ NoDangling /\ SessionsInv

-----------------------------------------------------------------------------
(* The calls, one object at a time. *)

LEMMA WithoutIsFcn ==
  ASSUME NEW f, NEW t
  PROVE  Without(f, t) = [x \in DOMAIN Without(f, t) |-> Without(f, t)[x]]
BY DEF Without

LEMMA WithIsFcn ==
  ASSUME NEW f, NEW t, NEW v
  PROVE  With(f, t, v) = [x \in DOMAIN With(f, t, v) |-> With(f, t, v)[x]]
BY DEF With

\* Replacing one section of a config leaves the others.
LEMMA SetOuts ==
  ASSUME IsConfig(proc), NEW f, f = [x \in DOMAIN f |-> f[x]], proc' = [proc EXCEPT !.outs = f]
  PROVE  /\ IsConfig(proc')
         /\ proc'.outs = f /\ proc'.ins = proc.ins
         /\ proc'.fixed = proc.fixed /\ proc'.first = proc.first /\ proc'.routing = proc.routing
BY DEF IsConfig

LEMMA SetIns ==
  ASSUME IsConfig(proc), NEW f, f = [x \in DOMAIN f |-> f[x]], proc' = [proc EXCEPT !.ins = f]
  PROVE  /\ IsConfig(proc')
         /\ proc'.ins = f /\ proc'.outs = proc.outs
         /\ proc'.fixed = proc.fixed /\ proc'.first = proc.first /\ proc'.routing = proc.routing
BY DEF IsConfig

LEMMA SetRouting ==
  ASSUME IsConfig(proc), NEW r, proc' = [proc EXCEPT !.routing = r]
  PROVE  /\ IsConfig(proc')
         /\ proc'.routing = r /\ proc'.outs = proc.outs /\ proc'.ins = proc.ins
         /\ proc'.fixed = proc.fixed /\ proc'.first = proc.first
BY DEF IsConfig

\* A process on a config of Configs satisfies all that is said of its objects.
LEMMA ConfigIsSafe ==
  ASSUME NEW c, WellFormed(c)
  PROVE  /\ IsConfig(c)
         /\ c.first = Block
         /\ \A t \in DOMAIN c.outs : c.outs[t].dialer # NoTag => c.outs[t].dialer \in DOMAIN c.outs
<1>1. WellFormed(c)
  OBVIOUS
<1>2. QED
  BY <1>1, DialerIsPlain DEF WellFormed, Dialer

LEMMA StageTodoFacts ==
  ASSUME NEW old, NEW new
  PROVE  /\ StageTodo("rmoChanged", old, new) = Changed(old, new)
         /\ StageTodo("ado", old, new) = AddOut(old, new)
         /\ StageTodo("rmiChanged", old, new) = ChangedIn(old, new)
         /\ StageTodo("adi", old, new) = AddIn(old, new)
         /\ StageTodo("adrules", old, new) = {}
         /\ StageTodo("rmiGone", old, new) = GoneIn(old, new)
         /\ StageTodo("rmoGone", old, new) = Gone(old, new)
         /\ StageTodo("idle", old, new) = {}
         /\ StageTodo("restart", old, new) = {}
BY DEF StageTodo, Changed, ChangedIn, Gone, GoneIn

-----------------------------------------------------------------------------
(* The steps. *)

\* Idle on some config, nothing connected.
IdleOn(c) ==
  /\ running = c /\ want = c /\ file = c /\ proc = c
  /\ stage = "idle" /\ todo = {} /\ fresh = TRUE /\ sessions = {}

LEMMA WellFormedStarts ==
  ASSUME NEW c, WellFormed(c), IdleOn(c)
  PROVE  IInv
<1> USE DEF IdleOn
<1>1. ProcInv
  BY ConfigIsSafe DEF ProcInv, Stages
<1>2. TodoInv
  BY StageTodoFacts DEF TodoInv
<1>3. OutsInv
  BY DEF OutsInv, Has, AfterAdo
<1>4. InsInv
  BY DEF InsInv, Has, AfterAdi
<1>5. NoDangling
  BY ConfigIsSafe DEF NoDangling
<1>6. SessionsInv
  BY DEF SessionsInv
<1>7. QED
  BY <1>1, <1>2, <1>3, <1>4, <1>5, <1>6 DEF IInv

\* A process that runs all of the new config, as after a respawn, is right
\* whatever is still to be called.
LEMMA OnWant ==
  ASSUME WellFormed(running'), WellFormed(want'), proc' = want',
         stage' \in {"rmoChanged", "rmiGone", "rmoGone"} => todo' = StageTodo(stage, running, want)'
  PROVE  OutsInv' /\ InsInv' /\ NoDangling'
<1>1. OutsInv'
  <2>1. stage' = "rmoChanged" => Changed(running, want)' \ todo' = {}
    BY StageTodoFacts
  <2>2. stage' = "rmoGone" => Gone(running, want)' \ todo' = {}
    BY StageTodoFacts
  <2>3. QED
    BY <2>1, <2>2 DEF OutsInv, Has
<1>2. InsInv'
  <2>1. stage' = "rmiGone" => GoneIn(running, want)' \ todo' = {}
    BY StageTodoFacts
  <2>2. \A i \in GoneIn(running, want)' : i \notin DOMAIN want'.ins
    BY AddedIsNew
  <2>3. QED
    BY <2>1, <2>2 DEF InsInv, Has
<1>3. NoDangling'
  BY ConfigIsSafe DEF NoDangling
<1>4. QED
  BY <1>1, <1>2, <1>3

\* A reconcile starts from a process that runs the old config.
LEMMA ApplyKeeps ==
  ASSUME IInv, NEW c, WellFormed(c), Apply(c)
  PROVE  IInv'
<1> USE DEF IInv, Apply
<1>0. running = want /\ proc = running /\ WellFormed(running) /\ want' = c /\ running' = running
  BY DEF ProcInv
<1>1. CASE stage' = "restart"
  <2>1. ProcInv' /\ TodoInv'
    BY <1>0, <1>1, StageTodoFacts DEF ProcInv, TodoInv, Stages
  <2>2. OutsInv' /\ InsInv'
    BY <1>0, <1>1 DEF OutsInv, InsInv, Has, AfterAdo, AfterAdi
  <2>3. NoDangling' /\ SessionsInv'
    BY <1>1 DEF NoDangling, SessionsInv
  <2>4. QED
    BY <2>1, <2>2, <2>3
<1>2. CASE /\ ~RestartNeeded(running, c)
           /\ stage' = "rmoChanged"
           /\ todo' = StageTodo("rmoChanged", running, c)
  <2>1. ProcInv'
    BY <1>0, <1>2 DEF ProcInv, Stages, RestartNeeded
  <2>2. TodoInv'
    BY <1>0, <1>2 DEF TodoInv, Stages
  <2>3. OutsInv'
    <3>1. todo' = Changed(running, c)
      BY <1>2, StageTodoFacts
    <3>2. \A t \in DOMAIN c.outs \ AddOut(running, c) : Has(running.outs, c.outs, t)
      BY DEF AddOut, Differing, Has
    <3>3. QED
      BY <1>0, <1>2, <3>1, <3>2 DEF OutsInv, Has, AfterAdo
  <2>4. InsInv'
    <3>1. \A i \in DOMAIN c.ins \ AddIn(running, c) : Has(running.ins, c.ins, i)
      BY DEF AddIn, Differing, Has
    <3>2. QED
      BY <1>0, <1>2, <3>1 DEF InsInv, Has, AfterAdi
  <2>5. NoDangling'
    BY DEF NoDangling
  <2>6. SessionsInv'
    <3> SUFFICES ASSUME NEW s \in sessions
                 PROVE  s[1] \notin SlotIns /\ s[2] \in Creds(c, s[1])
      BY <1>0, <1>2 DEF SessionsInv
    <3>1. s[1] \notin SlotIns /\ s[2] \in Creds(running, s[1])
      BY <1>0 DEF SessionsInv
    <3>2. s[1] \in DOMAIN running.ins \ SlotIns /\ s[2] \in running.ins[s[1]].creds
      BY <3>1 DEF Creds
    <3>3. running.ins[s[1]].creds \subseteq Creds(c, s[1])
      BY <3>2, <1>2 DEF RestartNeeded, Revokes
    <3>4. QED
      BY <3>1, <3>2, <3>3
  <2>7. QED
    BY <2>1, <2>2, <2>3, <2>4, <2>5, <2>6
<1>3. QED
  BY <1>1, <1>2

\* The order of a removal never leaves a master without its dialer: who dials
\* through t is to be removed as well, and goes first.
LEMMA NobodyDialsThrough ==
  ASSUME IInv, NEW t, Rmo(t), NEW u \in DOMAIN proc.outs, u # t
  PROVE  proc.outs[u].dialer # NoTag => proc.outs[u].dialer # t
<1> SUFFICES ASSUME proc.outs[u].dialer # NoTag, proc.outs[u].dialer = t
             PROVE  FALSE
  OBVIOUS
<1> USE DEF IInv
<1>1. WellFormed(running) /\ WellFormed(want)
  BY DEF ProcInv
<1>2. \/ u \in DOMAIN running.outs /\ Dialer(running, u) = t
      \/ u \in DOMAIN want.outs /\ Dialer(want, u) = t
  BY DEF OutsInv, Has, Dialer
<1>3. t \in todo /\ t # NoTag /\ (Dependent(running, want, t) \/ \A v \in todo : ~Dependent(running, want, v))
  BY DEF Rmo, IsNextRemoval
<1>4. CASE stage = "rmoChanged"
  <2>1. t \in Changed(running, want)
    BY <1>3, <1>4, StageTodoFacts DEF TodoInv
  <2>2. u \in Changed(running, want) /\ t \notin Masters /\ Dependent(running, want, u)
    BY <1>1, <1>2, <1>3, <2>1, OwnerMoves
  <2>3. u \in todo
    BY <1>4, <2>2 DEF OutsInv
  <2>4. QED
    BY <1>1, <1>3, <2>2, <2>3, PlainIsNotDependent
<1>5. CASE stage = "rmoGone"
  <2>1. t \in Gone(running, want)
    BY <1>3, <1>5, StageTodoFacts DEF TodoInv
  <2>2. t \notin DOMAIN want.outs
    BY <2>1, AddedIsNew
  <2>3. u \notin DOMAIN want.outs
    <3> SUFFICES ASSUME u \in DOMAIN want.outs PROVE FALSE
      OBVIOUS
    <3>1. Dialer(want, u) = t
      BY <1>5 DEF OutsInv, Has, AfterAdo, Dialer
    <3>2. QED
      BY <1>1, <1>3, <2>2, <3>1, DialerIsPlain
  <2>4. u \in DOMAIN running.outs /\ Dialer(running, u) = t
    BY <1>2, <2>3
  <2>5. u \in Gone(running, want)
    BY <2>3, <2>4, AddedIsNew
  <2>6. u \in todo
    BY <1>5, <2>5 DEF OutsInv
  <2>7. t \notin Masters /\ Dependent(running, want, u)
    BY <1>1, <1>3, <2>4, DialerIsPlain DEF Dependent
  <2>8. QED
    BY <1>1, <1>3, <2>6, <2>7, PlainIsNotDependent
<1>6. QED
  BY <1>4, <1>5 DEF Rmo

LEMMA RmoKeeps ==
  ASSUME IInv, NEW t, Rmo(t)
  PROVE  IInv'
<1> USE DEF IInv
<1>1. /\ stage \in {"rmoChanged", "rmoGone"} /\ stage' = stage
      /\ t \in todo /\ todo' = todo \ {t} /\ fresh' = FALSE
      /\ running' = running /\ want' = want /\ file' = file /\ sessions' = sessions
  BY DEF Rmo
<1>2. /\ IsConfig(proc')
      /\ proc'.outs = Without(proc.outs, t) /\ proc'.ins = proc.ins
      /\ proc'.fixed = proc.fixed /\ proc'.first = proc.first /\ proc'.routing = proc.routing
  <2>1. proc' = [proc EXCEPT !.outs = Without(proc.outs, t)]
    BY DEF Rmo
  <2>2. QED
    BY <2>1, SetOuts, WithoutIsFcn DEF ProcInv
<1>3. /\ DOMAIN proc'.outs = DOMAIN proc.outs \ {t}
      /\ \A u \in DOMAIN proc.outs \ {t} : proc'.outs[u] = proc.outs[u]
  BY <1>2 DEF Without
<1>4. ProcInv'
  BY <1>1, <1>2 DEF ProcInv
<1>5. TodoInv'
  BY <1>1 DEF TodoInv
<1>6. OutsInv'
  <2>1. stage = "rmoChanged" => t \in AddOut(running, want)
    BY <1>1, StageTodoFacts DEF TodoInv, Changed
  <2>2. stage = "rmoGone" => t \notin DOMAIN want.outs
    BY <1>1, StageTodoFacts, AddedIsNew DEF TodoInv
  <2>3. \A u \in DOMAIN proc'.outs : Has(running.outs, proc'.outs, u) \/ Has(want.outs, proc'.outs, u)
    BY <1>3 DEF OutsInv, Has
  <2>4. CASE stage = "rmoChanged"
    BY <1>1, <1>3, <2>1, <2>3, <2>4 DEF OutsInv, Has, AfterAdo
  <2>5. CASE stage = "rmoGone"
    BY <1>1, <1>3, <2>2, <2>3, <2>5 DEF OutsInv, Has, AfterAdo
  <2>6. QED
    BY <1>1, <2>4, <2>5
<1>7. InsInv'
  BY <1>1, <1>2 DEF InsInv, AfterAdi
<1>8. NoDangling'
  BY <1>3, NobodyDialsThrough DEF NoDangling
<1>9. SessionsInv'
  BY <1>1 DEF SessionsInv
<1>10. QED
  BY <1>4, <1>5, <1>6, <1>7, <1>8, <1>9

LEMMA AdoKeeps ==
  ASSUME IInv, NEW t, Ado(t)
  PROVE  IInv'
<1> USE DEF IInv
<1>1. /\ stage = "ado" /\ stage' = stage
      /\ t \in todo /\ todo' = todo \ {t} /\ fresh' = fresh
      /\ running' = running /\ want' = want /\ file' = file /\ sessions' = sessions
      /\ ~Dependent(running, want, t) \/ \A u \in todo : Dependent(running, want, u)
  BY DEF Ado, IsNextAddition
<1>2. /\ IsConfig(proc')
      /\ proc'.outs = With(proc.outs, t, want.outs[t]) /\ proc'.ins = proc.ins
      /\ proc'.fixed = proc.fixed /\ proc'.first = proc.first /\ proc'.routing = proc.routing
  <2>1. proc' = [proc EXCEPT !.outs = With(proc.outs, t, want.outs[t])]
    BY DEF Ado
  <2>2. QED
    BY <2>1, SetOuts, WithIsFcn DEF ProcInv
<1>3. /\ DOMAIN proc'.outs = DOMAIN proc.outs \cup {t}
      /\ \A u \in DOMAIN proc.outs \ {t} : proc'.outs[u] = proc.outs[u]
      /\ proc'.outs[t] = want.outs[t]
  BY <1>2 DEF With
<1>4. t \in DOMAIN want.outs
  BY <1>1, StageTodoFacts, AddedIsNew DEF TodoInv
<1>5. ProcInv'
  BY <1>1, <1>2 DEF ProcInv
<1>6. TodoInv'
  BY <1>1 DEF TodoInv
<1>7. OutsInv'
  BY <1>1, <1>3, <1>4 DEF OutsInv, Has, AfterAdo
<1>8. InsInv'
  BY <1>1, <1>2 DEF InsInv, AfterAdi
<1>9. NoDangling'
  <2>1. want.outs[t].dialer # NoTag => want.outs[t].dialer \in DOMAIN proc.outs
    <3> SUFFICES ASSUME Dialer(want, t) # NoTag
                 PROVE  Dialer(want, t) \in DOMAIN proc.outs
      BY DEF Dialer
    <3>1. WellFormed(want) /\ WellFormed(running)
      BY DEF ProcInv
    <3>2. Dependent(running, want, t)
      BY <1>4 DEF Dependent
    <3>3. Dialer(want, t) \in DOMAIN want.outs /\ Dialer(want, t) \notin Masters
      BY <1>4, <3>1, DialerIsPlain
    <3>4. Dialer(want, t) \notin todo
      BY <1>1, <3>1, <3>2, <3>3, PlainIsNotDependent
    <3>5. QED
      BY <1>1, <3>3, <3>4 DEF OutsInv, Has
  <2>2. QED
    BY <1>3, <2>1 DEF NoDangling
<1>10. SessionsInv'
  BY <1>1 DEF SessionsInv
<1>11. QED
  BY <1>5, <1>6, <1>7, <1>8, <1>9, <1>10

LEMMA RmiKeeps ==
  ASSUME IInv, NEW i, Rmi(i)
  PROVE  IInv'
<1> USE DEF IInv
<1>1. /\ stage \in {"rmiChanged", "rmiGone"} /\ stage' = stage
      /\ i \in todo /\ todo' = todo \ {i} /\ fresh' = FALSE
      /\ running' = running /\ want' = want /\ file' = file /\ sessions' = sessions
  BY DEF Rmi
<1>2. /\ IsConfig(proc')
      /\ proc'.ins = Without(proc.ins, i) /\ proc'.outs = proc.outs
      /\ proc'.fixed = proc.fixed /\ proc'.first = proc.first /\ proc'.routing = proc.routing
  <2>1. proc' = [proc EXCEPT !.ins = Without(proc.ins, i)]
    BY DEF Rmi
  <2>2. QED
    BY <2>1, SetIns, WithoutIsFcn DEF ProcInv
<1>3. /\ DOMAIN proc'.ins = DOMAIN proc.ins \ {i}
      /\ \A j \in DOMAIN proc.ins \ {i} : proc'.ins[j] = proc.ins[j]
  BY <1>2 DEF Without
<1>4. ProcInv'
  BY <1>1, <1>2 DEF ProcInv
<1>5. TodoInv'
  BY <1>1 DEF TodoInv
<1>6. OutsInv'
  BY <1>1, <1>2 DEF OutsInv, AfterAdo
<1>7. InsInv'
  <2>1. stage = "rmiChanged" => i \in AddIn(running, want)
    BY <1>1, StageTodoFacts DEF TodoInv, ChangedIn
  <2>2. stage = "rmiGone" => i \notin DOMAIN want.ins
    BY <1>1, StageTodoFacts, AddedIsNew DEF TodoInv
  <2>3. \A j \in DOMAIN proc'.ins : Has(running.ins, proc'.ins, j) \/ Has(want.ins, proc'.ins, j)
    BY <1>3 DEF InsInv, Has
  <2>4. CASE stage = "rmiChanged"
    BY <1>1, <1>3, <2>1, <2>3, <2>4 DEF InsInv, Has, AfterAdi
  <2>5. CASE stage = "rmiGone"
    BY <1>1, <1>3, <2>2, <2>3, <2>5 DEF InsInv, Has, AfterAdi
  <2>6. QED
    BY <1>1, <2>4, <2>5
<1>8. NoDangling'
  BY <1>2 DEF NoDangling
<1>9. SessionsInv'
  BY <1>1 DEF SessionsInv
<1>10. QED
  BY <1>4, <1>5, <1>6, <1>7, <1>8, <1>9

LEMMA AdiKeeps ==
  ASSUME IInv, NEW i, Adi(i)
  PROVE  IInv'
<1> USE DEF IInv
<1>1. /\ stage = "adi" /\ stage' = stage
      /\ i \in todo /\ todo' = todo \ {i} /\ fresh' = FALSE
      /\ running' = running /\ want' = want /\ file' = file /\ sessions' = sessions
  BY DEF Adi
<1>2. /\ IsConfig(proc')
      /\ proc'.ins = With(proc.ins, i, want.ins[i]) /\ proc'.outs = proc.outs
      /\ proc'.fixed = proc.fixed /\ proc'.first = proc.first /\ proc'.routing = proc.routing
  <2>1. proc' = [proc EXCEPT !.ins = With(proc.ins, i, want.ins[i])]
    BY DEF Adi
  <2>2. QED
    BY <2>1, SetIns, WithIsFcn DEF ProcInv
<1>3. /\ DOMAIN proc'.ins = DOMAIN proc.ins \cup {i}
      /\ \A j \in DOMAIN proc.ins \ {i} : proc'.ins[j] = proc.ins[j]
      /\ proc'.ins[i] = want.ins[i]
  BY <1>2 DEF With
<1>4. i \in DOMAIN want.ins
  BY <1>1, StageTodoFacts, AddedIsNew DEF TodoInv
<1>5. ProcInv'
  BY <1>1, <1>2 DEF ProcInv
<1>6. TodoInv'
  BY <1>1 DEF TodoInv
<1>7. OutsInv'
  BY <1>1, <1>2 DEF OutsInv, AfterAdo
<1>8. InsInv'
  BY <1>1, <1>3, <1>4 DEF InsInv, Has, AfterAdi
<1>9. NoDangling' /\ SessionsInv'
  BY <1>1, <1>2 DEF NoDangling, SessionsInv
<1>10. QED
  BY <1>5, <1>6, <1>7, <1>8, <1>9

LEMMA AdrulesKeeps ==
  ASSUME IInv, Adrules
  PROVE  IInv'
<1> USE DEF IInv
<1>1. /\ stage = "adrules" /\ stage' = "rmiGone"
      /\ todo' = GoneIn(running, want) /\ fresh' = TRUE
      /\ running' = running /\ want' = want /\ file' = file /\ sessions' = sessions
  BY StageTodoFacts DEF Adrules
<1>2. /\ IsConfig(proc')
      /\ proc'.routing = want.routing /\ proc'.outs = proc.outs /\ proc'.ins = proc.ins
      /\ proc'.fixed = proc.fixed /\ proc'.first = proc.first
  BY SetRouting DEF Adrules, ProcInv
<1>3. ProcInv'
  BY <1>1, <1>2 DEF ProcInv, Stages
<1>4. TodoInv'
  BY <1>1, StageTodoFacts DEF TodoInv, Stages
<1>5. OutsInv' /\ InsInv'
  BY <1>1, <1>2 DEF OutsInv, InsInv, AfterAdo, AfterAdi
<1>6. NoDangling' /\ SessionsInv'
  BY <1>1, <1>2 DEF NoDangling, SessionsInv
<1>7. QED
  BY <1>3, <1>4, <1>5, <1>6

\* A call that is over leaves nothing of what it was to do.
LEMMA CallDoneKeeps ==
  ASSUME IInv, CallDone
  PROVE  IInv'
<1> USE DEF IInv
<1>1. /\ stage \in {"rmoChanged", "ado", "rmiChanged", "adi", "rmiGone"}
      /\ stage' = NextStage[stage]
      /\ todo = {} /\ todo' = StageTodo(stage', running, want) /\ fresh' = TRUE
      /\ running' = running /\ want' = want /\ file' = file /\ proc' = proc
      /\ sessions' = sessions
  BY DEF CallDone, NextStage
<1>2. \/ stage = "rmoChanged" /\ stage' = "ado" /\ todo' = AddOut(running, want)
      \/ stage = "ado" /\ stage' = "rmiChanged"
      \/ stage = "rmiChanged" /\ stage' = "adi" /\ todo' = AddIn(running, want)
      \/ stage = "adi" /\ stage' = "adrules"
      \/ stage = "rmiGone" /\ stage' = "rmoGone" /\ todo' = Gone(running, want)
  BY <1>1, StageTodoFacts DEF NextStage
<1>3. ProcInv'
  BY <1>1, <1>2 DEF ProcInv, Stages
<1>4. TodoInv'
  BY <1>1, <1>2 DEF TodoInv, Stages
<1>5. OutsInv'
  <2>1. \A t \in DOMAIN proc'.outs : Has(running.outs, proc'.outs, t) \/ Has(want.outs, proc'.outs, t)
    BY <1>1 DEF OutsInv
  <2>2. stage' # "rmoChanged"
    BY <1>2
  <2>3. stage' = "ado" => \A t \in DOMAIN want.outs \ todo' : Has(proc.outs, want.outs, t)
    BY <1>2 DEF OutsInv
  <2>4. stage' \in AfterAdo => \A t \in DOMAIN want.outs : Has(proc.outs, want.outs, t)
    BY <1>1, <1>2 DEF OutsInv, AfterAdo
  <2>5. stage' = "rmoGone" => \A t \in Gone(running, want) \ todo' : t \notin DOMAIN proc.outs
    BY <1>2
  <2>6. QED
    BY <1>1, <2>1, <2>2, <2>3, <2>4, <2>5 DEF OutsInv
<1>6. InsInv'
  <2>1. \A i \in DOMAIN proc'.ins : Has(running.ins, proc'.ins, i) \/ Has(want.ins, proc'.ins, i)
    BY <1>1 DEF InsInv
  <2>2. stage' \in {"rmoChanged", "ado", "rmiChanged"} =>
          \A i \in DOMAIN want.ins \ AddIn(running, want) : Has(proc.ins, want.ins, i)
    BY <1>2 DEF InsInv
  <2>3. stage' = "adi" => \A i \in DOMAIN want.ins \ todo' : Has(proc.ins, want.ins, i)
    BY <1>2 DEF InsInv
  <2>4. stage' \in AfterAdi => \A i \in DOMAIN want.ins : Has(proc.ins, want.ins, i)
    BY <1>1, <1>2 DEF InsInv, AfterAdi
  <2>5. stage' # "rmiGone"
    BY <1>2
  <2>6. stage' = "rmoGone" => \A i \in GoneIn(running, want) : i \notin DOMAIN proc.ins
    BY <1>1, <1>2 DEF InsInv
  <2>7. QED
    BY <1>1, <2>1, <2>2, <2>3, <2>4, <2>5, <2>6 DEF InsInv
<1>7. NoDangling' /\ SessionsInv'
  BY <1>1, <1>2 DEF NoDangling, SessionsInv
<1>8. QED
  BY <1>3, <1>4, <1>5, <1>6, <1>7

\* At the end of a live apply the process is the new config.
LEMMA ProcIsWant ==
  ASSUME IInv, stage = "rmoGone", todo = {}
  PROVE  proc = want
<1> USE DEF IInv
<1>1. WellFormed(want) /\ IsConfig(proc) /\ proc.fixed = want.fixed /\ proc.routing = want.routing
  BY DEF ProcInv, Stages
<1>2. IsConfig(want) /\ proc.first = want.first
  BY <1>1, ConfigIsSafe DEF ProcInv
<1>3. DOMAIN proc.outs = DOMAIN want.outs /\ \A t \in DOMAIN want.outs : proc.outs[t] = want.outs[t]
  <2>1. \A t \in DOMAIN want.outs : Has(proc.outs, want.outs, t)
    BY DEF OutsInv, AfterAdo
  <2>2. \A t \in DOMAIN proc.outs : t \in DOMAIN want.outs
    <3> SUFFICES ASSUME NEW t \in DOMAIN proc.outs, t \notin DOMAIN want.outs
                 PROVE  FALSE
      OBVIOUS
    <3>1. t \in DOMAIN running.outs
      BY DEF OutsInv, Has
    <3>2. t \in Gone(running, want)
      BY <3>1, AddedIsNew
    <3>3. QED
      BY <3>2 DEF OutsInv
  <2>3. QED
    BY <2>1, <2>2 DEF Has
<1>4. DOMAIN proc.ins = DOMAIN want.ins /\ \A i \in DOMAIN want.ins : proc.ins[i] = want.ins[i]
  <2>1. \A i \in DOMAIN want.ins : Has(proc.ins, want.ins, i)
    BY DEF InsInv, AfterAdi
  <2>2. \A i \in DOMAIN proc.ins : i \in DOMAIN want.ins
    <3> SUFFICES ASSUME NEW i \in DOMAIN proc.ins, i \notin DOMAIN want.ins
                 PROVE  FALSE
      OBVIOUS
    <3>1. i \in DOMAIN running.ins
      BY DEF InsInv, Has
    <3>2. i \in GoneIn(running, want)
      BY <3>1, AddedIsNew
    <3>3. QED
      BY <3>2 DEF InsInv
  <2>3. QED
    BY <2>1, <2>2 DEF Has
<1>5. proc.outs = want.outs
  BY <1>1, <1>2, <1>3 DEF IsConfig
<1>6. proc.ins = want.ins
  BY <1>1, <1>2, <1>4 DEF IsConfig
<1>7. QED
  BY <1>1, <1>2, <1>5, <1>6 DEF IsConfig

\* A process on the new config, with nothing left to do.
LEMMA IdleOnWant ==
  ASSUME WellFormed(want'), running' = want', file' = want', proc' = want',
         stage' = "idle", todo' = {}, fresh' \in BOOLEAN, SessionsInv'
  PROVE  IInv'
<1>1. ProcInv'
  BY ConfigIsSafe DEF ProcInv, Stages
<1>2. TodoInv'
  BY StageTodoFacts DEF TodoInv
<1>3. OutsInv' /\ InsInv' /\ NoDangling'
  BY OnWant
<1>4. QED
  BY <1>1, <1>2, <1>3 DEF IInv

LEMMA FinishKeeps ==
  ASSUME IInv, Finish
  PROVE  IInv'
<1> USE DEF IInv, Finish
<1>1. proc' = want'
  BY ProcIsWant
<1>2. SessionsInv'
  BY DEF SessionsInv
<1>3. QED
  BY <1>1, <1>2, IdleOnWant DEF ProcInv, TodoInv

LEMMA RestartKeeps ==
  ASSUME IInv, Restart
  PROVE  IInv'
<1> USE DEF IInv, Restart
<1>1. SessionsInv'
  BY DEF SessionsInv
<1>2. todo = {}
  BY StageTodoFacts DEF TodoInv
<1>3. QED
  BY <1>1, <1>2, IdleOnWant DEF ProcInv

LEMMA CallFailsKeeps ==
  ASSUME IInv, CallFails
  PROVE  IInv'
<1> USE DEF IInv, CallFails
<1>1. ProcInv' /\ TodoInv'
  BY StageTodoFacts DEF ProcInv, TodoInv, Stages
<1>2. OutsInv' /\ InsInv'
  BY DEF OutsInv, InsInv, AfterAdo, AfterAdi
<1>3. NoDangling' /\ SessionsInv'
  BY DEF NoDangling, SessionsInv
<1>4. QED
  BY <1>1, <1>2, <1>3

LEMMA RespawnKeeps ==
  ASSUME IInv, Respawn
  PROVE  IInv'
<1> USE DEF IInv
<1>1. /\ proc' = want /\ sessions' = {}
      /\ running' = running /\ want' = want /\ file' = file /\ fresh' = fresh
      /\ WellFormed(running) /\ WellFormed(want)
  BY DEF Respawn, ProcInv
<1>2. SessionsInv'
  BY <1>1 DEF SessionsInv
<1>3. CASE stage' = "restart" /\ todo' = {}
  <2>1. ProcInv' /\ TodoInv'
    BY <1>1, <1>3, ConfigIsSafe, StageTodoFacts DEF ProcInv, TodoInv, Stages
  <2>2. OutsInv' /\ InsInv' /\ NoDangling'
    BY <1>1, <1>3, OnWant
  <2>3. QED
    BY <1>2, <2>1, <2>2
<1>4. CASE ~(stage \in Stages /\ ~fresh) /\ stage' = stage /\ todo' = todo
  <2>1. ProcInv'
    BY <1>1, <1>4, ConfigIsSafe DEF ProcInv
  <2>2. TodoInv'
    BY <1>1, <1>4 DEF TodoInv
  <2>3. stage' \in {"rmoChanged", "rmiGone", "rmoGone"} => todo' = StageTodo(stage, running, want)'
    BY <1>1, <1>4 DEF TodoInv, Stages
  <2>4. OutsInv' /\ InsInv' /\ NoDangling'
    BY <1>1, <2>3, OnWant
  <2>5. QED
    BY <1>2, <2>1, <2>2, <2>4
<1>5. QED
  BY <1>3, <1>4 DEF Respawn

LEMMA ClientsKeep ==
  ASSUME IInv, Clients
  PROVE  IInv'
<1> USE DEF IInv
<1>1. UNCHANGED <<running, want, file, proc, stage, todo, fresh>>
  BY DEF Clients, Connect, Disconnect
<1>2. ProcInv' /\ TodoInv'
  BY <1>1 DEF ProcInv, TodoInv
<1>3. OutsInv' /\ InsInv' /\ NoDangling'
  BY <1>1 DEF OutsInv, InsInv, NoDangling
<1>4. SessionsInv'
  <2>1. CASE \E s \in sessions : Disconnect(s)
    BY <1>1, <2>1 DEF SessionsInv, Disconnect
  <2>2. ASSUME NEW i \in DOMAIN proc.ins, NEW k \in proc.ins[i].creds, Connect(i, k)
        PROVE  SessionsInv'
    <3>1. i \notin SlotIns /\ sessions' = sessions \cup {<<i, k>>}
      BY <2>2 DEF Connect
    <3>2. ASSUME stage # "restart"
          PROVE  k \in Creds(want, i)
      <4>1. CASE Has(want.ins, proc.ins, i)
        BY <4>1 DEF Has, Creds
      <4>2. CASE stage = "idle"
        BY <4>2 DEF ProcInv, Creds
      <4>3. CASE stage \in Stages /\ Has(running.ins, proc.ins, i)
        <5>1. i \in DOMAIN running.ins \ SlotIns /\ k \in running.ins[i].creds
          BY <3>1, <4>3 DEF Has
        <5>2. running.ins[i].creds \subseteq Creds(want, i)
          BY <4>3, <5>1 DEF ProcInv, RestartNeeded, Revokes
        <5>3. QED
          BY <5>1, <5>2
      <4>4. QED
        BY <3>2, <4>1, <4>2, <4>3 DEF InsInv, TodoInv
    <3>3. QED
      BY <1>1, <3>1, <3>2 DEF SessionsInv
  <2>3. QED
    BY <2>1, <2>2 DEF Clients
<1>5. QED
  BY <1>2, <1>3, <1>4

-----------------------------------------------------------------------------
(* Any step. *)

LEMMA StepKeeps ==
  ASSUME IInv, LiveStep \/ Respawn \/ Clients
  PROVE  IInv'
<1>1. ASSUME NEW t \in todo, Rmo(t) \/ Ado(t) \/ Rmi(t) \/ Adi(t) PROVE IInv'
  BY <1>1, RmoKeeps, AdoKeeps, RmiKeeps, AdiKeeps
<1>2. CASE Adrules
  BY <1>2, AdrulesKeeps
<1>3. CASE CallDone
  BY <1>3, CallDoneKeeps
<1>4. CASE Finish
  BY <1>4, FinishKeeps
<1>5. CASE CallFails
  BY <1>5, CallFailsKeeps
<1>6. CASE Restart
  BY <1>6, RestartKeeps
<1>7. CASE Respawn
  BY <1>7, RespawnKeeps
<1>8. CASE Clients
  BY <1>8, ClientsKeep
<1>9. QED
  BY <1>1, <1>2, <1>3, <1>4, <1>5, <1>6, <1>7, <1>8 DEF LiveStep

LEMMA StutterKeeps ==
  ASSUME IInv, UNCHANGED liveVars
  PROVE  IInv'
BY DEF IInv, ProcInv, TodoInv, OutsInv, InsInv, NoDangling, SessionsInv, liveVars

-----------------------------------------------------------------------------
(* What the invariant says of an apply. *)

LEMMA NothingIsTakenAway ==
  ASSUME IInv, stage \in Stages
  PROVE  UnchangedStays
<1>1. todo \subseteq StageTodo(stage, running, want)
  BY DEF IInv, TodoInv
<1>2. ASSUME NEW t \in Same(running.outs, want.outs),
             Dialer(want, t) \in {NoTag} \cup Same(running.outs, want.outs)
      PROVE  t \in DOMAIN proc.outs /\ proc.outs[t] = want.outs[t]
  <2>0. t \in DOMAIN running.outs \ RmOut(running, want)
    BY <1>2 DEF Same, RmOut, Differing, Moved
  <2>1. t \in DOMAIN want.outs /\ t \notin AddOut(running, want)
    BY <2>0, KeptIsSame
  <2>2. stage = "ado" => t \notin todo
    BY <1>1, <2>1, StageTodoFacts
  <2>3. Has(proc.outs, want.outs, t)
    BY <2>1, <2>2 DEF IInv, OutsInv, Stages, AfterAdo
  <2>4. QED
    BY <2>1, <2>3 DEF Has
<1>3. ASSUME NEW i \in Same(running.ins, want.ins)
      PROVE  i \in DOMAIN proc.ins /\ proc.ins[i] = want.ins[i]
  <2>0. i \in DOMAIN running.ins \ RmIn(running, want)
    BY DEF Same, RmIn, Differing
  <2>1. i \in DOMAIN want.ins /\ i \notin AddIn(running, want)
    BY <2>0, KeptIsSame
  <2>2. stage = "adi" => i \notin todo
    BY <1>1, <2>1, StageTodoFacts
  <2>3. Has(proc.ins, want.ins, i)
    BY <2>1, <2>2 DEF IInv, InsInv, Stages, AfterAdi
  <2>4. QED
    BY <2>1, <2>3 DEF Has
<1>4. QED
  BY <1>2, <1>3 DEF UnchangedStays

LEMMA InvariantGives ==
  ASSUME IInv
  PROVE  LiveTypeOK /\ NoDangling /\ Converged /\ RevokedIsCut /\ UnchangedStays
<1>1. LiveTypeOK
  BY DEF IInv, ProcInv, TodoInv, LiveTypeOK
<1>2. NoDangling /\ Converged /\ RevokedIsCut
  BY DEF IInv, ProcInv, SessionsInv, Converged, RevokedIsCut
<1>3. UnchangedStays
  BY NothingIsTakenAway DEF UnchangedStays
<1>4. QED
  BY <1>1, <1>2, <1>3

(* Live apply alone, on any well-formed configs in any order, whenever the  *)
(* child dies or a call fails: no outbound names a dialerProxy that is not  *)
(* there, an apply ends with exactly the config a restart would have        *)
(* loaded, no connection of a client it revoked is left, and what both      *)
(* configs have is never taken away.                                        *)
THEOREM LiveApplyIsSafe ==
  LiveSpec => [](LiveTypeOK /\ NoDangling /\ Converged /\ RevokedIsCut /\ UnchangedStays)
<1>1. LiveInit => IInv
  BY ConfigsAssumption, WellFormedStarts DEF LiveInit, IdleOn
<1>2. IInv /\ [LiveNext]_liveVars => IInv'
  <2> SUFFICES ASSUME IInv, [LiveNext]_liveVars PROVE IInv'
    OBVIOUS
  <2>1. ASSUME NEW c \in Configs, Apply(c) PROVE IInv'
    BY <2>1, ConfigsAssumption, ApplyKeeps
  <2>2. QED
    BY <2>1, StepKeeps, StutterKeeps DEF LiveNext
<1>3. IInv => LiveTypeOK /\ NoDangling /\ Converged /\ RevokedIsCut /\ UnchangedStays
  BY InvariantGives
<1>4. QED
  BY <1>1, <1>2, <1>3, PTL DEF LiveSpec

-----------------------------------------------------------------------------
(* The pools in use, and the members left in one. *)

(* A fold of a sequence, element after element.                             *)
LEMMA OnlyOneByOne ==
  ASSUME NEW S, NEW X, NEW s \in Seq(X)
  PROVE  \E f : /\ f[0] = <<>> /\ Only(s, S) = f[Len(s)]
                /\ \A n \in 1 .. Len(s) : f[n] = IF s[n] \in S THEN Append(f[n - 1], s[n]) ELSE f[n - 1]
<1> DEFINE N == Len(s)
           R == Seq(X)
           Add(t, x) == IF x \in S THEN Append(t, x) ELSE t
           Step == [n \in 1 .. N |-> [t \in R |-> Add(t, s[n])]]
           Body(it) == [t \in SUBSET DOMAIN s |->
                          IF t = {} THEN <<>> ELSE Add(it[t \ {Max(t)}], s[Max(t)])]
           g == CHOOSE it : it = Body(it)
<1>1. N \in Nat /\ DOMAIN s = 1 .. N /\ <<>> \in R
  OBVIOUS
<1>2. \A n \in 1 .. N : \A t \in R : Add(t, s[n]) \in R
  OBVIOUS
<1>3. Step \in Steps(N, R)
  BY <1>2 DEF Steps
<1>4. \A n \in 1 .. N : \A t \in R : Step[n][t] = Add(t, s[n])
  OBVIOUS
<1> HIDE DEF N, R, Add, Step
<1>5. PICK it : Folds(it, N, R, <<>>, Step)
  BY <1>1, <1>3, FoldExists
<1>6. it = Body(it)
  <2>1. it \in [SUBSET (1 .. N) -> R] /\ it[{}] = <<>>
    BY <1>5 DEF Folds
  <2>2. ASSUME NEW t \in SUBSET (1 .. N), t # {}
        PROVE  it[t] = Add(it[t \ {Max(t)}], s[Max(t)])
    <3>1. Max(t) \in 1 .. N
      BY <1>1, <2>2, MaxIsIn
    <3>2. it[t \ {Max(t)}] \in R
      BY <2>1
    <3>3. it[t] = Step[Max(t)][it[t \ {Max(t)}]]
      BY <1>5, <2>2 DEF Folds
    <3>4. QED
      BY <1>4, <3>1, <3>2, <3>3
  <2>3. QED
    BY <1>1, <2>1, <2>2
<1>7. g = Body(g)
  BY <1>6
<1>8. Only(s, S) = g[DOMAIN s]
  BY DEF Only, FoldLeft, MapThenFoldSet, Add
<1> HIDE DEF g
<1> DEFINE f == [n \in 0 .. N |-> g[1 .. n]]
<1>9. f[0] = <<>>
  <2>1. 1 .. 0 = {} /\ {} \in SUBSET DOMAIN s /\ 0 \in 0 .. N
    BY <1>1
  <2>2. g[{}] = <<>>
    BY <1>7, <2>1
  <2>3. QED
    BY <2>1, <2>2
<1>10. ASSUME NEW n \in 1 .. N
       PROVE  f[n] = Add(f[n - 1], s[n])
  <2> DEFINE t == 1 .. n
  <2>0. (1 .. n) \ {n} = 1 .. n - 1
    OBVIOUS
  <2>1. t \in SUBSET (1 .. N) /\ n \in t
    BY <1>1
  <2>2. Max(t) = n
    BY <1>1, <2>1, MaxOfPositions
  <2>3. t \ {n} = 1 .. n - 1
    BY <2>0
  <2> HIDE DEF t
  <2>4. g[t] = Add(g[t \ {Max(t)}], s[Max(t)])
    BY <1>1, <1>7, <2>1
  <2>5. g[t] = Add(g[1 .. n - 1], s[n])
    BY <2>2, <2>3, <2>4
  <2>6. QED
    BY <1>1, <2>5 DEF t
<1>11. Only(s, S) = f[N]
  BY <1>1, <1>8
<1> HIDE DEF f
<1>12. QED
  BY <1>9, <1>10, <1>11 DEF Add, N

LEMMA AppendRange ==
  ASSUME NEW X, NEW s \in Seq(X), NEW x \in X
  PROVE  Append(s, x) \in Seq(X) /\ Range(Append(s, x)) = Range(s) \cup {x}
<1> DEFINE t == Append(s, x)
<1>1. /\ t \in Seq(X) /\ Len(s) \in Nat /\ DOMAIN s = 1 .. Len(s) /\ DOMAIN t = 1 .. Len(s) + 1
      /\ \A i \in 1 .. Len(s) : t[i] = s[i]
      /\ t[Len(s) + 1] = x
  OBVIOUS
<1> HIDE DEF t
<1>2. \A i \in DOMAIN t : t[i] \in Range(s) \cup {x}
  BY <1>1 DEF Range
<1>3. \A y \in Range(s) \cup {x} : \E i \in DOMAIN t : t[i] = y
  <2>1. ASSUME NEW i \in DOMAIN s PROVE i \in DOMAIN t /\ t[i] = s[i]
    BY <1>1
  <2>2. Len(s) + 1 \in DOMAIN t
    BY <1>1
  <2>3. QED
    BY <1>1, <2>1, <2>2 DEF Range
<1>4. Range(t) = Range(s) \cup {x}
  <2>1. Range(t) \subseteq Range(s) \cup {x}
    BY <1>2 DEF Range
  <2>2. Range(s) \cup {x} \subseteq Range(t)
    BY <1>3 DEF Range
  <2>3. QED
    BY <2>1, <2>2
<1>5. QED
  BY <1>1, <1>4 DEF t

LEMMA OnlyAre ==
  ASSUME NEW S, NEW X, NEW s \in Seq(X)
  PROVE  Only(s, S) \in Seq(X) /\ Range(Only(s, S)) = Range(s) \cap S
<1> DEFINE N == Len(s)
<1>1. N \in Nat /\ DOMAIN s = 1 .. N
  OBVIOUS
<1>2. PICK f : /\ f[0] = <<>> /\ Only(s, S) = f[N]
               /\ \A n \in 1 .. N : f[n] = IF s[n] \in S THEN Append(f[n - 1], s[n]) ELSE f[n - 1]
  BY OnlyOneByOne
<1> DEFINE T == {n \in 0 .. N : f[n] \in Seq(X) /\ Range(f[n]) = {s[i] : i \in 1 .. n} \cap S}
<1>3. 0 \in T
  <2>1. f[0] \in Seq(X) /\ Range(f[0]) = {}
    BY <1>2 DEF Range
  <2>2. {s[i] : i \in 1 .. 0} = {}
    OBVIOUS
  <2>3. QED
    BY <1>1, <2>1, <2>2
<1>4. ASSUME NEW n \in 1 .. N, n - 1 \in T
      PROVE  n \in T
  <2>1. f[n - 1] \in Seq(X) /\ Range(f[n - 1]) = {s[i] : i \in 1 .. n - 1} \cap S
    BY <1>4
  <2>2. {s[i] : i \in 1 .. n} = {s[i] : i \in 1 .. n - 1} \cup {s[n]}
    BY <1>1
  <2>3. s[n] \in X
    BY <1>1
  <2>4. CASE s[n] \in S
    <3>1. f[n] = Append(f[n - 1], s[n])
      BY <1>2, <2>4
    <3>2. f[n] \in Seq(X) /\ Range(f[n]) = Range(f[n - 1]) \cup {s[n]}
      BY <2>1, <2>3, <3>1, AppendRange
    <3>3. QED
      BY <2>1, <2>2, <2>4, <3>2
  <2>5. CASE s[n] \notin S
    <3>1. f[n] = f[n - 1]
      BY <1>2, <2>5
    <3>2. {s[i] : i \in 1 .. n} \cap S = {s[i] : i \in 1 .. n - 1} \cap S
      BY <2>2, <2>5
    <3>3. QED
      BY <2>1, <3>1, <3>2
  <2>6. QED
    BY <2>4, <2>5
<1> HIDE DEF T
<1>5. 0 .. N \subseteq T
  BY <1>1, <1>3, <1>4, Induction
<1>6. N \in T
  BY <1>1, <1>5
<1>7. Range(s) = {s[i] : i \in 1 .. N}
  BY <1>1 DEF Range
<1>8. QED
  BY <1>2, <1>6, <1>7 DEF T

(* The pools are those of the enabled masters.                              *)
LEMMA PoolsHaveNodes ==
  ASSUME NEW d, IsStore(d)
  PROVE  PoolsInOrder(d) \in Seq(DOMAIN d.nodes)
<1> DEFINE masters == EnabledMasters(d)
           dialer == d.dialer
           used == {dialer[e] : e \in masters}
<1>1. masters \in SUBSET Nat /\ IsFiniteSet(masters)
  <2>1. masters \in SUBSET d.on
    BY DEF EnabledMasters
  <2>2. QED
    BY <2>1, FS_Subset, ConfigAssumption DEF IsStore
<1>2. used \subseteq DOMAIN d.nodes
  BY DEF EnabledMasters, IsMaster, IsStore
<1>3. PoolsInOrder(d) = PoolsByMaster(masters, dialer)
  BY DEF PoolsInOrder
<1>4. PoolsByMaster(masters, dialer) \in Seq(used)
  <2> HIDE DEF masters, dialer
  <2>1. used = {dialer[e] : e \in masters}
    OBVIOUS
  <2> HIDE DEF used
  <2>2. QED
    BY <1>1, <2>1, PoolsByMasterAre
<1>5. QED
  BY <1>2, <1>3, <1>4

-----------------------------------------------------------------------------
(* Every config Generate makes of what is stored is one LiveApply can be    *)
(* given, whatever the slots.                                               *)

\* The outbound o is what Generate makes for the tag t.
MadeFor(d, slots, t, o) ==
  \/ t = BlockTag /\ o = BlockOut
  \/ t = DirectTag /\ o = Outbound("direct", <<>>, NoDialer)
  \/ \E e \in d.on : t = OutTag(e) /\ o = EntryOut(d, slots, e)
  \/ \E e \in EnabledMasters(d) :
       /\ t = DialerTag(e) /\ HasSlot(d, slots, e)
       /\ o = Outbound("slot", <<slots[d.dialer[e]]>>, NoDialer)
  \/ t[1] = "member" /\ o.does = "node" /\ o.dialer = NoDialer

LEMMA OutsOf ==
  ASSUME NEW d, NEW slots, NEW t \in DOMAIN Outs(d, slots)
  PROVE  MadeFor(d, slots, t, Outs(d, slots)[t])
<1> DEFINE loaded(p) == Range(d.nodes[p])
           Node == Outbound("node", CHOOSE m \in UNION {loaded(p) : p \in DOMAIN slots} :
                                      \E p \in DOMAIN slots : m \in loaded(p) /\ MemberTag(slots[p], m) = t,
                            NoDialer)
<1>1. \/ t = BlockTag \/ t = DirectTag
      \/ \E e \in d.on : t = OutTag(e)
      \/ \E e \in EnabledMasters(d) : t = DialerTag(e) /\ HasSlot(d, slots, e)
      \/ \E p \in DOMAIN slots : \E m \in loaded(p) : t = MemberTag(slots[p], m)
  BY DEF Outs
<1>2. Outs(d, slots)[t] =
        CASE t = BlockTag -> BlockOut
          [] t = DirectTag -> Outbound("direct", <<>>, NoDialer)
          [] t[1] = "out" -> EntryOut(d, slots, t[2])
          [] t[1] = "dialer" -> Outbound("slot", <<slots[d.dialer[t[2]]]>>, NoDialer)
          [] OTHER -> Node
  BY DEF Outs
<1> HIDE DEF Node, loaded
<1>3. Node.does = "node" /\ Node.dialer = NoDialer
  BY DEF Node, Outbound
<1>4. BlockTag # DirectTag /\ BlockTag[1] = "block" /\ DirectTag[1] = "direct"
  BY DEF BlockTag, DirectTag
<1>5. t = BlockTag => Outs(d, slots)[t] = BlockOut
  BY <1>2, <1>4
<1>6. t = DirectTag => Outs(d, slots)[t] = Outbound("direct", <<>>, NoDialer)
  BY <1>2, <1>4
<1>7. ASSUME NEW e \in d.on, t = OutTag(e)
      PROVE  Outs(d, slots)[t] = EntryOut(d, slots, e)
  <2>1. t[1] = "out" /\ t[2] = e
    BY <1>7 DEF OutTag
  <2>2. QED
    BY <1>2, <1>4, <2>1
<1>8. ASSUME NEW e \in EnabledMasters(d), t = DialerTag(e)
      PROVE  Outs(d, slots)[t] = Outbound("slot", <<slots[d.dialer[e]]>>, NoDialer)
  <2>1. t[1] = "dialer" /\ t[2] = e
    BY <1>8 DEF DialerTag
  <2>2. QED
    BY <1>2, <1>4, <2>1
<1>9. ASSUME NEW p, NEW m, t = MemberTag(p, m)
      PROVE  t[1] = "member" /\ Outs(d, slots)[t] = Node
  <2>1. t[1] = "member"
    BY <1>9 DEF MemberTag
  <2>2. QED
    BY <1>2, <1>4, <2>1
<1>10. QED
  BY <1>1, <1>3, <1>5, <1>6, <1>7, <1>8, <1>9 DEF MadeFor

LEMMA TagsDiffer ==
  /\ \A e : /\ OutTag(e) \notin {BlockTag, DirectTag, NoDialer} /\ OutTag(e)[1] # "member"
            /\ DialerTag(e) \notin {BlockTag, DirectTag, NoDialer} /\ DialerTag(e)[1] # "member"
  /\ \A e, f : /\ OutTag(e) # DialerTag(f)
               /\ OutTag(e) = OutTag(f) => e = f
               /\ DialerTag(e) = DialerTag(f) => e = f
  /\ BlockTag # DirectTag /\ BlockTag # NoDialer /\ DirectTag # NoDialer
  /\ BlockTag[1] # "member" /\ DirectTag[1] # "member"
<1>1. \A e : OutTag(e)[1] = "out" /\ OutTag(e)[2] = e /\ DialerTag(e)[1] = "dialer" /\ DialerTag(e)[2] = e
  BY DEF OutTag, DialerTag
<1>2. BlockTag[1] = "block" /\ DirectTag[1] = "direct" /\ NoDialer[1] = ""
  BY DEF BlockTag, DirectTag, NoDialer
<1>3. \A e, f : /\ OutTag(e) # DialerTag(f)
                /\ OutTag(e) = OutTag(f) => e = f
                /\ DialerTag(e) = DialerTag(f) => e = f
  BY <1>1
<1>4. BlockTag # DirectTag /\ BlockTag # NoDialer /\ DirectTag # NoDialer
  BY <1>2
<1>5. \A e : OutTag(e) \notin {BlockTag, DirectTag, NoDialer} /\ DialerTag(e) \notin {BlockTag, DirectTag, NoDialer}
  BY <1>1, <1>2
<1>6. QED
  BY <1>1, <1>2, <1>3, <1>4, <1>5

LEMMA OutTagOf ==
  \A e \in Entries : OutTag(e) \in Masters /\ DialerOf[OutTag(e)] = DialerTag(e)
<1>1. \A e : OutTag(e)[2] = e
  BY DEF OutTag
<1>2. QED
  BY <1>1, SameTagsAssumption DEF Masters

LEMMA OutsHave ==
  ASSUME NEW d, NEW slots
  PROVE  /\ BlockTag \in DOMAIN Outs(d, slots)
         /\ \A e \in d.on : OutTag(e) \in DOMAIN Outs(d, slots)
         /\ \A e \in EnabledMasters(d) : HasSlot(d, slots, e) => DialerTag(e) \in DOMAIN Outs(d, slots)
BY DEF Outs

LEMMA EntryDials ==
  ASSUME NEW d, NEW slots, NEW e \in d.on
  PROVE  LET o == EntryOut(d, slots, e)
         IN  /\ \/ o.dialer \in {NoDialer, BlockTag}
                \/ o.dialer = DialerTag(e) /\ e \in EnabledMasters(d) /\ HasSlot(d, slots, e)
             /\ e \in EnabledMasters(d) => o.does = "block" \/ o.dialer \in {BlockTag, DialerTag(e)}
<1>1. CASE ~IsMaster(d, e)
  <2>1. EntryOut(d, slots, e) = Outbound("server", <<e>>, NoDialer)
    BY <1>1 DEF EntryOut, HasSlot
  <2>2. EntryOut(d, slots, e).dialer = NoDialer
    BY <2>1 DEF Outbound
  <2>3. e \notin EnabledMasters(d)
    BY <1>1 DEF EnabledMasters
  <2>4. QED
    BY <2>2, <2>3
<1>2. CASE IsMaster(d, e) /\ e \in Hysteria
  <2>1. EntryOut(d, slots, e) = BlockOut
    BY <1>2 DEF EntryOut
  <2>2. EntryOut(d, slots, e).dialer = NoDialer /\ EntryOut(d, slots, e).does = "block"
    BY <2>1 DEF BlockOut, Outbound
  <2>3. QED
    BY <2>2
<1>3. CASE IsMaster(d, e) /\ e \notin Hysteria /\ HasSlot(d, slots, e)
  <2>1. EntryOut(d, slots, e) = Outbound("server", <<e>>, DialerTag(e))
    BY <1>3 DEF EntryOut
  <2>2. EntryOut(d, slots, e).dialer = DialerTag(e)
    BY <2>1 DEF Outbound
  <2>3. e \in EnabledMasters(d)
    BY <1>3 DEF EnabledMasters
  <2>4. QED
    BY <1>3, <2>2, <2>3
<1>4. CASE IsMaster(d, e) /\ e \notin Hysteria /\ ~HasSlot(d, slots, e)
  <2>1. EntryOut(d, slots, e) = Outbound("server", <<e>>, BlockTag)
    BY <1>4 DEF EntryOut
  <2>2. EntryOut(d, slots, e).dialer = BlockTag
    BY <2>1 DEF Outbound
  <2>3. QED
    BY <2>2
<1>5. QED
  BY <1>1, <1>2, <1>3, <1>4

LEMMA GeneratedIsWellFormed ==
  ASSUME NEW d, d.on \subseteq Entries, NEW slots
  PROVE  WellFormed(Generate(d, slots))
<1> DEFINE c == Generate(d, slots)
<1>1. /\ c.first = BlockTag /\ c.outs = Outs(d, slots) /\ c.ins = Ins(d, slots)
      /\ c = [fixed |-> c.fixed, first |-> c.first, outs |-> c.outs, ins |-> c.ins, routing |-> c.routing]
  BY DEF Generate
<1>2. /\ Outs(d, slots) = [t \in DOMAIN Outs(d, slots) |-> Outs(d, slots)[t]]
      /\ Ins(d, slots) = [t \in DOMAIN Ins(d, slots) |-> Ins(d, slots)[t]]
  BY DEF Outs, Ins
<1> HIDE DEF c
<1>3. IsConfig(c)
  BY <1>1, <1>2 DEF IsConfig
<1>4. Block \in DOMAIN c.outs /\ c.outs[Block] = Blackhole
  <2>1. BlockTag \in DOMAIN Outs(d, slots)
    BY OutsHave
  <2>2. Outs(d, slots)[BlockTag] = BlockOut
    <3>1. \/ Outs(d, slots)[BlockTag] = BlockOut \/ BlockTag = DirectTag
          \/ \E e : BlockTag = OutTag(e) \/ BlockTag = DialerTag(e)
          \/ BlockTag[1] = "member"
      BY <2>1, OutsOf DEF MadeFor
    <3>2. QED
      BY <3>1, TagsDiffer
  <2>3. QED
    BY <1>1, <2>1, <2>2, SameTagsAssumption
<1>5. ASSUME NEW t \in DOMAIN c.outs
      PROVE  \/ Dialer(c, t) = NoTag
             \/ /\ t \in Masters
                /\ Dialer(c, t) \in {Block, DialerOf[t]}
                /\ Dialer(c, t) \in DOMAIN c.outs
  <2>1. CASE \E e \in d.on : t = OutTag(e) /\ c.outs[t] = EntryOut(d, slots, e)
    <3>1. PICK e \in d.on : t = OutTag(e) /\ c.outs[t] = EntryOut(d, slots, e)
      BY <2>1
    <3>2. e \in Entries /\ t \in Masters /\ DialerOf[t] = DialerTag(e)
      BY <3>1, OutTagOf
    <3>3. QED
      BY <1>1, <3>1, <3>2, EntryDials, OutsHave, SameTagsAssumption DEF Dialer
  <2>2. CASE ~\E e \in d.on : t = OutTag(e) /\ c.outs[t] = EntryOut(d, slots, e)
    <3>1. c.outs[t].dialer = NoDialer
      BY <1>1, <2>2, OutsOf DEF MadeFor, BlockOut, Outbound
    <3>2. QED
      BY <3>1, SameTagsAssumption DEF Dialer
  <2>3. QED
    BY <2>1, <2>2
<1>6. ASSUME NEW t \in Masters, DialerOf[t] \in DOMAIN c.outs
      PROVE  t \in DOMAIN c.outs
  <2>1. PICK e \in Entries : t = OutTag(e)
    BY SameTagsAssumption DEF Masters
  <2>2. DialerOf[t] = DialerTag(e)
    BY <2>1, OutTagOf
  <2>3. DialerTag(e) \in DOMAIN Outs(d, slots)
    BY <1>1, <1>6, <2>2
  <2>4. PICK f \in EnabledMasters(d) : DialerTag(e) = DialerTag(f)
    <3>1. \/ DialerTag(e) \in {BlockTag, DirectTag}
          \/ \E f : DialerTag(e) = OutTag(f)
          \/ \E f \in EnabledMasters(d) : DialerTag(e) = DialerTag(f)
          \/ DialerTag(e)[1] = "member"
      BY <2>3, OutsOf DEF MadeFor
    <3>2. QED
      BY <3>1, TagsDiffer
  <2>5. e \in d.on
    BY <2>4, TagsDiffer DEF EnabledMasters
  <2>6. QED
    BY <1>1, <2>1, <2>5, OutsHave
<1>7. QED
  BY <1>1, <1>3, <1>4, <1>5, <1>6, SameTagsAssumption DEF WellFormed, c

-----------------------------------------------------------------------------
(* Where a master can be dialled from.  What c says of the masters M: each  *)
(* dials through its own dialer or the blackhole, its dialer leads to a     *)
(* slot, and a slot to nodes or the blackhole.                              *)
Hides(c, M) ==
  /\ \A e \in M : OutTag(e) \in DOMAIN c.outs =>
       \/ c.outs[OutTag(e)].does = "block"
       \/ c.outs[OutTag(e)].dialer \in {BlockTag, DialerTag(e)}
  /\ \A e \in M : DialerTag(e) \in DOMAIN c.outs => c.outs[DialerTag(e)].does = "slot"
  /\ \A t \in DOMAIN c.outs : t[1] = "member" => c.outs[t].does = "node"
  /\ \A e \in DOMAIN c.routing.balancers :
       \/ c.routing.balancers[e].fallback = BlockTag
       \/ c.routing.balancers[e].fallback[1] = "member"

LEMMA BalancerFallsBack ==
  ASSUME NEW idx, NEW pick, NEW loaded
  PROVE  LET b == Balancer(idx, pick, loaded)
         IN  b.fallback = BlockTag \/ b.fallback[1] = "member"
<1> DEFINE picked == Only(pick, {m[1] : m \in Range(loaded)})
           active == IF Active < Len(picked) THEN Active ELSE Len(picked)
           b == Balancer(idx, pick, loaded)
<1>1. \/ b.fallback = BlockTag
      \/ b.fallback = MemberTag(idx, loaded[1])
      \/ b.fallback = <<"member", idx, picked[active + 1]>>
      \/ b.fallback = <<"member", idx, picked[1]>>
  <2>1. CASE picked = <<>>
    BY <2>1 DEF Balancer
  <2>2. CASE picked # <<>>
    BY <2>2 DEF Balancer
  <2>3. QED
    BY <2>1, <2>2
<1> HIDE DEF picked, active, b
<1>2. QED
  BY <1>1 DEF MemberTag, b

LEMMA GeneratedHides ==
  ASSUME NEW d, NEW slots
  PROVE  Hides(Generate(d, slots), EnabledMasters(d))
<1> DEFINE c == Generate(d, slots)
<1>1. c.outs = Outs(d, slots) /\ c.routing = Routing(d, slots)
  BY DEF Generate
<1> HIDE DEF c
<1>2. ASSUME NEW e \in EnabledMasters(d), OutTag(e) \in DOMAIN c.outs
      PROVE  c.outs[OutTag(e)].does = "block" \/ c.outs[OutTag(e)].dialer \in {BlockTag, DialerTag(e)}
  <2>0. MadeFor(d, slots, OutTag(e), Outs(d, slots)[OutTag(e)])
    BY <1>1, <1>2, OutsOf
  <2>1. \/ OutTag(e) \in {BlockTag, DirectTag} \/ OutTag(e)[1] = "member"
        \/ \E f : OutTag(e) = DialerTag(f)
        \/ \E f \in d.on : OutTag(e) = OutTag(f) /\ Outs(d, slots)[OutTag(e)] = EntryOut(d, slots, f)
    BY <2>0 DEF MadeFor
  <2>2. e \in d.on /\ c.outs[OutTag(e)] = EntryOut(d, slots, e)
    BY <1>1, <2>1, TagsDiffer
  <2>3. QED
    BY <2>2, EntryDials
<1>3. ASSUME NEW e \in EnabledMasters(d), DialerTag(e) \in DOMAIN c.outs
      PROVE  c.outs[DialerTag(e)].does = "slot"
  <2>0. MadeFor(d, slots, DialerTag(e), Outs(d, slots)[DialerTag(e)])
    BY <1>1, <1>3, OutsOf
  <2>1. \/ DialerTag(e) \in {BlockTag, DirectTag} \/ DialerTag(e)[1] = "member"
        \/ \E f : DialerTag(e) = OutTag(f)
        \/ \E x : Outs(d, slots)[DialerTag(e)] = Outbound("slot", x, NoDialer)
    BY <2>0 DEF MadeFor
  <2>2. \E x : c.outs[DialerTag(e)] = Outbound("slot", x, NoDialer)
    BY <1>1, <2>1, TagsDiffer
  <2>3. QED
    BY <2>2 DEF Outbound
<1>4. ASSUME NEW t \in DOMAIN c.outs, t[1] = "member"
      PROVE  c.outs[t].does = "node"
  <2>0. MadeFor(d, slots, t, Outs(d, slots)[t])
    BY <1>1, <1>4, OutsOf
  <2>1. \/ t \in {BlockTag, DirectTag}
        \/ \E e : t = OutTag(e) \/ t = DialerTag(e)
        \/ Outs(d, slots)[t].does = "node"
    BY <2>0 DEF MadeFor
  <2>2. QED
    BY <1>1, <1>4, <2>1, TagsDiffer
<1>5. ASSUME NEW e \in DOMAIN c.routing.balancers
      PROVE  \/ c.routing.balancers[e].fallback = BlockTag
             \/ c.routing.balancers[e].fallback[1] = "member"
  <2>1. \E idx, pick, loaded : c.routing.balancers[e] = Balancer(idx, pick, loaded)
    BY <1>1, <1>5 DEF Routing
  <2>2. QED
    BY <2>1, BalancerFallsBack
<1>6. QED
  BY <1>2, <1>3, <1>4, <1>5 DEF Hides, c

(* So a connection to a master's server leaves through a node, or not.      *)
LEMMA HiddenMaster ==
  ASSUME NEW c, NEW M, NEW e \in M, Hides(c, M),
         c.first = BlockTag, BlockTag \in DOMAIN c.outs, c.outs[BlockTag] = BlockOut
  PROVE  ~DialsItself(c, e)
<1> DEFINE out == Does(c, OutTag(e))
           hop == Does(c, out.dialer)
<1>1. BlockOut.does = "block"
  BY DEF BlockOut, Outbound
<1>2. \A t : Does(c, t) = IF t \in DOMAIN c.outs THEN c.outs[t] ELSE BlockOut
  BY DEF Does
<1>3. \/ out.does = "block"
      \/ out.dialer \in {BlockTag, DialerTag(e)}
  BY <1>1, <1>2 DEF Hides
<1>4. Does(c, BlockTag) = BlockOut
  BY <1>2
<1>5. Does(c, DialerTag(e)).does \in {"slot", "block"}
  BY <1>1, <1>2 DEF Hides
<1>6. \A t : t = BlockTag \/ t[1] = "member" => Does(c, t).does \in {"node", "block"}
  BY <1>1, <1>2 DEF Hides
<1>7. \A idx : \A t \in Through(c, e, idx) : t = BlockTag \/ t[1] = "member"
  BY DEF Through, Chosen, Selected, Hides
<1>8. CASE out.does = "block"
  <2>1. DialsOut(c, e) = {BlockOut}
    BY <1>8 DEF DialsOut
  <2>2. QED
    BY <1>1, <2>1 DEF DialsItself
<1>9. CASE out.does # "block" /\ out.dialer \in {BlockTag, DialerTag(e)}
  <2>1. out.dialer # NoDialer
    BY <1>9, TagsDiffer
  <2>2. hop.does \in {"slot", "block"}
    BY <1>1, <1>4, <1>5, <1>9
  <2>3. CASE hop.does = "slot"
    <3>1. DialsOut(c, e) = {Does(c, t) : t \in Through(c, e, hop.arg[1])}
      BY <1>9, <2>1, <2>3 DEF DialsOut
    <3>2. \A o \in DialsOut(c, e) : o.does \in {"node", "block"}
      BY <1>6, <1>7, <3>1
    <3>3. QED
      BY <3>2 DEF DialsItself
  <2>4. CASE hop.does = "block"
    <3>1. DialsOut(c, e) = {hop}
      BY <1>9, <2>1, <2>4 DEF DialsOut
    <3>2. QED
      BY <2>4, <3>1 DEF DialsItself
  <2>5. QED
    BY <2>2, <2>3, <2>4
<1>10. QED
  BY <1>3, <1>8, <1>9

-----------------------------------------------------------------------------
(* What the slots hold, and where a master leaves the box. *)

\* What w has in the slots is well defined.
FillsSlots(w, slots) ==
  /\ IsNumbering(slots)
  /\ \A p \in DOMAIN slots : \A m, n \in Range(w.nodes[p]) : m[1] = n[1] => m = n

LEMMA TagFirst ==
  /\ BlockTag[1] = "block" /\ DirectTag[1] = "direct"
  /\ \A e : OutTag(e)[1] = "out" /\ DialerTag(e)[1] = "dialer"
BY DEF BlockTag, DirectTag, OutTag, DialerTag

LEMMA MemberOuts ==
  ASSUME NEW w, NEW slots, FillsSlots(w, slots), NEW p \in DOMAIN slots
  PROVE  /\ \A m \in Range(w.nodes[p]) :
              /\ MemberTag(slots[p], m) \in DOMAIN Outs(w, slots)
              /\ Outs(w, slots)[MemberTag(slots[p], m)].arg = m
         /\ \A t \in DOMAIN Outs(w, slots) : t[1] = "member" /\ t[2] = slots[p] =>
              \E m \in Range(w.nodes[p]) : t = MemberTag(slots[p], m)
<1> DEFINE loaded(q) == Range(w.nodes[q])
           Is(t, m) == \E q \in DOMAIN slots : m \in loaded(q) /\ MemberTag(slots[q], m) = t
           Node(t) == CHOOSE m \in UNION {loaded(q) : q \in DOMAIN slots} : Is(t, m)
<1>1. \A q, m : MemberTag(q, m)[1] = "member" /\ MemberTag(q, m)[2] = q /\ MemberTag(q, m)[3] = m[1]
  BY DEF MemberTag
<1>2. \A t \in DOMAIN Outs(w, slots) :
        \/ t \in {BlockTag, DirectTag} \/ \E e : t = OutTag(e) \/ t = DialerTag(e)
        \/ \E q \in DOMAIN slots : \E m \in loaded(q) : t = MemberTag(slots[q], m)
  BY DEF Outs
<1>3. ASSUME NEW m \in loaded(p)
      PROVE  /\ MemberTag(slots[p], m) \in DOMAIN Outs(w, slots)
             /\ Outs(w, slots)[MemberTag(slots[p], m)].arg = m
  <2> DEFINE t == MemberTag(slots[p], m)
  <2>1. t \in DOMAIN Outs(w, slots)
    BY DEF Outs
  <2>2. Outs(w, slots)[t] =
          CASE t = BlockTag -> BlockOut
            [] t = DirectTag -> Outbound("direct", <<>>, NoDialer)
            [] t[1] = "out" -> EntryOut(w, slots, t[2])
            [] t[1] = "dialer" -> Outbound("slot", <<slots[w.dialer[t[2]]]>>, NoDialer)
            [] OTHER -> Outbound("node", Node(t), NoDialer)
    BY <2>1 DEF Outs
  <2>3. t[1] = "member" /\ BlockTag[1] = "block" /\ DirectTag[1] = "direct"
    BY <1>1 DEF BlockTag, DirectTag
  <2>4. Is(t, m) /\ m \in UNION {loaded(q) : q \in DOMAIN slots}
    OBVIOUS
  <2> HIDE DEF Node
  <2>5. Outs(w, slots)[t] = Outbound("node", Node(t), NoDialer)
    <3> HIDE DEF t
    <3>1. t # BlockTag /\ t # DirectTag /\ t[1] # "out" /\ t[1] # "dialer"
      BY <2>3
    <3>2. QED
      BY <2>2, <3>1
  <2>6. Is(t, Node(t))
    <3> HIDE DEF Is, loaded, t
    <3>1. QED
      BY <2>4 DEF Node
  <2>7. PICK q \in DOMAIN slots : Node(t) \in loaded(q) /\ MemberTag(slots[q], Node(t)) = t
    BY <2>6
  <2>8. slots[q] = slots[p] /\ Node(t)[1] = m[1]
    BY <1>1, <2>7
  <2>9. q = p
    BY <2>8 DEF FillsSlots, IsNumbering
  <2>10. Node(t) = m
    BY <2>7, <2>8, <2>9 DEF FillsSlots
  <2>11. QED
    BY <2>1, <2>5, <2>10 DEF Outbound
<1>4. ASSUME NEW t \in DOMAIN Outs(w, slots), t[1] = "member", t[2] = slots[p]
      PROVE  \E m \in loaded(p) : t = MemberTag(slots[p], m)
  <2>1. PICK q \in DOMAIN slots : \E m \in loaded(q) : t = MemberTag(slots[q], m)
    <3>1. t \notin {BlockTag, DirectTag} /\ \A e : t # OutTag(e) /\ t # DialerTag(e)
      BY <1>4, TagFirst
    <3>2. QED
      BY <1>2, <3>1
  <2>2. slots[q] = slots[p]
    BY <1>1, <1>4, <2>1
  <2>3. q = p
    BY <2>2 DEF FillsSlots, IsNumbering
  <2>4. QED
    BY <2>1, <2>3
<1>5. QED
  BY <1>3, <1>4

LEMMA BalancerKeeps ==
  ASSUME NEW idx, NEW X, NEW pick \in Seq(X), NEW Y, NEW loaded \in Seq(Y)
  PROVE  LET b == Balancer(idx, pick, loaded)
         IN  /\ b.slot = idx
             /\ b.fallback = BlockTag \/ \E m \in Range(loaded) : b.fallback = MemberTag(idx, m)
<1> DEFINE keys == {m[1] : m \in Range(loaded)}
           picked == Only(pick, keys)
           active == IF Active < Len(picked) THEN Active ELSE Len(picked)
           b == Balancer(idx, pick, loaded)
<1>1. b.slot = idx
  BY DEF Balancer
<1>2. picked \in Seq(X) /\ Range(picked) \subseteq keys
  BY OnlyAre
<1>3. Active \in Nat \ {0}
  BY ConfigAssumption
<1>4. CASE picked = <<>>
  <2>1. b.fallback = IF loaded = <<>> THEN BlockTag ELSE MemberTag(idx, loaded[1])
    BY <1>4 DEF Balancer
  <2>2. loaded # <<>> => loaded[1] \in Range(loaded)
    BY DEF Range
  <2>3. QED
    BY <1>1, <2>1, <2>2
<1>5. CASE picked # <<>>
  <2>1. b.fallback = IF Len(picked) > active THEN <<"member", idx, picked[active + 1]>>
                     ELSE <<"member", idx, picked[1]>>
    BY <1>5 DEF Balancer
  <2> HIDE DEF picked, b
  <2>2. Len(picked) \in Nat \ {0} /\ DOMAIN picked = 1 .. Len(picked)
    BY <1>2, <1>5
  <2>3. active \in Nat
    BY <1>3, <2>2
  <2> HIDE DEF active
  <2>4. PICK i \in DOMAIN picked : b.fallback = <<"member", idx, picked[i]>>
    <3>1. CASE Len(picked) > active
      <4>1. active + 1 \in DOMAIN picked
        BY <2>2, <2>3, <3>1
      <4>2. QED
        BY <2>1, <3>1, <4>1
    <3>2. CASE ~(Len(picked) > active)
      <4>1. 1 \in DOMAIN picked
        BY <2>2
      <4>2. QED
        BY <2>1, <3>2, <4>1
    <3>3. QED
      BY <3>1, <3>2
  <2>5. picked[i] \in keys
    BY <1>2, <2>4 DEF Range
  <2>6. PICK m \in Range(loaded) : picked[i] = m[1]
    BY <2>5
  <2>7. b.fallback = MemberTag(idx, m)
    BY <2>4, <2>6 DEF MemberTag
  <2>8. QED
    BY <1>1, <2>7 DEF b
<1>6. QED
  BY <1>4, <1>5

\* The config made of w serves the master e: its connections leave through
\* members of its own pool, or not at all.
LEMMA MasterServed ==
  ASSUME NEW w, NEW slots, FillsSlots(w, slots), NEW e \in EnabledMasters(w),
         NEW X, w.pick[e] \in Seq(X), NEW Y, HasSlot(w, slots, e) => w.nodes[w.dialer[e]] \in Seq(Y),
         NEW o \in DialsOut(Generate(w, slots), e)
  PROVE  o = BlockOut \/ (HasSlot(w, slots, e) /\ o.arg \in Range(w.nodes[w.dialer[e]]))
<1> DEFINE c == Generate(w, slots)
           p == w.dialer[e]
           out == Does(c, OutTag(e))
           hop == Does(c, out.dialer)
<1>0. c.outs = Outs(w, slots) /\ c.routing = Routing(w, slots) /\ c.first = BlockTag
  BY DEF Generate
<1> HIDE DEF c
<1>1. e \in w.on /\ o \in DialsOut(c, e)
  BY DEF EnabledMasters, c
<1>2. BlockTag \in DOMAIN c.outs /\ c.outs[BlockTag] = BlockOut
  <2>1. BlockTag \in DOMAIN Outs(w, slots)
    BY OutsHave
  <2>2. MadeFor(w, slots, BlockTag, Outs(w, slots)[BlockTag])
    BY <2>1, OutsOf
  <2>3. QED
    BY <1>0, <2>1, <2>2, TagsDiffer DEF MadeFor
<1>3. Does(c, BlockTag) = BlockOut /\ \A t : t \notin DOMAIN c.outs => Does(c, t) = BlockOut
  BY <1>0, <1>2 DEF Does
<1>4. out = EntryOut(w, slots, e)
  <2>1. OutTag(e) \in DOMAIN Outs(w, slots)
    BY <1>1, OutsHave
  <2>2. MadeFor(w, slots, OutTag(e), Outs(w, slots)[OutTag(e)])
    BY <2>1, OutsOf
  <2>3. OutTag(e)[1] # "member" /\ OutTag(e) # BlockTag /\ OutTag(e) # DirectTag
        /\ \A f : OutTag(e) # DialerTag(f) /\ (OutTag(e) = OutTag(f) => e = f)
    BY TagsDiffer
  <2>4. Outs(w, slots)[OutTag(e)] = EntryOut(w, slots, e)
    BY <2>2, <2>3 DEF MadeFor
  <2>5. QED
    BY <1>0, <2>1, <2>4 DEF Does
<1> HIDE DEF out
<1>5. /\ out.dialer \in {NoDialer, BlockTag} \/ (out.dialer = DialerTag(e) /\ HasSlot(w, slots, e))
      /\ out.does = "block" \/ out.dialer \in {BlockTag, DialerTag(e)}
  BY <1>1, <1>4, EntryDials
<1>6. CASE out.does = "block"
  <2>1. DialsOut(c, e) = {BlockOut}
    BY <1>6 DEF DialsOut, out
  <2>2. QED
    BY <1>1, <2>1
<1>7. CASE out.does # "block" /\ out.dialer = BlockTag
  <2>1. hop = BlockOut /\ hop.does # "slot" /\ out.dialer # NoDialer
    BY <1>3, <1>7, TagsDiffer DEF BlockOut, Outbound
  <2>2. DialsOut(c, e) = {hop}
    BY <1>7, <2>1 DEF DialsOut, out
  <2>3. QED
    BY <1>1, <2>1, <2>2
<1>8. CASE out.does # "block" /\ out.dialer = DialerTag(e)
  <2>1. HasSlot(w, slots, e) /\ out.dialer # NoDialer
    BY <1>5, <1>8, TagsDiffer
  <2>2. p \in DOMAIN slots
    BY <2>1 DEF HasSlot
  <2>3. hop = Outbound("slot", <<slots[p]>>, NoDialer)
    <3>1. DialerTag(e) \in DOMAIN Outs(w, slots)
      BY <2>1, OutsHave
    <3>2. MadeFor(w, slots, DialerTag(e), Outs(w, slots)[DialerTag(e)])
      BY <3>1, OutsOf
    <3>3. DialerTag(e)[1] # "member" /\ DialerTag(e) # BlockTag /\ DialerTag(e) # DirectTag
          /\ \A f : DialerTag(e) # OutTag(f) /\ (DialerTag(e) = DialerTag(f) => e = f)
      BY TagsDiffer
    <3>4. Outs(w, slots)[DialerTag(e)] = Outbound("slot", <<slots[p]>>, NoDialer)
      BY <3>2, <3>3 DEF MadeFor
    <3>5. QED
      BY <1>0, <1>8, <3>1, <3>4 DEF Does
  <2>4. hop.does = "slot" /\ hop.arg[1] = slots[p]
    BY <2>3 DEF Outbound
  <2>5. PICK t \in Through(c, e, slots[p]) : o = Does(c, t)
    <3>1. DialsOut(c, e) = {Does(c, t) : t \in Through(c, e, hop.arg[1])}
      BY <1>8, <2>1, <2>4 DEF DialsOut, out
    <3>2. QED
      BY <1>1, <2>4, <3>1
  <2> DEFINE b == Balancer(slots[p], w.pick[e], w.nodes[p])
  <2>6. c.routing.balancers[e] = b
    BY <1>0, <2>1 DEF Routing
  <2>7. /\ b.slot = slots[p]
        /\ b.fallback = BlockTag \/ \E m \in Range(w.nodes[p]) : b.fallback = MemberTag(slots[p], m)
    BY <2>1, BalancerKeeps
  <2> HIDE DEF b
  <2>8. t = BlockTag \/ t \in Selected(c, b) \/ t = b.fallback
    BY <1>0, <2>6 DEF Through, Chosen
  <2>9. t = BlockTag \/ \E m \in Range(w.nodes[p]) : t = MemberTag(slots[p], m)
    <3>1. CASE t \in Selected(c, b)
      <4>1. t \in DOMAIN Outs(w, slots) /\ t[1] = "member" /\ t[2] = slots[p]
        BY <1>0, <2>7, <3>1 DEF Selected
      <4>2. QED
        BY <2>2, <4>1, MemberOuts
    <3>2. QED
      BY <2>7, <2>8, <3>1
  <2>10. CASE t = BlockTag
    BY <1>3, <2>5, <2>10
  <2>11. ASSUME NEW m \in Range(w.nodes[p]), t = MemberTag(slots[p], m)
         PROVE  o.arg \in Range(w.nodes[p])
    <3>1. t \in DOMAIN Outs(w, slots) /\ Outs(w, slots)[t].arg = m
      BY <2>2, <2>11, MemberOuts
    <3>2. QED
      BY <1>0, <2>5, <3>1 DEF Does
  <2>12. QED
    BY <2>1, <2>9, <2>10, <2>11
<1>9. QED
  BY <1>5, <1>6, <1>7, <1>8

\* A slot has the members of its pool, and no others.
LEMMA SlotHolds ==
  ASSUME NEW w, NEW slots, FillsSlots(w, slots), NEW p \in DOMAIN slots, NEW c, c = Generate(w, slots)
  PROVE  InSlot(c, slots[p]) = Range(w.nodes[p])
<1> DEFINE T == {u \in DOMAIN c.outs : u[1] = "member" /\ u[2] = slots[p]}
<1>1. c.outs = Outs(w, slots)
  BY DEF Generate
<1>2. ASSUME NEW t \in T
      PROVE  c.outs[t].arg \in Range(w.nodes[p])
  <2>1. PICK m \in Range(w.nodes[p]) : t = MemberTag(slots[p], m)
    BY <1>1, MemberOuts
  <2>2. QED
    BY <1>1, <2>1, MemberOuts
<1>3. ASSUME NEW m \in Range(w.nodes[p])
      PROVE  \E t \in T : c.outs[t].arg = m
  <2> DEFINE t == MemberTag(slots[p], m)
  <2>1. t \in DOMAIN c.outs /\ c.outs[t].arg = m
    BY <1>1, MemberOuts
  <2>2. t[1] = "member" /\ t[2] = slots[p]
    BY DEF MemberTag
  <2>3. QED
    BY <2>1, <2>2
<1> HIDE DEF T
<1>4. {c.outs[t].arg : t \in T} = Range(w.nodes[p])
  BY <1>2, <1>3
<1>5. QED
  BY <1>4 DEF T, InSlot

-----------------------------------------------------------------------------
(* The process always has the blackhole, and the routing of one of the two. *)
RoutesOn(c) == proc.routing = c.routing
HasBlock == BlockTag \in DOMAIN proc.outs /\ proc.outs[BlockTag] = BlockOut

(* Reconciling: LiveApply's invariant, and what is known of where the       *)
(* config that runs and the one it goes to were made from.                  *)
RecInv ==
  /\ IInv
  /\ store \in Stores
  /\ RoutesOn(running) \/ RoutesOn(want)
  /\ HasBlock
  /\ Hides(running, runMasters) /\ Hides(want, wantMasters)

\* Leaving members out changes no entry.
LEMMA LeftOut ==
  ASSUME NEW d, IsStore(d), NEW rej
  PROVE  LET w == WithoutRejected(d, rej)
         IN  w.on = d.on /\ w.dialer = d.dialer /\ EnabledMasters(w) = EnabledMasters(d)
<1> DEFINE w == WithoutRejected(d, rej)
<1>1. w.on = d.on /\ w.dialer = d.dialer
  BY DEF WithoutRejected, IsStore
<1> HIDE DEF w
<1>2. EnabledMasters(w) = EnabledMasters(d)
  BY <1>1 DEF EnabledMasters, IsMaster
<1>3. QED
  BY <1>1, <1>2 DEF w

LEMMA ConfigOf ==
  ASSUME NEW d \in Stores, NEW prev, NEW rej
  PROVE  WellFormed(ConfigFor(d, prev, rej)) /\ Hides(ConfigFor(d, prev, rej), EnabledMasters(d))
<1> DEFINE w == WithoutRejected(d, rej)
<1>1. IsStore(d)
  BY StoresAssumption
<1>2. w.on \subseteq Entries /\ EnabledMasters(w) = EnabledMasters(d)
  BY <1>1, LeftOut DEF IsStore
<1>3. ConfigFor(d, prev, rej) = Generate(w, AssignSlotIndices(prev, PoolsInOrder(d)))
  BY DEF ConfigFor
<1> HIDE DEF w
<1>4. QED
  BY <1>2, <1>3, GeneratedIsWellFormed, GeneratedHides

\* Which config runs is only changed at the end of an apply.
LEMMA StepMoves ==
  ASSUME IInv, LiveStep \/ Respawn \/ Clients
  PROVE  /\ want' = want
         /\ LiveStep /\ stage' = "idle" => running' = want
         /\ ~(LiveStep /\ stage' = "idle") => running' = running
<1>1. ASSUME NEW t \in todo, Rmo(t) \/ Ado(t) \/ Rmi(t) \/ Adi(t)
      PROVE  want' = want /\ running' = running /\ stage' # "idle"
  BY <1>1 DEF Rmo, Ado, Rmi, Adi
<1>2. Adrules \/ CallDone \/ CallFails => want' = want /\ running' = running /\ stage' # "idle"
  BY DEF Adrules, CallDone, CallFails, NextStage
<1>3. Finish \/ Restart => want' = want /\ running' = want /\ stage' = "idle"
  BY DEF Finish, Restart
<1>4. Respawn => want' = want /\ running' = running
  BY DEF Respawn
<1>5. Clients => want' = want /\ running' = running
  BY DEF Clients, Connect, Disconnect
<1>6. CASE LiveStep
  BY <1>1, <1>2, <1>3, <1>6 DEF LiveStep
<1>7. CASE ~LiveStep
  BY <1>4, <1>5, <1>7
<1>8. QED
  BY <1>6, <1>7

LEMMA BlockIsKept ==
  ASSUME IInv, HasBlock, LiveStep \/ Respawn \/ Clients
  PROVE  HasBlock'
<1>1. WellFormed(running) /\ WellFormed(want) /\ IsConfig(proc) /\ file = want
  BY DEF IInv, ProcInv
<1>2. BlockTag \in DOMAIN want.outs /\ want.outs[BlockTag] = BlockOut
  BY <1>1, SameTagsAssumption DEF WellFormed
<1>3. ASSUME NEW t \in todo, Rmo(t)
      PROVE  HasBlock'
  <2>1. t # BlockTag
    <3>1. t \in Changed(running, want) \/ t \in Gone(running, want)
      BY <1>3, StageTodoFacts DEF Rmo, IInv, TodoInv
    <3>2. QED
      BY <1>1, <3>1, BlockStays, SameTagsAssumption DEF Changed, Gone
  <2>2. proc'.outs = Without(proc.outs, t)
    BY <1>1, <1>3, WithoutIsFcn, SetOuts DEF Rmo
  <2>3. QED
    BY <2>1, <2>2 DEF HasBlock, Without
<1>4. ASSUME NEW t \in todo, Ado(t)
      PROVE  HasBlock'
  <2>1. t \notin DOMAIN proc.outs
    BY <1>4 DEF Ado
  <2>2. proc'.outs = With(proc.outs, t, want.outs[t])
    BY <1>1, <1>4, WithIsFcn, SetOuts DEF Ado
  <2>3. QED
    BY <2>1, <2>2 DEF HasBlock, With
<1>5. ASSUME NEW i \in todo, Rmi(i) \/ Adi(i)
      PROVE  HasBlock'
  <2>1. proc'.outs = proc.outs
    BY <1>1, <1>5 DEF Rmi, Adi, IsConfig
  <2>2. QED
    BY <2>1 DEF HasBlock
<1>6. Adrules => proc'.outs = proc.outs
  BY <1>1 DEF Adrules, IsConfig
<1>7. CallDone \/ Finish \/ CallFails \/ Clients => proc' = proc
  BY DEF CallDone, Finish, CallFails, Clients, Connect, Disconnect
<1>8. Restart \/ Respawn => proc' = want
  BY <1>1 DEF Restart, Respawn
<1>9. QED
  BY <1>2, <1>3, <1>4, <1>5, <1>6, <1>7, <1>8 DEF LiveStep, HasBlock

LEMMA RoutingIsOneOfTwo ==
  ASSUME IInv, RoutesOn(running) \/ RoutesOn(want), LiveStep \/ Respawn \/ Clients
  PROVE  RoutesOn(running)' \/ RoutesOn(want)'
<1>1. IsConfig(proc) /\ file = want
  BY DEF IInv, ProcInv
<1>2. ASSUME NEW t \in todo, Rmo(t) \/ Ado(t) \/ Rmi(t) \/ Adi(t)
      PROVE  proc'.routing = proc.routing /\ running' = running /\ want' = want
  BY <1>1, <1>2 DEF Rmo, Ado, Rmi, Adi, IsConfig
<1>3. Adrules => proc'.routing = want'.routing
  BY <1>1 DEF Adrules, IsConfig
<1>4. CallDone \/ CallFails \/ Clients => UNCHANGED <<proc, running, want>>
  BY DEF CallDone, CallFails, Clients, Connect, Disconnect
<1>5. Finish => proc' = want'
  BY ProcIsWant DEF Finish
<1>6. Restart \/ Respawn => proc' = want'
  BY <1>1 DEF Restart, Respawn
<1>7. QED
  BY <1>2, <1>3, <1>4, <1>5, <1>6 DEF LiveStep, RoutesOn

LEMMA RecInvInit == RecInit => RecInv
<1> SUFFICES ASSUME RecInit PROVE RecInv
  OBVIOUS
<1>1. store \in Stores /\ IsStore(store)
  BY StoresAssumption DEF RecInit
<1>2. running = ConfigFor(store, <<>>, rejected)
  BY DEF RecInit
<1>3. WellFormed(running) /\ Hides(running, EnabledMasters(store))
  BY <1>1, <1>2, ConfigOf
<1>4. IInv
  BY <1>3, WellFormedStarts DEF RecInit, IdleOn
<1>5. HasBlock /\ RoutesOn(running)
  BY <1>3, SameTagsAssumption DEF HasBlock, RoutesOn, WellFormed, RecInit
<1>6. QED
  BY <1>1, <1>3, <1>4, <1>5 DEF RecInv, RecInit

LEMMA RecInvStep == RecInv /\ [RecNext]_recVars => RecInv'
<1> SUFFICES ASSUME RecInv, [RecNext]_recVars PROVE RecInv'
  OBVIOUS
<1>1. CASE (\E d \in Stores : Store(d)) \/ ReconcileFails \/ ReconcileRefused
  <2>1. /\ UNCHANGED liveVars /\ UNCHANGED <<runMasters, wantMasters>>
        /\ store' \in Stores
    BY <1>1 DEF Store, ReconcileFails, ReconcileRefused, Begin, RecInv
  <2>2. IInv'
    BY <2>1, StutterKeeps DEF RecInv
  <2>3. QED
    BY <2>1, <2>2 DEF RecInv, HasBlock, RoutesOn, liveVars
<1>2. CASE ReconcileOk
  <2>1. PICK cfg : /\ WellFormed(cfg) /\ Hides(cfg, EnabledMasters(store))
                   /\ \/ cfg = running /\ UNCHANGED liveVars
                      \/ Apply(cfg)
                   /\ runMasters' = runMasters /\ wantMasters' = EnabledMasters(store) /\ store' = store
                   /\ stage = "idle"
    BY <1>2, ConfigOf DEF ReconcileOk, Begin, RecInv
  <2>2. running = want /\ proc = want
    BY <2>1 DEF RecInv, IInv, ProcInv
  <2>3. CASE cfg = running /\ UNCHANGED liveVars
    <3>1. IInv'
      BY <2>3, StutterKeeps DEF RecInv
    <3>2. QED
      BY <2>1, <2>2, <2>3, <3>1 DEF RecInv, HasBlock, RoutesOn, liveVars
  <2>4. CASE Apply(cfg)
    <3>1. IInv'
      BY <2>1, <2>4, ApplyKeeps DEF RecInv
    <3>2. want' = cfg /\ running' = running /\ proc' = proc
      BY <2>4 DEF Apply
    <3>3. QED
      BY <2>1, <2>2, <3>1, <3>2 DEF RecInv, HasBlock, RoutesOn
  <2>5. QED
    BY <2>1, <2>3, <2>4
<1>3. CASE ApplyStep \/ ((Respawn \/ Clients) /\ UNCHANGED storeVars)
  <2>1. IInv'
    BY <1>3, StepKeeps DEF RecInv, ApplyStep
  <2>2. store' = store /\ wantMasters' = wantMasters
    BY <1>3 DEF ApplyStep, storeVars
  <2>3. /\ want' = want
        /\ \/ running' = running /\ runMasters' = runMasters
           \/ running' = want /\ runMasters' = wantMasters
    <3>1. CASE ApplyStep
      BY <3>1, StepMoves DEF ApplyStep, RecInv
    <3>2. CASE (Respawn \/ Clients) /\ UNCHANGED storeVars
      <4>1. Respawn => running' = running /\ want' = want
        BY DEF Respawn
      <4>2. Clients => running' = running /\ want' = want
        BY DEF Clients, Connect, Disconnect
      <4>3. QED
        BY <3>2, <4>1, <4>2 DEF storeVars
    <3>3. QED
      BY <1>3, <3>1, <3>2
  <2>4. HasBlock' /\ (RoutesOn(running)' \/ RoutesOn(want)')
    BY <1>3, BlockIsKept, RoutingIsOneOfTwo DEF RecInv, ApplyStep
  <2>5. QED
    BY <2>1, <2>2, <2>3, <2>4 DEF RecInv
<1>4. CASE UNCHANGED recVars
  <2>1. IInv'
    BY <1>4, StutterKeeps DEF RecInv, recVars
  <2>2. QED
    BY <1>4, <2>1 DEF RecInv, HasBlock, RoutesOn, recVars, storeVars, liveVars
<1>5. QED
  BY <1>1, <1>2, <1>3, <1>4 DEF RecNext

(* Whatever is stored and however its changes and the steps of an apply     *)
(* interleave, a master is never dialled from this box itself.              *)
LEMMA RecInvHides == RecInv => MasterIsHidden
<1> SUFFICES ASSUME RecInv, NEW e \in runMasters \cap wantMasters
             PROVE  ~DialsItself(proc, e)
  BY DEF MasterIsHidden
<1> DEFINE M == runMasters \cap wantMasters
<1>1. \A t \in DOMAIN proc.outs :
        \/ t \in DOMAIN running.outs /\ proc.outs[t] = running.outs[t]
        \/ t \in DOMAIN want.outs /\ proc.outs[t] = want.outs[t]
  BY DEF RecInv, IInv, OutsInv, Has
<1>2. proc.routing = running.routing \/ proc.routing = want.routing
  BY DEF RecInv, RoutesOn
<1>3. Hides(running, runMasters) /\ Hides(want, wantMasters)
  BY DEF RecInv
<1>4. Hides(proc, M)
  BY <1>1, <1>2, <1>3 DEF Hides
<1>5. proc.first = BlockTag
  BY SameTagsAssumption DEF RecInv, IInv, ProcInv
<1>6. QED
  BY <1>4, <1>5, HiddenMaster DEF RecInv, HasBlock

-----------------------------------------------------------------------------
(* What xray refuses. *)

\* Only what xray refuses is recorded as refused.
Sound(rej) == \A k \in DOMAIN rej : <<k, rej[k]>> \in BadMembers

LEMMA RejectIsSound ==
  ASSUME NEW rej, Sound(rej), NEW R, \A m \in R : m \in BadMembers /\ m = <<m[1], m[2]>>
  PROVE  Sound(Reject(rej, R))
<1> SUFFICES ASSUME NEW k \in DOMAIN Reject(rej, R)
             PROVE  <<k, Reject(rej, R)[k]>> \in BadMembers
  BY DEF Sound
<1>1. CASE \E m \in R : m[1] = k
  <2> DEFINE n == CHOOSE m \in R : m[1] = k
  <2>1. n \in R /\ n[1] = k
    BY <1>1
  <2>2. Reject(rej, R)[k] = n[2]
    BY <1>1 DEF Reject
  <2> HIDE DEF n
  <2>3. QED
    BY <2>1, <2>2
<1>2. CASE ~\E m \in R : m[1] = k
  BY <1>2 DEF Reject, Sound
<1>3. QED
  BY <1>1, <1>2

LEMMA ForgetIsSound ==
  ASSUME NEW d, NEW rej, Sound(rej)
  PROVE  Sound(ForgetRejected(d, rej))
BY DEF Sound, ForgetRejected

\* Of the members M of a store, those left out are those xray refuses, once
\* the ones not yet known are rejected.
LEMMA RejectIsRight ==
  ASSUME NEW rej, Sound(rej), NEW M, \A m, n \in M : m = <<m[1], m[2]>> /\ (m[1] = n[1] => m = n),
         NEW R, R = {m \in M : m \in BadMembers /\ ~IsRejected(rej, m)}, NEW m \in M
  PROVE  IsRejected(Reject(rej, R), m) <=> m \in BadMembers
<1> DEFINE new == Reject(rej, R)
<1>1. Sound(new)
  BY RejectIsSound
<1>2. ASSUME m \in R
      PROVE  IsRejected(new, m)
  <2> DEFINE n == CHOOSE x \in R : x[1] = m[1]
  <2>1. n \in R /\ n[1] = m[1]
    BY <1>2
  <2>2. new[m[1]] = n[2] /\ m[1] \in DOMAIN new
    BY <1>2 DEF Reject
  <2> HIDE DEF n
  <2>3. n = m
    BY <2>1
  <2>4. QED
    BY <2>2, <2>3 DEF IsRejected
<1>3. ASSUME IsRejected(rej, m)
      PROVE  IsRejected(new, m)
  <2>1. \A x \in R : x[1] # m[1]
    BY <1>3
  <2>2. m[1] \in DOMAIN new /\ new[m[1]] = rej[m[1]]
    BY <1>3, <2>1 DEF Reject, IsRejected
  <2>3. QED
    BY <1>3, <2>2 DEF IsRejected
<1> HIDE DEF new
<1>4. IsRejected(new, m) => m \in BadMembers
  BY <1>1 DEF IsRejected, Sound
<1>5. QED
  BY <1>2, <1>3, <1>4 DEF new

-----------------------------------------------------------------------------
(* Which store the config that runs serves: when nothing is pending or has  *)
(* failed it was made from what is stored, and of the members of the pools  *)
(* that have a slot exactly those that xray refuses are left out.           *)
UpToDate ==
  /\ DOMAIN slotIdx \subseteq DOMAIN store.nodes
  /\ want = Generate(WithoutRejected(store, rejected), slotIdx)
  /\ \A p \in DOMAIN slotIdx : \A m \in Range(store.nodes[p]) :
       IsRejected(rejected, m) <=> m \in BadMembers

Served ==
  /\ IsNumbering(slotIdx)
  /\ Sound(rejected)
  /\ ~pending /\ ~failed => UpToDate

LEMMA NumbersPools ==
  ASSUME NEW d \in Stores, NEW prev, IsNumbering(prev)
  PROVE  LET slots == AssignSlotIndices(prev, PoolsInOrder(d))
         IN  /\ IsNumbering(slots) /\ DOMAIN slots \subseteq DOMAIN d.nodes
             /\ \A p \in DOMAIN prev \cap DOMAIN slots : slots[p] = prev[p]
<1>1. PoolsInOrder(d) \in Seq(DOMAIN d.nodes)
  BY StoresAssumption, PoolsHaveNodes
<1>2. QED
  BY <1>1, SlotsAssigned

\* The members that xray refuses are members of the store.
LEMMA BadAreMembers ==
  ASSUME NEW d \in Stores, NEW slots, DOMAIN slots \subseteq DOMAIN d.nodes, NEW rej
  PROVE  \A m \in BadIn(d, slots, rej) : m \in BadMembers /\ m = <<m[1], m[2]>>
<1>1. IsStore(d)
  BY StoresAssumption
<1>2. QED
  BY <1>1 DEF BadIn, IsStore

\* With every refused member of d rejected, those left out are the refused.
LEMMA RejectedAreBad ==
  ASSUME NEW d \in Stores, NEW slots, DOMAIN slots \subseteq DOMAIN d.nodes, NEW rej, Sound(rej),
         NEW p \in DOMAIN slots, NEW m \in Range(d.nodes[p])
  PROVE  IsRejected(Reject(rej, BadIn(d, slots, rej)), m) <=> m \in BadMembers
<1> DEFINE M == UNION {Range(d.nodes[q]) : q \in DOMAIN slots}
           R == BadIn(d, slots, rej)
<1>1. IsStore(d)
  BY StoresAssumption
<1>2. \A q, r \in DOMAIN slots : \A x \in Range(d.nodes[q]), y \in Range(d.nodes[r]) :
        x = <<x[1], x[2]>> /\ (x[1] = y[1] => x = y)
  BY <1>1 DEF IsStore
<1>3. \A x, y \in M : x = <<x[1], x[2]>> /\ (x[1] = y[1] => x = y)
  BY <1>2
<1>4. R = {x \in M : x \in BadMembers /\ ~IsRejected(rej, x)} /\ m \in M
  BY DEF BadIn
<1> HIDE DEF M, R
<1>5. IsRejected(Reject(rej, R), m) <=> m \in BadMembers
  BY <1>3, <1>4, RejectIsRight
<1>6. QED
  BY <1>5 DEF R

LEMMA ServedInit == RecInit => Served
<1> SUFFICES ASSUME RecInit PROVE Served
  OBVIOUS
<1> DEFINE bad == BadIn(store, slotIdx, <<>>)
<1>1. store \in Stores
  BY StoresAssumption DEF RecInit
<1>2. IsNumbering(<<>>) /\ Sound(<<>>)
  <2>1. DOMAIN <<>> = {}
    OBVIOUS
  <2>2. <<>> \in Numberings({})
    BY NoNumbering
  <2>3. QED
    BY <2>1, <2>2, NumberingsAre DEF Sound
<1>3. slotIdx = AssignSlotIndices(<<>>, PoolsInOrder(store)) /\ rejected = Reject(<<>>, bad)
  BY DEF RecInit
<1>4. IsNumbering(slotIdx) /\ DOMAIN slotIdx \subseteq DOMAIN store.nodes
  BY <1>1, <1>2, <1>3, NumbersPools
<1>5. Sound(rejected)
  BY <1>1, <1>2, <1>3, <1>4, BadAreMembers, RejectIsSound
<1>6. want = Generate(WithoutRejected(store, rejected), slotIdx)
  BY <1>3 DEF RecInit, ConfigFor
<1>7. \A p \in DOMAIN slotIdx : \A m \in Range(store.nodes[p]) :
        IsRejected(rejected, m) <=> m \in BadMembers
  BY <1>1, <1>2, <1>3, <1>4, RejectedAreBad
<1>8. QED
  BY <1>4, <1>5, <1>6, <1>7 DEF Served, UpToDate

\* Every reconcile numbers the pools and remembers what xray refuses.
LEMMA ReconcileNumbers ==
  ASSUME RecInv, Served, ReconcileFails \/ ReconcileRefused \/ ReconcileOk
  PROVE  /\ IsNumbering(slotIdx') /\ DOMAIN slotIdx' \subseteq DOMAIN store.nodes
         /\ \A p \in DOMAIN slotIdx \cap DOMAIN slotIdx' : slotIdx'[p] = slotIdx[p]
         /\ Sound(rejected')
<1>1. slotIdx' = AssignSlotIndices(slotIdx, PoolsInOrder(store)) /\ store \in Stores
  BY DEF ReconcileFails, ReconcileRefused, ReconcileOk, Begin, RecInv
<1>2. /\ IsNumbering(slotIdx') /\ DOMAIN slotIdx' \subseteq DOMAIN store.nodes
      /\ \A p \in DOMAIN slotIdx \cap DOMAIN slotIdx' : slotIdx'[p] = slotIdx[p]
  BY <1>1, NumbersPools DEF Served
<1> DEFINE rej == ForgetRejected(store, rejected)
           bad == BadIn(store, slotIdx', rej)
<1>3. Sound(rej)
  BY ForgetIsSound DEF Served
<1>4. rejected' = rej \/ \E R \in SUBSET bad : rejected' = Reject(rej, R)
  <2>1. ReconcileFails => rejected' = rej
    BY DEF ReconcileFails
  <2>2. ReconcileRefused => \E R \in SUBSET bad : rejected' = Reject(rej, R)
    BY DEF ReconcileRefused
  <2>3. ReconcileOk => rejected' = Reject(rej, bad)
    BY DEF ReconcileOk
  <2>4. QED
    BY <2>1, <2>2, <2>3
<1>5. \A m \in bad : m \in BadMembers /\ m = <<m[1], m[2]>>
  BY <1>1, <1>2, BadAreMembers
<1> HIDE DEF rej, bad
<1>6. Sound(rejected')
  BY <1>3, <1>4, <1>5, RejectIsSound
<1>7. QED
  BY <1>2, <1>6

LEMMA ServedStep == RecInv /\ Served /\ [RecNext]_recVars => Served'
<1> SUFFICES ASSUME RecInv, Served, [RecNext]_recVars PROVE Served'
  OBVIOUS
<1>1. CASE \E d \in Stores : Store(d)
  BY <1>1 DEF Store, Served
<1>2. CASE ReconcileFails \/ ReconcileRefused
  <2>1. failed' = TRUE
    BY <1>2 DEF ReconcileFails, ReconcileRefused
  <2>2. QED
    BY <1>2, <2>1, ReconcileNumbers DEF Served
<1>3. CASE ReconcileOk
  <2> DEFINE rej == ForgetRejected(store, rejected)
             bad == BadIn(store, slotIdx', rej)
             cfg == ConfigFor(store, slotIdx, Reject(rej, bad))
  <2>1. /\ store' = store /\ rejected' = Reject(rej, bad)
        /\ slotIdx' = AssignSlotIndices(slotIdx, PoolsInOrder(store))
        /\ stage = "idle"
        /\ IF cfg = running THEN UNCHANGED liveVars ELSE Apply(cfg)
    BY <1>3 DEF ReconcileOk, Begin
  <2>2. IsNumbering(slotIdx') /\ DOMAIN slotIdx' \subseteq DOMAIN store.nodes /\ Sound(rejected')
    BY <1>3, ReconcileNumbers
  <2>3. want' = Generate(WithoutRejected(store, rejected'), slotIdx')
    <3>1. cfg = Generate(WithoutRejected(store, rejected'), slotIdx')
      BY <2>1 DEF ConfigFor
    <3>2. running = want
      BY <2>1 DEF RecInv, IInv, ProcInv
    <3> HIDE DEF cfg
    <3>3. want' = cfg
      BY <2>1, <3>2 DEF liveVars, Apply
    <3>4. QED
      BY <3>1, <3>3
  <2>4. \A p \in DOMAIN slotIdx' : \A m \in Range(store.nodes[p]) :
          IsRejected(rejected', m) <=> m \in BadMembers
    <3>1. Sound(rej) /\ store \in Stores
      BY ForgetIsSound DEF Served, RecInv
    <3> HIDE DEF rej
    <3>2. QED
      BY <2>1, <2>2, <3>1, RejectedAreBad
  <2>5. QED
    BY <2>1, <2>2, <2>3, <2>4 DEF Served, UpToDate
<1>4. CASE ApplyStep \/ ((Respawn \/ Clients) /\ UNCHANGED storeVars)
  <2>1. UNCHANGED <<store, pending, failed, slotIdx, rejected>>
    BY <1>4 DEF ApplyStep, storeVars
  <2>2. want' = want
    BY <1>4, StepMoves DEF ApplyStep, RecInv
  <2>3. QED
    BY <2>1, <2>2 DEF Served, UpToDate
<1>5. CASE UNCHANGED recVars
  BY <1>5 DEF recVars, storeVars, liveVars, Served, UpToDate
<1>6. QED
  BY <1>1, <1>2, <1>3, <1>4, <1>5 DEF RecNext

\* The members left in the pools of d are members of d.
LEMMA WithoutRejectedIs ==
  ASSUME NEW d \in Stores, NEW rej, NEW slots, IsNumbering(slots), DOMAIN slots \subseteq DOMAIN d.nodes
  PROVE  LET w == WithoutRejected(d, rej)
         IN  /\ FillsSlots(w, slots)
             /\ \A p \in DOMAIN slots :
                  /\ w.nodes[p] \in Seq(Range(d.nodes[p]))
                  /\ Range(w.nodes[p]) = {m \in Range(d.nodes[p]) : ~IsRejected(rej, m)}
             /\ w.on = d.on /\ w.dialer = d.dialer /\ w.pick = d.pick
             /\ EnabledMasters(w) = EnabledMasters(d)
<1> DEFINE w == WithoutRejected(d, rej)
           left(p) == {m \in Range(d.nodes[p]) : ~IsRejected(rej, m)}
<1>1. IsStore(d)
  BY StoresAssumption
<1>2. /\ w.on = d.on /\ w.dialer = d.dialer /\ w.pick = d.pick
      /\ \A p \in DOMAIN d.nodes : w.nodes[p] = Only(d.nodes[p], left(p))
  BY <1>1 DEF WithoutRejected, IsStore
<1> HIDE DEF w
<1>3. EnabledMasters(w) = EnabledMasters(d)
  BY <1>1, LeftOut DEF w
<1>4. ASSUME NEW p \in DOMAIN slots
      PROVE  w.nodes[p] \in Seq(Range(d.nodes[p])) /\ Range(w.nodes[p]) = left(p)
  <2>1. d.nodes[p] \in Seq(Range(d.nodes[p])) /\ w.nodes[p] = Only(d.nodes[p], left(p))
    BY <1>1, <1>2 DEF IsStore
  <2>2. left(p) \subseteq Range(d.nodes[p])
    OBVIOUS
  <2> HIDE DEF left
  <2>3. /\ Only(d.nodes[p], left(p)) \in Seq(Range(d.nodes[p]))
        /\ Range(Only(d.nodes[p], left(p))) = Range(d.nodes[p]) \cap left(p)
    BY <2>1, OnlyAre
  <2>4. QED
    BY <2>1, <2>2, <2>3
<1>5. FillsSlots(w, slots)
  <2>1. ASSUME NEW p \in DOMAIN slots, NEW m \in Range(w.nodes[p]), NEW n \in Range(w.nodes[p]), m[1] = n[1]
        PROVE  m = n
    <3>1. p \in DOMAIN d.nodes /\ m \in Range(d.nodes[p]) /\ n \in Range(d.nodes[p])
      BY <1>4
    <3>2. QED
      BY <1>1, <2>1, <3>1 DEF IsStore
  <2>2. QED
    BY <2>1 DEF FillsSlots
<1>6. QED
  BY <1>2, <1>3, <1>4, <1>5 DEF w

LEMMA ServedGives == RecInv /\ Served => ServesStore
<1> SUFFICES ASSUME RecInv, Served, Settled
             PROVE  /\ \A p \in DOMAIN slotIdx :
                         InSlot(proc, slotIdx[p]) = Range(store.nodes[p]) \ BadMembers
                    /\ \A e \in EnabledMasters(store) : \A o \in DialsOut(proc, e) :
                         o = BlockOut \/ o.arg \in Range(store.nodes[store.dialer[e]])
  BY DEF ServesStore
<1> DEFINE w == WithoutRejected(store, rejected)
<1>1. store \in Stores /\ IsStore(store)
  BY StoresAssumption DEF RecInv
<1>2. UpToDate /\ IsNumbering(slotIdx)
  BY DEF Served, Settled
<1>3. proc = Generate(w, slotIdx)
  BY <1>2 DEF UpToDate, Settled, RecInv, IInv, ProcInv
<1>4. /\ FillsSlots(w, slotIdx)
      /\ \A p \in DOMAIN slotIdx :
           /\ w.nodes[p] \in Seq(Range(store.nodes[p]))
           /\ Range(w.nodes[p]) = {m \in Range(store.nodes[p]) : ~IsRejected(rejected, m)}
      /\ w.on = store.on /\ w.dialer = store.dialer /\ w.pick = store.pick
      /\ EnabledMasters(w) = EnabledMasters(store)
  BY <1>1, <1>2, WithoutRejectedIs DEF UpToDate
<1> HIDE DEF w
<1>5. ASSUME NEW p \in DOMAIN slotIdx
      PROVE  InSlot(proc, slotIdx[p]) = Range(store.nodes[p]) \ BadMembers
  <2>0. FillsSlots(w, slotIdx)
    BY <1>4
  <2>1. InSlot(proc, slotIdx[p]) = Range(w.nodes[p])
    BY <1>3, <2>0, SlotHolds
  <2>2. Range(w.nodes[p]) = Range(store.nodes[p]) \ BadMembers
    BY <1>2, <1>4 DEF UpToDate
  <2>3. QED
    BY <2>1, <2>2
<1>6. ASSUME NEW e \in EnabledMasters(store), NEW o \in DialsOut(proc, e)
      PROVE  o = BlockOut \/ o.arg \in Range(store.nodes[store.dialer[e]])
  <2> DEFINE p == store.dialer[e]
  <2>1. e \in EnabledMasters(w) /\ e \in store.on /\ w.dialer[e] = p
    BY <1>4 DEF EnabledMasters
  <2>2. w.pick[e] \in Seq(Range(store.pick[e]))
    BY <1>1, <1>4, <2>1 DEF IsStore
  <2>3. p \in DOMAIN store.nodes
    BY <1>1, <1>6 DEF EnabledMasters, IsMaster, IsStore
  <2>4. HasSlot(w, slotIdx, e) => p \in DOMAIN slotIdx /\ w.nodes[w.dialer[e]] \in Seq(Range(store.nodes[p]))
    BY <1>4, <2>1 DEF HasSlot
  <2>5. o = BlockOut \/ (HasSlot(w, slotIdx, e) /\ o.arg \in Range(w.nodes[w.dialer[e]]))
    BY <1>3, <1>4, <1>6, <2>1, <2>2, <2>4, MasterServed
  <2>6. p \in DOMAIN slotIdx => Range(w.nodes[p]) \subseteq Range(store.nodes[p])
    BY <1>4
  <2>7. QED
    BY <2>1, <2>4, <2>5, <2>6
<1>7. QED
  BY <1>5, <1>6

-----------------------------------------------------------------------------
(* The theorems. *)

(* The invariant, for any store and however its changes, the steps of an    *)
(* apply, failing calls and a dying child interleave: every config that is  *)
(* applied is one LiveApply can be given.                                   *)
THEOREM ReconcileInvariance == RecSpec => []RecInv
BY RecInvInit, RecInvStep, PTL DEF RecSpec

(* No outbound of the process names a dialerProxy that is not there.        *)
THEOREM NoDanglingThm == RecSpec => []NoDangling
<1>1. RecInv => NoDangling
  BY InvariantGives DEF RecInv
<1>2. QED
  BY <1>1, ReconcileInvariance, PTL

(* An apply ends with exactly the config a restart would have loaded.       *)
THEOREM ConvergedThm == RecSpec => []Converged
<1>1. RecInv => Converged
  BY InvariantGives DEF RecInv
<1>2. QED
  BY <1>1, ReconcileInvariance, PTL

(* After an apply no connection of a client it revoked is left.             *)
THEOREM RevokedIsCutThm == RecSpec => []RevokedIsCut
<1>1. RecInv => RevokedIsCut
  BY InvariantGives DEF RecInv
<1>2. QED
  BY <1>1, ReconcileInvariance, PTL

(* A live apply never takes away what both configs have.                    *)
THEOREM UnchangedStaysThm == RecSpec => []UnchangedStays
<1>1. RecInv => UnchangedStays
  BY InvariantGives DEF RecInv
<1>2. QED
  BY <1>1, ReconcileInvariance, PTL

(* A master is never dialled from this box itself, at no moment of an       *)
(* apply.                                                                   *)
THEOREM MastersAreHidden == RecSpec => []MasterIsHidden
BY RecInvHides, ReconcileInvariance, PTL

(* And what the process was made from: the store as it is, once everything  *)
(* is reconciled without an error.                                          *)
LEMMA ServedInvariance == RecSpec => [](RecInv /\ Served)
<1>1. RecInit => RecInv /\ Served
  BY RecInvInit, ServedInit
<1>2. (RecInv /\ Served) /\ [RecNext]_recVars => (RecInv /\ Served)'
  BY RecInvStep, ServedStep
<1>3. QED
  BY <1>1, <1>2, PTL DEF RecSpec

(* When everything committed has been reconciled without an error, a slot   *)
(* has the nodes of its pool that xray does not refuse, all of them, and a  *)
(* master leaves the box through nodes of its own pool or not at all.       *)
THEOREM StoreIsServed == RecSpec => []ServesStore
BY ServedGives, ServedInvariance, PTL

(* A pool in use before and after a reconcile keeps its slot, for any       *)
(* number of pools and slots.                                               *)
THEOREM PoolsKeepSlots == RecSpec => PoolsKeepTheirSlot
<1>1. RecInv /\ Served /\ [RecNext]_recVars => [SlotsKept]_recVars
  <2> SUFFICES ASSUME RecInv, Served, [RecNext]_recVars PROVE [SlotsKept]_recVars
    OBVIOUS
  <2>1. CASE ReconcileFails \/ ReconcileRefused \/ ReconcileOk
    BY <2>1, ReconcileNumbers DEF SlotsKept
  <2>2. (\E d \in Stores : Store(d)) \/ ApplyStep \/ UNCHANGED storeVars => slotIdx' = slotIdx
    BY DEF Store, ApplyStep, storeVars
  <2>3. UNCHANGED recVars => [SlotsKept]_recVars
    OBVIOUS
  <2>4. QED
    BY <2>1, <2>2, <2>3 DEF RecNext, SlotsKept
<1>2. QED
  BY <1>1, ServedInvariance, PTL DEF RecSpec, PoolsKeepTheirSlot
=============================================================================
