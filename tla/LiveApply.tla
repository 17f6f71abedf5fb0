----------------------------- MODULE LiveApply -----------------------------
(***************************************************************************)
(* daemon/xray_live.go: how the daemon brings a running xray from the      *)
(* config it runs to a new one through the api.  planLive compares the two *)
(* and applyLiveLocked issues the calls; between any two calls client      *)
(* connections arrive, a call may fail, and the child may die and be       *)
(* respawned by the watchdog from config.json.                             *)
(*                                                                         *)
(* A config is a record of what planLive tells apart:                      *)
(*   fixed    the sections the api cannot change                           *)
(*   first    the tag of the first outbound, xray's default                *)
(*   outs     outbound tag -> object; an object's dialer is the tag its    *)
(*            sockopt.dialerProxy names, or NoTag                          *)
(*   ins      inbound tag -> object; an object's creds are the client      *)
(*            credentials it accepts                                       *)
(*   routing  rules and balancers, swapped whole                           *)
(* The order of arrays is canonicalised away, except for first.            *)
(***************************************************************************)
EXTENDS FiniteSets

CONSTANTS Configs,    \* the configs Generate can produce
          NoTag,      \* no dialerProxy
          Block,      \* the tag of the blackhole, always the first outbound
          Blackhole,  \* its object
          DialerOf,   \* the tag of each entry's outbound -> the tag of its dialer's
          SlotIns     \* the inbound tags of dialer slots (slotInTagRe)

Masters == DOMAIN DialerOf
Dialer(c, t) == c.outs[t].dialer

\* A config is a record, of which outs and ins are functions on tags.
IsConfig(c) ==
  /\ c = [fixed |-> c.fixed, first |-> c.first, outs |-> c.outs, ins |-> c.ins,
          routing |-> c.routing]
  /\ c.outs = [t \in DOMAIN c.outs |-> c.outs[t]]
  /\ c.ins = [i \in DOMAIN c.ins |-> c.ins[i]]

\* What Generate guarantees of every config, and planLive relies on: block is
\* there, never changes and is first; only entries have a dialerProxy, naming
\* their own dialer or block, which is there and dials by itself; and a dialer
\* is only there together with its entry.
WellFormed(c) ==
  /\ IsConfig(c)
  /\ c.first = Block
  /\ Block \in DOMAIN c.outs
  /\ c.outs[Block] = Blackhole
  /\ \A t \in DOMAIN c.outs :
       \/ Dialer(c, t) = NoTag
       \/ /\ t \in Masters
          /\ Dialer(c, t) \in {Block, DialerOf[t]}
          /\ Dialer(c, t) \in DOMAIN c.outs
  /\ \A t \in Masters : DialerOf[t] \in DOMAIN c.outs => t \in DOMAIN c.outs

ASSUME ConfigsAssumption == \A c \in Configs : WellFormed(c)

ASSUME TagsAssumption ==
  /\ Block \notin Masters
  /\ \A t, u \in Masters : DialerOf[t] # u /\ DialerOf[t] # Block

VARIABLES
  running,   \* s.running: the config the daemon last brought xray to
  want,      \* the config being applied (s.running when idle)
  file,      \* config.json, what a respawned child reads
  proc,      \* what the xray process runs
  stage,     \* the applyLiveLocked call being made, or "idle" or "restart"
  todo,      \* the tags that call has still to handle
  fresh,     \* the call has not reached xray yet
  sessions   \* client connections: <<inbound tag, credential>>

liveVars == <<running, want, file, proc, stage, todo, fresh, sessions>>

-----------------------------------------------------------------------------
(* planLive *)

Creds(c, i) == IF i \in DOMAIN c.ins THEN c.ins[i].creds ELSE {}

\* A credential some client inbound accepted and no longer does.
Revokes(old, new) ==
  \E i \in DOMAIN old.ins \ SlotIns : ~(old.ins[i].creds \subseteq Creds(new, i))

\* Mutant of RestartNeeded: a revocation is applied live.
RestartNeededOnlyFixed(old, new) == old.fixed # new.fixed \/ old.first # new.first

RestartNeeded(old, new) ==
  \/ old.fixed # new.fixed
  \/ old.first # new.first
  \/ Revokes(old, new)

\* Mutant of Differing: an object that changed is not replaced.
DifferingInTag(f, g) == DOMAIN f \ DOMAIN g

\* diffTagged: gone or changed; diffTagged the other way gives new or changed.
Differing(f, g) == {t \in DOMAIN f : t \notin DOMAIN g \/ g[t] # f[t]}

\* Mutant of Moved: a master stays while its dialer is replaced.
MovedNever(old, new) == {}

\* Masters that have to be taken down because their dialer is.
Moved(old, new) ==
  {t \in DOMAIN new.outs \cap DOMAIN old.outs :
     Dialer(new, t) # NoTag /\ Dialer(new, t) \in Differing(old.outs, new.outs)}

RmOut(old, new) == Differing(old.outs, new.outs) \cup Moved(old, new)
AddOut(old, new) == Differing(new.outs, old.outs) \cup Moved(old, new)
\* Mutant of RmIn: every inbound is taken down.
RmInAll(old, new) == DOMAIN old.ins

RmIn(old, new) == Differing(old.ins, new.ins)
AddIn(old, new) == Differing(new.ins, old.ins)

\* livePlan.dialerOf: the new config's dialer, else the old one's.
Dependent(old, new, t) ==
  \/ t \in DOMAIN new.outs /\ Dialer(new, t) # NoTag
  \/ t \in DOMAIN old.outs /\ Dialer(old, t) # NoTag

\* dependentsFirst, as a choice of the next tag of a call.
IsNextRemoval(t) ==
  Dependent(running, want, t) \/ \A u \in todo : ~Dependent(running, want, u)
IsNextAddition(t) ==
  ~Dependent(running, want, t) \/ \A u \in todo : Dependent(running, want, u)

-----------------------------------------------------------------------------
(* applyLiveLocked: the calls, in order. *)

Stages == {"rmoChanged", "ado", "rmiChanged", "adi", "adrules", "rmiGone", "rmoGone"}

StageTodo(s, old, new) ==
  CASE s = "rmoChanged" -> RmOut(old, new) \cap AddOut(old, new)
    [] s = "ado"        -> AddOut(old, new)
    [] s = "rmiChanged" -> RmIn(old, new) \cap AddIn(old, new)
    [] s = "adi"        -> AddIn(old, new)
    [] s = "rmiGone"    -> RmIn(old, new) \ AddIn(old, new)
    [] s = "rmoGone"    -> RmOut(old, new) \ AddOut(old, new)
    [] OTHER            -> {}

Without(f, t) == [x \in DOMAIN f \ {t} |-> f[x]]
With(f, t, v) == [x \in DOMAIN f \cup {t} |-> IF x = t THEN v ELSE f[x]]

LiveInit ==
  /\ running \in Configs
  /\ want = running
  /\ file = running
  /\ proc = running
  /\ stage = "idle"
  /\ todo = {}
  /\ fresh = TRUE
  /\ sessions = {}

\* applyLocked on a config that differs: write config.json, then plan.  The
\* api may also not answer (waitAPIReady), which is a restart too.
Apply(c) ==
  /\ stage = "idle"
  /\ c # running
  /\ want' = c
  /\ file' = c
  /\ \/ /\ ~RestartNeeded(running, c)
        /\ stage' = "rmoChanged"
        /\ todo' = StageTodo("rmoChanged", running, c)
     \/ /\ stage' = "restart"
        /\ todo' = {}
  /\ fresh' = TRUE
  /\ UNCHANGED <<running, proc, sessions>>

\* `xray api rmo`: one gRPC call per tag, and no error for a missing one.
Rmo(t) ==
  /\ stage \in {"rmoChanged", "rmoGone"}
  /\ t \in todo
  /\ IsNextRemoval(t)
  /\ proc' = [proc EXCEPT !.outs = Without(@, t)]
  /\ todo' = todo \ {t}
  /\ fresh' = FALSE
  /\ UNCHANGED <<running, want, file, stage, sessions>>

\* `xray api ado`, one outbound per invocation; xray refuses a tag it has.
Ado(t) ==
  /\ stage = "ado"
  /\ t \in todo
  /\ IsNextAddition(t)
  /\ t \notin DOMAIN proc.outs
  /\ proc' = [proc EXCEPT !.outs = With(@, t, want.outs[t])]
  /\ todo' = todo \ {t}
  /\ UNCHANGED <<running, want, file, stage, fresh, sessions>>

Rmi(i) ==
  /\ stage \in {"rmiChanged", "rmiGone"}
  /\ i \in todo
  /\ proc' = [proc EXCEPT !.ins = Without(@, i)]
  /\ todo' = todo \ {i}
  /\ fresh' = FALSE
  /\ UNCHANGED <<running, want, file, stage, sessions>>

Adi(i) ==
  /\ stage = "adi"
  /\ i \in todo
  /\ i \notin DOMAIN proc.ins
  /\ proc' = [proc EXCEPT !.ins = With(@, i, want.ins[i])]
  /\ todo' = todo \ {i}
  /\ fresh' = FALSE
  /\ UNCHANGED <<running, want, file, stage, sessions>>

\* `xray api adrules` without -append replaces rules and balancers.
Adrules ==
  /\ stage = "adrules"
  /\ proc' = [proc EXCEPT !.routing = want.routing]
  /\ stage' = "rmiGone"
  /\ todo' = StageTodo("rmiGone", running, want)
  /\ fresh' = TRUE
  /\ UNCHANGED <<running, want, file, sessions>>

NextStage == [rmoChanged |-> "ado", ado |-> "rmiChanged", rmiChanged |-> "adi",
              adi |-> "adrules", rmiGone |-> "rmoGone"]

CallDone ==
  /\ stage \in DOMAIN NextStage
  /\ todo = {}
  /\ stage' = NextStage[stage]
  /\ todo' = StageTodo(stage', running, want)
  /\ fresh' = TRUE
  /\ UNCHANGED <<running, want, file, proc, sessions>>

\* applyLive returned true: applyLocked records the new config.
Finish ==
  /\ stage = "rmoGone"
  /\ todo = {}
  /\ stage' = "idle"
  /\ running' = want
  /\ UNCHANGED <<want, file, proc, todo, fresh, sessions>>

\* A call fails; applyLocked falls back to a restart.
CallFails ==
  /\ stage \in Stages
  /\ todo # {} \/ (stage = "adrules" /\ want.routing # running.routing)
  /\ stage' = "restart"
  /\ todo' = {}
  /\ UNCHANGED <<running, want, file, proc, fresh, sessions>>

\* Watchdog.Restart: the child is replaced by one that reads config.json.
Restart ==
  /\ stage = "restart"
  /\ stage' = "idle"
  /\ running' = want
  /\ proc' = file
  /\ sessions' = {}
  /\ fresh' = TRUE
  /\ UNCHANGED <<want, file, todo>>

\* The child dies and the watchdog respawns it from config.json.  A call that
\* is under way fails with its connection; the next one reaches the new child.
Respawn ==
  /\ proc' = file
  /\ sessions' = {}
  /\ IF stage \in Stages /\ ~fresh
       THEN stage' = "restart" /\ todo' = {}
       ELSE UNCHANGED <<stage, todo>>
  /\ UNCHANGED <<running, want, file, fresh>>

\* A client connects through an inbound that accepts it, or goes away.  xray
\* keeps the connections of an inbound that is removed or replaced.
Connect(i, k) ==
  /\ i \in DOMAIN proc.ins \ SlotIns
  /\ k \in proc.ins[i].creds
  /\ sessions' = sessions \cup {<<i, k>>}
  /\ UNCHANGED <<running, want, file, proc, stage, todo, fresh>>

Disconnect(s) ==
  /\ s \in sessions
  /\ sessions' = sessions \ {s}
  /\ UNCHANGED <<running, want, file, proc, stage, todo, fresh>>

LiveStep ==
  \/ \E t \in todo : Rmo(t) \/ Ado(t) \/ Rmi(t) \/ Adi(t)
  \/ Adrules \/ CallDone \/ Finish \/ CallFails \/ Restart

Clients ==
  \/ \E i \in DOMAIN proc.ins : \E k \in proc.ins[i].creds : Connect(i, k)
  \/ \E s \in sessions : Disconnect(s)

LiveNext ==
  \/ \E c \in Configs : Apply(c)
  \/ LiveStep
  \/ Respawn
  \/ Clients

LiveSpec == LiveInit /\ [][LiveNext]_liveVars

-----------------------------------------------------------------------------
(* Properties. *)

(* The type invariant. *)
LiveTypeOK ==
  /\ WellFormed(running)
  /\ WellFormed(want)
  /\ WellFormed(file)
  /\ IsConfig(proc)
  /\ stage \in Stages \cup {"idle", "restart"}
  /\ todo \subseteq StageTodo(stage, running, want)
  /\ fresh \in BOOLEAN

(* No outbound of the process ever names a dialerProxy that is not there:   *)
(* at no moment of an apply, a failed one included, can a master dial       *)
(* without its pool (xray_live.go:221-228, 287-291).                        *)
NoDangling ==
  \A t \in DOMAIN proc.outs :
    proc.outs[t].dialer # NoTag => proc.outs[t].dialer \in DOMAIN proc.outs

(* An apply that is over, live or by restart, left the process running      *)
(* exactly the config the daemon believes it runs (xray_live.go:284-286).   *)
Converged == stage = "idle" => proc = running /\ file = running

(* Once a revocation has been applied no connection of the revoked client   *)
(* is left (xray_live.go:199-202).                                          *)
RevokedIsCut ==
  stage = "idle" => \A s \in sessions : s[2] \in Creds(running, s[1])

Same(f, g) == {t \in DOMAIN f \cap DOMAIN g : f[t] = g[t]}

(* Outside a restart, an object that is the same in both configs, and does  *)
(* not dial through one that changes, is never taken away, so connections   *)
(* through it are not touched (xray_live.go:18-20).                         *)
UnchangedStays ==
  stage \in Stages =>
    /\ \A t \in Same(running.outs, want.outs) :
         Dialer(want, t) \in {NoTag} \cup Same(running.outs, want.outs)
           => t \in DOMAIN proc.outs /\ proc.outs[t] = want.outs[t]
    /\ \A i \in Same(running.ins, want.ins) :
         i \in DOMAIN proc.ins /\ proc.ins[i] = want.ins[i]
=============================================================================
