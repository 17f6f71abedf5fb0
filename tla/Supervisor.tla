----------------------------- MODULE Supervisor -----------------------------
(***************************************************************************)
(* daemon/xray.go over daemon/watchdog.go: what Reconcile, RestartXray and *)
(* the health monitor do with the xray process - start it, stop it, bring  *)
(* it to a new config, start it on the last good one, or leave it alone -  *)
(* step by step, with the supervise goroutine and the process running      *)
(* beside them.  A caller is an RPC handler, or the monitor.               *)
(*                                                                         *)
(* A config is a value: how it is made is XrayConfig's, how it is tested   *)
(* Reconcile's, and a live apply, whose calls are LiveApply's, is one step.*)
(***************************************************************************)
EXTENDS Watchdog

CONSTANTS Confs,         \* configs
          NoConf,        \* s.running = nil, or no config.json, or not read yet
          Mixed,         \* a process that was brought from a config it did not run
          Monitor,       \* the caller that is the health monitor
          FailureLimit   \* xrayHealthFailureLimit

\* Every method takes s.mu.
ASSUME SupervisorAssumption ==
  /\ Monitor \in Callers
  /\ Unlocked = {}
  /\ NoConf \notin Confs
  /\ Mixed \notin Confs \cup {NoConf}
  /\ FailureLimit \in Nat \ {0}

VARIABLES
  store,     \* what is stored: the config it makes, and what reconcile finds of it
  file,      \* config.json
  sRunning,  \* s.running
  loaded,    \* the config the child runs; NoConf until it has read config.json
  spc,       \* where each caller is in the Supervisor's methods
  cfg,       \* the config each caller is applying
  last,      \* how the last reconcile of what is stored now ended, if one did
  failures   \* s.healthFailures

confVars == <<store, file, sRunning, loaded>>
supVars == <<wdVars, confVars, spc, cfg, last, failures>>

Stores == [conf : Confs, routable : BOOLEAN, valid : BOOLEAN]
Methods == {"reconcile", "restartXray"}
Queued == [reconcile |-> "waitReconcile", restartXray |-> "waitRestartXray"]
SupStates == {"idle", "stopFirst", "stopAll", "start", "bring", "restart", "lastGood", "return"}
             \cup Methods \cup {Queued[m] : m \in Methods}

(* The type invariant. *)
SupTypeOK ==
  /\ TypeOK
  /\ store \in Stores
  /\ file \in Confs \cup {NoConf}
  /\ sRunning \in Confs \cup {NoConf}
  /\ loaded \in Confs \cup {NoConf, Mixed}
  /\ spc \in [Callers -> SupStates]
  /\ cfg \in [Callers -> Confs \cup {NoConf}]
  /\ last \in {"none", "ok", "failed"}
  /\ failures \in 0 .. FailureLimit

\* The daemon has started and not reconciled yet; config.json may be there
\* from an earlier run.
SupInit ==
  /\ WdInit
  /\ store \in Stores
  /\ file \in Confs \cup {NoConf}
  /\ sRunning = NoConf
  /\ loaded = NoConf
  /\ spc = [c \in Callers |-> "idle"]
  /\ cfg = [c \in Callers |-> NoConf]
  /\ last = "none"
  /\ failures = 0

Goto(c, s) == spc' = [spc EXCEPT ![c] = s]

-----------------------------------------------------------------------------
(* What runs beside the callers. *)

\* The supervise goroutine and the process.  A new child has read nothing yet.
Beside ==
  /\ \/ Spawn /\ loaded' = NoConf
     \/ (LoopTop \/ SpawnFails \/ Register \/ Reap \/ Wake \/ LoopExit) /\ UNCHANGED loaded
     \/ (CloseDone \/ ChildExit) /\ UNCHANGED loaded
  /\ UNCHANGED <<store, file, sRunning, spc, cfg, last, failures>>

\* The child reads config.json some time after it was started.
ChildReads ==
  /\ child = "up"
  /\ loaded = NoConf
  /\ loaded' = file
  /\ UNCHANGED <<wdVars, store, file, sRunning, spc, cfg, last, failures>>

\* A caller changes what is stored, and reconciles next.
ChangeStore(c, d) ==
  /\ spc[c] = "idle"
  /\ c # Monitor
  /\ store' = d
  /\ last' = "none"
  /\ Goto(c, Queued["reconcile"])
  /\ UNCHANGED <<wdVars, file, sRunning, loaded, cfg, failures>>

\* RPC RestartXray.
AskRestart(c) ==
  /\ spc[c] = "idle"
  /\ c # Monitor
  /\ Goto(c, Queued["restartXray"])
  /\ UNCHANGED <<wdVars, confVars, cfg, last, failures>>

-----------------------------------------------------------------------------
(* checkXrayHealth, on a tick. *)

\* Mutant of CheckDown: only a started xray is looked after.
CheckDownStarted ==
  /\ spc[Monitor] = "idle"
  /\ ~running
  /\ IsStarted
  /\ Goto(Monitor, Queued["reconcile"])
  /\ UNCHANGED <<wdVars, confVars, cfg, last, failures>>

\* Down and the watchdog not looping: try again to bring it up.
CheckDown ==
  /\ spc[Monitor] = "idle"
  /\ ~running
  /\ ~IsStarted
  /\ Goto(Monitor, Queued["reconcile"])
  /\ UNCHANGED <<wdVars, confVars, cfg, last, failures>>

\* recordHealthResult of a process whose api answers, and of one that does not:
\* it is wedged, or its child has not read its config yet, or just died.
CheckAnswers ==
  /\ spc[Monitor] = "idle"
  /\ running
  /\ child = "up" /\ loaded # NoConf
  /\ failures' = 0
  /\ UNCHANGED <<wdVars, confVars, spc, cfg, last>>

CheckFails ==
  /\ spc[Monitor] = "idle"
  /\ running
  /\ failures' = failures + 1
  /\ IF failures' >= FailureLimit THEN Goto(Monitor, Queued["restartXray"]) ELSE UNCHANGED spc
  /\ UNCHANGED <<wdVars, confVars, cfg, last>>

-----------------------------------------------------------------------------
(* The methods, under s.mu. *)

\* Mutant of Enter: a method begins while another caller is in one.
EnterUnlocked(c) ==
  /\ mu # c
  /\ mu' = c
  /\ \E m \in Methods :
       /\ spc[c] = Queued[m]
       /\ Goto(c, m)
       /\ failures' = IF m = "restartXray" THEN 0 ELSE failures
  /\ UNCHANGED <<loopVars, childVars, callVars, panicked, confVars, cfg, last>>

\* s.mu.Lock; RestartXray also forgets the failed checks.
Enter(c) ==
  /\ Lock(c)
  /\ \E m \in Methods :
       /\ spc[c] = Queued[m]
       /\ Goto(c, m)
       /\ failures' = IF m = "restartXray" THEN 0 ELSE failures
  /\ UNCHANGED <<confVars, cfg, last>>

\* RestartXray stops first, so that a hung child is killed.
StopFirst(c) ==
  /\ spc[c] = "restartXray"
  /\ \/ StopCapture(c)
     \/ stopCh = "nil" /\ UNCHANGED wdVars
  /\ Goto(c, "stopFirst")
  /\ UNCHANGED <<confVars, cfg, last, failures>>

StoppedFirst(c) ==
  /\ spc[c] = "stopFirst"
  /\ pc[c] = "idle"
  /\ sRunning' = NoConf
  /\ Goto(c, "reconcile")
  /\ UNCHANGED <<wdVars, store, file, loaded, cfg, last, failures>>

\* The config is refused, or Generate or the store fails.
Refused(c) ==
  /\ spc[c] = "reconcile"
  /\ ~store.valid
  /\ last' = "failed"
  /\ Goto(c, "lastGood")
  /\ UNCHANGED <<wdVars, confVars, cfg, failures>>

\* Nothing is routable: xray is stopped.
Unroutable(c) ==
  /\ spc[c] = "reconcile"
  /\ store.valid
  /\ ~store.routable
  /\ last' = "ok"
  /\ IF IsStarted THEN StopCapture(c) ELSE UNCHANGED wdVars
  /\ Goto(c, "stopAll")
  /\ UNCHANGED <<confVars, cfg, failures>>

StoppedAll(c) ==
  /\ spc[c] = "stopAll"
  /\ pc[c] = "idle"
  /\ sRunning' = NoConf
  /\ Goto(c, "return")
  /\ UNCHANGED <<wdVars, store, file, loaded, cfg, last, failures>>

\* A reconcile that changes nothing does not touch xray.
Unchanged(c) ==
  /\ spc[c] = "reconcile"
  /\ store.valid /\ store.routable
  /\ IsStarted /\ sRunning = store.conf
  /\ last' = "ok"
  /\ Goto(c, "return")
  /\ UNCHANGED <<wdVars, confVars, cfg, failures>>

Differs(c) ==
  /\ spc[c] = "reconcile"
  /\ store.valid /\ store.routable
  /\ ~IsStarted \/ sRunning # store.conf

\* writeFileAtomic fails: nothing has changed.
WriteFails(c) ==
  /\ Differs(c)
  /\ last' = "failed"
  /\ Goto(c, "lastGood")
  /\ UNCHANGED <<wdVars, confVars, cfg, failures>>

\* Mutant of WriteFile: only a start writes config.json.
WriteFileForStart(c) ==
  /\ Differs(c)
  /\ last' = "ok"
  /\ file' = IF IsStarted THEN file ELSE store.conf
  /\ cfg' = [cfg EXCEPT ![c] = store.conf]
  /\ Goto(c, IF IsStarted THEN "bring" ELSE "start")
  /\ UNCHANGED <<wdVars, store, sRunning, loaded, failures>>

\* config.json is written before the process is touched.
WriteFile(c) ==
  /\ Differs(c)
  /\ last' = "ok"
  /\ file' = store.conf
  /\ cfg' = [cfg EXCEPT ![c] = store.conf]
  /\ Goto(c, IF IsStarted THEN "bring" ELSE "start")
  /\ UNCHANGED <<wdVars, store, sRunning, loaded, failures>>

\* Watchdog.Start does nothing when stopCh is set.
StartUp(c) == IF stopCh = "nil" THEN Start(c) ELSE UNCHANGED wdVars

StartIt(c) ==
  /\ spc[c] = "start"
  /\ StartUp(c)
  /\ sRunning' = cfg[c]
  /\ Goto(c, "return")
  /\ UNCHANGED <<store, file, loaded, cfg, last, failures>>

\* applyLive: the api of a child that has come up takes the difference.  What
\* that makes of a child that does not run s.running is anybody's guess.
ApplyLive(c) ==
  /\ spc[c] = "bring"
  /\ sRunning # NoConf
  /\ child = "up" /\ loaded # NoConf
  /\ loaded' = IF loaded \in {sRunning, cfg[c]} THEN cfg[c] ELSE Mixed
  /\ sRunning' = cfg[c]
  /\ Goto(c, "return")
  /\ UNCHANGED <<wdVars, store, file, cfg, last, failures>>

\* It needs a restart, or a live apply failed.  Restart signals the child that
\* is published, if any.
RestartIt(c) ==
  /\ spc[c] = "bring"
  /\ \/ RestartCapture(c)
     \/ (~running \/ cmd = "none") /\ UNCHANGED wdVars
  /\ Goto(c, "restart")
  /\ UNCHANGED <<confVars, cfg, last, failures>>

Restarted(c) ==
  /\ spc[c] = "restart"
  /\ pc[c] = "idle"
  /\ sRunning' = cfg[c]
  /\ Goto(c, "return")
  /\ UNCHANGED <<wdVars, store, file, loaded, cfg, last, failures>>

\* Mutant of LastGood: xray stays down until a config is accepted.
LastGoodNever(c) ==
  /\ spc[c] = "lastGood"
  /\ UNCHANGED <<wdVars, sRunning>>
  /\ Goto(c, "return")
  /\ UNCHANGED <<store, file, loaded, cfg, last, failures>>

\* startLastGoodLocked, which reads the inbounds again.
LastGood(c) ==
  /\ spc[c] = "lastGood"
  /\ IF ~IsStarted /\ store.routable /\ file # NoConf
       THEN StartUp(c) /\ sRunning' = file
       ELSE UNCHANGED <<wdVars, sRunning>>
  /\ Goto(c, "return")
  /\ UNCHANGED <<store, file, loaded, cfg, last, failures>>

\* s.mu.Unlock.  RestartXray waits for the child to be published first, but
\* not longer than five seconds; the monitor then forgets the failed checks.
Leave(c) ==
  /\ spc[c] = "return"
  /\ Unlock(c)
  /\ Goto(c, "idle")
  /\ cfg' = [cfg EXCEPT ![c] = NoConf]
  /\ failures' = IF c = Monitor /\ failures = FailureLimit THEN 0 ELSE failures
  /\ UNCHANGED <<confVars, last>>

\* A Watchdog call under way.
InCall(c) == CallStep(c) /\ UNCHANGED <<confVars, spc, cfg, last, failures>>

-----------------------------------------------------------------------------
MethodStep(c) ==
  \/ Enter(c)
  \/ StopFirst(c) \/ StoppedFirst(c)
  \/ Refused(c) \/ Unroutable(c) \/ StoppedAll(c) \/ Unchanged(c)
  \/ WriteFails(c) \/ WriteFile(c)
  \/ StartIt(c) \/ ApplyLive(c) \/ RestartIt(c) \/ Restarted(c)
  \/ LastGood(c) \/ Leave(c)
  \/ InCall(c)

Check == CheckDown \/ CheckAnswers \/ CheckFails

SupNext ==
  \/ Beside
  \/ ChildReads
  \/ \E c \in Callers :
       \/ \E d \in Stores : ChangeStore(c, d)
       \/ AskRestart(c)
       \/ MethodStep(c)
  \/ Check

\* The monitor's ticker goes on, and a mutex that is free is taken by someone
\* who waits for it.  A write of config.json does not fail for ever.
SupFairness ==
  /\ WF_supVars(Check)
  /\ WF_supVars(\E c \in Callers : MethodStep(c))
  /\ \A c \in Callers : SF_supVars(StartIt(c) \/ WriteFile(c))

SupSpec == SupInit /\ [][SupNext]_supVars /\ SupFairness

\* With the watchdog's own goroutines, timers and signals.
SupWdSpec == SupSpec /\ WdFairness

-----------------------------------------------------------------------------
(* Properties. *)

(* Between reconciles the daemon believes that xray runs a config exactly   *)
(* when the watchdog is started, and a respawned child reads that config    *)
(* (xray.go:38-40, 246-247).                                                *)
BeliefIsFile ==
  mu = Nobody => /\ (sRunning # NoConf) = IsStarted
                 /\ sRunning # NoConf => file = sRunning

(* A refused config, or one that cannot be written, does not leave the box  *)
(* without its listeners while there is a config that was accepted before,  *)
(* not even when RestartXray has stopped it already (xray.go:134-138).      *)
KeepsServing ==
  mu = Nobody /\ last = "failed" /\ store.routable /\ file # NoConf => IsStarted

(* When nothing is routable no xray process is left (xray.go:236-243).      *)
NothingRoutableNoChild ==
  mu = Nobody /\ last = "ok" /\ ~store.routable => ~IsStarted /\ child = "none"

(* RestartXray never no-ops (xray.go:342-346): it goes on to reconcile when *)
(* the process that was there is gone, published or not, hung or not.       *)
RestartXrayCycles ==
  \A c \in Callers : spc[c] = "stopFirst" /\ pc[c] = "idle" => child = "none" /\ ~IsStarted

(* While what is stored can run, xray does not stay down: whatever kept it  *)
(* down, the monitor's retry brings it up (xray.go:426-428).                *)
Runnable == store.valid /\ store.routable
ComesBack == (mu = Nobody /\ Runnable /\ ~IsStarted) ~> (IsStarted \/ ~Runnable)
=============================================================================
