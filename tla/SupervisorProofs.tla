-------------------------- MODULE SupervisorProofs ---------------------------
(***************************************************************************)
(* What TLAPS proves of the watchdog for every set of callers: its type    *)
(* invariant, that a stopped watchdog has no child, that w.running names   *)
(* the current child, and, when every caller holds Supervisor.mu, that no  *)
(* done channel is closed twice and no Stop waits on a lost one.           *)
(*                                                                         *)
(* And of the Supervisor, for any callers, configs and failure limit: it   *)
(* only takes the watchdog's own steps, so that what is proved of the      *)
(* watchdog under Supervisor.mu holds of it; and that the daemon's belief, *)
(* config.json and the process stay together.                              *)
(*                                                                         *)
(* And of the daemons that share a layout, for any number of them, of      *)
(* commands and of kills: the type invariant; and, when the commands are   *)
(* given from one shell, one after another, that one daemon at a time owns *)
(* the layout, that this implements the lease of Lease, and that a serving *)
(* daemon is alone with its own xray and has the database whole.           *)
(***************************************************************************)
EXTENDS Supervisor, Lifecycle, TLAPS

-----------------------------------------------------------------------------
(* The watchdog.                                                           *)

(* Nothing runs when the watchdog is made (watchdog.go:39). *)
LEMMA WdInitType == WdInit => TypeOK
<1> SUFFICES ASSUME WdInit PROVE TypeOK
  OBVIOUS
<1> USE DEF WdInit, LoopStates, CallStates, Procs
<1>1. /\ mu \in Callers \cup {Nobody}
      /\ stopCh \in {"nil", "open", "closed"} /\ doneCh \in {"nil", "open", "closed"}
      /\ cmd \in Procs /\ loop \in LoopStates /\ closing \in Nat
      /\ child \in {"none", "up", "exited"}
  OBVIOUS
<1>2. /\ running \in BOOLEAN /\ termed \in BOOLEAN
      /\ killed \in BOOLEAN /\ panicked \in BOOLEAN
  OBVIOUS
<1>3. /\ pc \in [Callers -> CallStates]
      /\ target \in [Callers -> Procs]
      /\ waitsOn \in [Callers -> {"none", "current", "closed", "lost"}]
  OBVIOUS
<1>4. QED
  BY <1>1, <1>2, <1>3 DEF TypeOK

(* Every variable keeps its type under every interleaving of the supervise  *)
(* goroutine (watchdog.go:57) with any number of callers.                   *)
THEOREM TypeInvariant == WdSafety => []TypeOK
<1> USE DEF LoopStates, CallStates, Procs
<1>1. WdInit => TypeOK
  BY WdInitType
<1>2. TypeOK /\ [WdNext]_wdVars => TypeOK'
  <2> SUFFICES ASSUME TypeOK, [WdNext]_wdVars PROVE TypeOK'
    OBVIOUS
  <2> USE DEF TypeOK, loopVars, childVars, callVars, wdVars
  <2>1. CASE LoopTop \/ SpawnFails \/ Wake
    BY <2>1 DEF LoopTop, SpawnFails, Wake
  <2>2. CASE Spawn \/ Register
    BY <2>2 DEF Spawn, Register
  <2>3. CASE Reap
    <3>1. target' \in [Callers -> Procs]
      BY <2>3 DEF Reap, Retire
    <3>2. QED
      BY <2>3, <3>1 DEF Reap, Retire
  <2>4. CASE LoopExit
    <3>1. closing' \in Nat
      BY <2>4 DEF LoopExit
    <3>2. QED
      BY <2>4, <3>1 DEF LoopExit
  <2>5. CASE CloseDone
    <3>1. panicked' \in BOOLEAN
      BY <2>5 DEF CloseDone
    <3>2. waitsOn' \in [Callers -> {"none", "current", "closed", "lost"}]
      BY <2>5 DEF CloseDone
    <3>3. closing' \in Nat
      BY <2>5 DEF CloseDone
    <3>4. QED
      BY <2>5, <3>1, <3>2, <3>3 DEF CloseDone
  <2>6. CASE ChildExit
    BY <2>6 DEF ChildExit
  <2>7. ASSUME NEW c \in Callers, Lock(c) \/ Unlock(c) PROVE TypeOK'
    BY <2>7 DEF Lock, Unlock
  <2>8. ASSUME NEW c \in Callers, Start(c) PROVE TypeOK'
    BY <2>8 DEF Start
  <2>9. ASSUME NEW c \in Callers, StopCapture(c) PROVE TypeOK'
    BY <2>9 DEF StopCapture
  <2>10. ASSUME NEW c \in Callers, RestartCapture(c) PROVE TypeOK'
    BY <2>10 DEF RestartCapture
  <2>11. ASSUME NEW c \in Callers, StopSignal(c) \/ RestartSignal(c) PROVE TypeOK'
    <3>1. termed' \in BOOLEAN
      BY <2>11 DEF StopSignal, RestartSignal
    <3>2. QED
      BY <2>11, <3>1 DEF StopSignal, RestartSignal
  <2>12. ASSUME NEW c \in Callers, StopKill(c) PROVE TypeOK'
    <3>1. killed' \in BOOLEAN
      BY <2>12 DEF StopKill
    <3>2. QED
      BY <2>12, <3>1 DEF StopKill
  <2>13. ASSUME NEW c \in Callers, StopReturn(c) PROVE TypeOK'
    BY <2>13 DEF StopReturn
  <2>14. CASE UNCHANGED wdVars
    BY <2>14
  <2>15. QED
    BY <2>1, <2>2, <2>3, <2>4, <2>5, <2>6, <2>7, <2>8, <2>9, <2>10, <2>11, <2>12, <2>13, <2>14
    DEF WdNext, LoopStep, CallStep, StopStep
<1>3. QED
  BY <1>1, <1>2, PTL DEF WdSafety

(* The same of the whole specification.                                      *)
THEOREM TypeCorrect == WdSpec => []TypeOK
BY TypeInvariant, PTL DEF WdSpec

-----------------------------------------------------------------------------
(* The inductive invariant of the loop: where supervise is determines       *)
(* whether stopCh is set, whether a child exists, and what running and cmd  *)
(* say about it.  It speaks of no caller, so it needs no lock.              *)
LoopInv ==
  /\ stopCh = "nil" <=> loop = "none"
  /\ child # "none" <=> loop \in {"register", "wait"}
  /\ running <=> loop = "wait"
  /\ running => cmd = "current"

(* LoopInv holds in every state, whoever calls and with or without the lock. *)
THEOREM LoopInvariant == WdSafety => []LoopInv
<1> USE DEF LoopInv
<1>1. WdInit => LoopInv
  BY DEF WdInit
<1>2. TypeOK /\ LoopInv /\ [WdNext]_wdVars => LoopInv'
  <2> SUFFICES ASSUME TypeOK, LoopInv, [WdNext]_wdVars PROVE LoopInv'
    OBVIOUS
  <2> USE DEF loopVars, childVars, callVars, wdVars
  <2>1. CASE LoopTop \/ SpawnFails \/ Wake
    BY <2>1 DEF LoopTop, SpawnFails, Wake
  <2>2. CASE Spawn \/ Register
    BY <2>2 DEF Spawn, Register
  <2>3. CASE Reap
    BY <2>3 DEF Reap
  <2>4. CASE LoopExit
    BY <2>4 DEF LoopExit
  <2>5. CASE CloseDone
    BY <2>5 DEF CloseDone
  <2>6. CASE ChildExit
    BY <2>6 DEF ChildExit
  <2>7. ASSUME NEW c \in Callers, Start(c) PROVE LoopInv'
    BY <2>7 DEF Start
  <2>8. ASSUME NEW c \in Callers, StopCapture(c) PROVE LoopInv'
    BY <2>8 DEF StopCapture
  <2>9. ASSUME NEW c \in Callers, Lock(c) \/ Unlock(c) \/ RestartCapture(c) \/ CallStep(c)
        PROVE LoopInv'
    BY <2>9 DEF Lock, Unlock, RestartCapture, CallStep, StopStep, StopSignal, StopKill,
                StopReturn, RestartSignal
  <2>10. CASE UNCHANGED wdVars
    BY <2>10
  <2>11. QED
    BY <2>1, <2>2, <2>3, <2>4, <2>5, <2>6, <2>7, <2>8, <2>9, <2>10 DEF WdNext, LoopStep
<1>3. QED
  BY <1>1, <1>2, TypeInvariant, PTL DEF WdSafety

(* A watchdog whose stopCh is nil (watchdog.go:62) has no xray process.      *)
THEOREM StoppedHasNoChildThm == WdSpec => []StoppedHasNoChild
<1>1. LoopInv => StoppedHasNoChild
  BY DEF LoopInv, StoppedHasNoChild
<1>2. QED
  BY <1>1, LoopInvariant, PTL DEF WdSpec

(* running is only true while w.cmd names the child supervise waits for      *)
(* (watchdog.go:93-97, 103-104).                                             *)
THEOREM RunningIsCurrentThm == WdSpec => []RunningIsCurrent
<1>1. LoopInv => RunningIsCurrent
  BY DEF LoopInv, RunningIsCurrent
<1>2. QED
  BY <1>1, LoopInvariant, PTL DEF WdSpec

-----------------------------------------------------------------------------
(* The inductive invariant of the done channels under the lock discipline:  *)
(* a Stop that is under way keeps Start out until the channel it waits on   *)
(* is closed, so w.doneCh still names that channel when supervise reads it. *)
DoneInv ==
  /\ \A c \in Callers : pc[c] # "idle" => mu = c
  /\ \A c \in Callers : pc[c] \in Stopping <=> waitsOn[c] # "none"
  /\ \A c \in Callers : waitsOn[c] # "lost"
  /\ \A c \in Callers : waitsOn[c] = "current" => doneCh = "open"
  /\ \A c \in Callers : waitsOn[c] = "closed" => loop = "none" /\ closing = 0
  /\ loop # "none" => doneCh = "open" /\ closing = 0
  /\ loop = "defer" => stopCh = "closed"
  /\ stopCh = "closed" \/ closing > 0 => \E c \in Callers : pc[c] \in Stopping
  /\ closing > 0 => closing = 1 /\ doneCh = "open"
  /\ ~panicked

(* With every caller under Supervisor.mu (xray.go:96, 347), DoneInv holds.   *)
THEOREM DoneInvariant == ASSUME Unlocked = {} PROVE WdSafety => []DoneInv
<1> USE CallersAssumption DEF DoneInv, Stopping
<1>1. WdInit => DoneInv
  BY DEF WdInit
<1>2. TypeOK /\ LoopInv /\ DoneInv /\ [WdNext]_wdVars => DoneInv'
  <2> SUFFICES ASSUME TypeOK, LoopInv, DoneInv, [WdNext]_wdVars PROVE DoneInv'
    OBVIOUS
  <2> USE DEF TypeOK, loopVars, childVars, callVars, wdVars
  <2>1. CASE LoopTop \/ SpawnFails \/ Wake
    BY <2>1 DEF LoopTop, SpawnFails, Wake
  <2>2. CASE Spawn \/ Register
    BY <2>2 DEF Spawn, Register
  <2>3. CASE Reap
    BY <2>3 DEF Reap
  <2>4. CASE LoopExit
    BY <2>4 DEF LoopExit
  <2>5. CASE CloseDone
    <3>1. closing = 1 /\ doneCh = "open" /\ loop = "none" /\ closing' = 0 /\ doneCh' = "closed"
      BY <2>5 DEF CloseDone
    <3>2. ~panicked'
      BY <2>5, <3>1 DEF CloseDone
    <3>3. \A c \in Callers : waitsOn'[c] = IF waitsOn[c] = "current" THEN "closed" ELSE waitsOn[c]
      BY <2>5 DEF CloseDone
    <3>4. stopCh' = "nil" /\ UNCHANGED <<mu, loop, pc>>
      BY <2>5, <3>1 DEF CloseDone, LoopInv
    <3>5. QED
      BY <3>1, <3>2, <3>3, <3>4
  <2>6. CASE ChildExit
    BY <2>6 DEF ChildExit
  <2>7. ASSUME NEW c \in Callers, Lock(c) \/ Unlock(c) PROVE DoneInv'
    BY <2>7 DEF Lock, Unlock
  <2>8. ASSUME NEW c \in Callers, Start(c) PROVE DoneInv'
    <3>1. \A d \in Callers : pc[d] = "idle" /\ waitsOn[d] = "none"
      BY <2>8, Unlocked = {} DEF Start, MayCall
    <3>2. closing = 0
      BY <3>1
    <3>3. waitsOn' = waitsOn
      BY <2>8, <3>1 DEF Start
    <3>4. QED
      BY <2>8, <3>1, <3>2, <3>3 DEF Start
  <2>9. ASSUME NEW c \in Callers, StopCapture(c) PROVE DoneInv'
    <3>1. mu = c /\ loop # "none" /\ doneCh = "open" /\ closing = 0
      BY <2>9, Unlocked = {} DEF StopCapture, MayCall, LoopInv
    <3>2. /\ waitsOn' = [waitsOn EXCEPT ![c] = "current"]
          /\ \E s \in {"stopWait", "stopSignal"} : pc' = [pc EXCEPT ![c] = s]
      BY <2>9, <3>1 DEF StopCapture
    <3>3. UNCHANGED <<mu, doneCh, loop, closing, panicked>> /\ stopCh' = "closed"
      BY <2>9 DEF StopCapture
    <3>4. QED
      BY <3>1, <3>2, <3>3
  <2>10. ASSUME NEW c \in Callers, RestartCapture(c) PROVE DoneInv'
    BY <2>10, Unlocked = {} DEF RestartCapture, MayCall
  <2>11. ASSUME NEW c \in Callers, RestartSignal(c) PROVE DoneInv'
    BY <2>11 DEF RestartSignal
  <2>12. ASSUME NEW c \in Callers, StopSignal(c) \/ StopKill(c) PROVE DoneInv'
    BY <2>12 DEF StopSignal, StopKill
  <2>13. ASSUME NEW c \in Callers, StopReturn(c) PROVE DoneInv'
    <3>1. loop = "none" /\ closing = 0 /\ stopCh = "nil"
      BY <2>13 DEF StopReturn, LoopInv
    <3>2. QED
      BY <2>13, <3>1 DEF StopReturn
  <2>14. CASE UNCHANGED wdVars
    BY <2>14
  <2>15. QED
    BY <2>1, <2>2, <2>3, <2>4, <2>5, <2>6, <2>7, <2>8, <2>9, <2>10, <2>11, <2>12, <2>13, <2>14
    DEF WdNext, LoopStep, CallStep, StopStep
<1>3. QED
  BY <1>1, <1>2, TypeInvariant, LoopInvariant, PTL DEF WdSafety

(* Under the lock, supervise's defer (watchdog.go:65) never closes a closed  *)
(* channel.                                                                  *)
THEOREM DoneClosedOnceThm == ASSUME Unlocked = {} PROVE WdSpec => []DoneClosedOnce
<1>1. DoneInv => DoneClosedOnce
  BY DEF DoneInv, DoneClosedOnce
<1>2. QED
  BY <1>1, DoneInvariant, PTL DEF WdSpec

(* Under the lock, a Stop (watchdog.go:153-165) never waits on a done        *)
(* channel that was replaced before it was closed.                           *)
THEOREM NoLostWaiterThm == ASSUME Unlocked = {} PROVE WdSpec => []NoLostWaiter
<1>1. DoneInv => NoLostWaiter
  BY DEF DoneInv, NoLostWaiter
<1>2. QED
  BY <1>1, DoneInvariant, PTL DEF WdSpec

-----------------------------------------------------------------------------
(* The Supervisor as a user of the watchdog. *)

(* Every step of the Supervisor is one of the watchdog, or leaves it alone. *)
LEMMA SupStepIsWdStep == [SupNext]_supVars => [WdNext]_wdVars
<1> SUFFICES ASSUME [SupNext]_supVars PROVE [WdNext]_wdVars
  OBVIOUS
<1>1. CASE Beside
  BY <1>1 DEF Beside, WdNext, LoopStep
<1>2. CASE ChildReads \/ Check
  BY <1>2 DEF ChildReads, Check, CheckDown, CheckAnswers, CheckFails
<1>3. ASSUME NEW c \in Callers, NEW d \in Stores, ChangeStore(c, d) PROVE [WdNext]_wdVars
  BY <1>3 DEF ChangeStore
<1>4. ASSUME NEW c \in Callers, AskRestart(c) PROVE [WdNext]_wdVars
  BY <1>4 DEF AskRestart
<1>5. ASSUME NEW c \in Callers, MethodStep(c) PROVE [WdNext]_wdVars
  <2>1. CASE Enter(c) \/ Leave(c)
    BY <2>1 DEF Enter, Leave, WdNext
  <2>2. CASE StopFirst(c) \/ Unroutable(c)
    BY <2>2 DEF StopFirst, Unroutable, WdNext
  <2>3. CASE StoppedFirst(c) \/ Refused(c) \/ StoppedAll(c) \/ Unchanged(c)
    BY <2>3 DEF StoppedFirst, Refused, StoppedAll, Unchanged
  <2>4. CASE WriteFails(c) \/ WriteFile(c) \/ ApplyLive(c) \/ Restarted(c)
    BY <2>4 DEF WriteFails, WriteFile, ApplyLive, Restarted
  <2>5. CASE StartIt(c) \/ LastGood(c)
    BY <2>5 DEF StartIt, LastGood, StartUp, WdNext
  <2>6. CASE RestartIt(c) \/ InCall(c)
    BY <2>6 DEF RestartIt, InCall, WdNext
  <2>7. QED
    BY <1>5, <2>1, <2>2, <2>3, <2>4, <2>5, <2>6 DEF MethodStep
<1>6. CASE UNCHANGED supVars
  BY <1>6 DEF supVars
<1>7. QED
  BY <1>1, <1>2, <1>3, <1>4, <1>5, <1>6 DEF SupNext

(* Reconcile, RestartXray and the health monitor (xray.go:95, 342, 426) use *)
(* the watchdog as Watchdog's callers do.                                   *)
THEOREM ImplementsWatchdog == SupSpec => WdSafety
<1>1. SupInit => WdInit
  BY DEF SupInit
<1>2. QED
  BY <1>1, SupStepIsWdStep, PTL DEF SupSpec, WdSafety

(* What is proved of the watchdog under the lock, of the Supervisor.        *)
WdInv == TypeOK /\ LoopInv /\ DoneInv

LEMMA WdInvHolds == SupSpec => []WdInv
<1>1. Unlocked = {}
  BY SupervisorAssumption
<1>2. QED
  BY <1>1, ImplementsWatchdog, TypeInvariant, LoopInvariant, DoneInvariant, PTL DEF WdInv

-----------------------------------------------------------------------------
(* The inductive invariant. *)

InMethod == {"stopFirst", "stopAll", "start", "bring", "restart", "lastGood", "return"} \cup Methods
AtStop == {"stopFirst", "stopAll"}

\* The methods exclude each other, and call the watchdog where they say.
CallsInv ==
  /\ \A c \in Callers : spc[c] \in InMethod <=> mu = c
  /\ \A c \in Callers : pc[c] \in Stopping => spc[c] \in AtStop
  /\ \A c \in Callers : pc[c] # "idle" => spc[c] \in AtStop \cup {"restart"}

Agree ==
  /\ (sRunning # NoConf) = IsStarted
  /\ sRunning # NoConf => file = sRunning
  /\ stopCh # "closed"

\* Where the belief, the file and the process agree, and what holds of them
\* where one of them is already changed.
Between == {"restartXray", "reconcile", "lastGood", "return"}
Bringing == {"start", "bring", "restart"}

ProcessInv ==
  /\ mu = Nobody => Agree
  /\ \A c \in Callers :
       /\ spc[c] \in Between => Agree
       /\ spc[c] \in AtStop => stopCh # "open"
       /\ spc[c] \in Bringing => file = cfg[c] /\ cfg[c] \in Confs
       /\ spc[c] = "start" => stopCh = "nil"
       /\ spc[c] \in {"bring", "restart"} => stopCh = "open" /\ sRunning # NoConf

\* What the outcome of the last reconcile says of the process.
OutcomeInv ==
  /\ last = "failed" /\ store.routable /\ file # NoConf =>
       IsStarted \/ \E c \in Callers : spc[c] \in {"stopFirst", "reconcile", "lastGood"}
  /\ \A c \in Callers : spc[c] \in Bringing \cup {"stopAll"} => last # "failed"
  /\ \A c \in Callers : spc[c] \in Bringing /\ last = "ok" => store.routable
  /\ last = "ok" /\ ~store.routable =>
       stopCh = "nil" \/ \E c \in Callers : spc[c] = "stopAll"

\* The monitor restarts xray when the limit is reached, before it counts on.
CountInv == failures = FailureLimit => spc[Monitor] = Queued["restartXray"]

SupInv == CallsInv /\ ProcessInv /\ OutcomeInv

-----------------------------------------------------------------------------
(* Type correctness. *)

LEMMA StoreType == ASSUME store \in Stores
                   PROVE store.conf \in Confs /\ store.routable \in BOOLEAN /\ store.valid \in BOOLEAN
BY DEF Stores

LEMMA TypeStep == SupTypeOK /\ CountInv /\ TypeOK' /\ [SupNext]_supVars => SupTypeOK' /\ CountInv'
<1> SUFFICES ASSUME SupTypeOK, CountInv, TypeOK', [SupNext]_supVars PROVE SupTypeOK' /\ CountInv'
  OBVIOUS
<1> USE SupervisorAssumption, StoreType DEF SupTypeOK, CountInv, SupStates, Methods, Queued, Goto, confVars
<1>1. CASE Beside
  BY <1>1 DEF Beside
<1>2. CASE ChildReads
  BY <1>2 DEF ChildReads
<1>3. CASE CheckDown
  BY <1>3 DEF CheckDown
<1>4. CASE CheckAnswers
  BY <1>4 DEF CheckAnswers
<1>5. CASE CheckFails
  BY <1>5 DEF CheckFails
<1>6. ASSUME NEW c \in Callers, NEW d \in Stores, ChangeStore(c, d) PROVE SupTypeOK' /\ CountInv'
  BY <1>6 DEF ChangeStore
<1>7. ASSUME NEW c \in Callers, AskRestart(c) PROVE SupTypeOK' /\ CountInv'
  BY <1>7 DEF AskRestart
<1>8. ASSUME NEW c \in Callers, MethodStep(c) PROVE SupTypeOK' /\ CountInv'
  <2>1. CASE Enter(c)
    BY <2>1 DEF Enter
  <2>2. CASE StopFirst(c) \/ StoppedFirst(c) \/ StoppedAll(c)
    BY <2>2 DEF StopFirst, StoppedFirst, StoppedAll
  <2>3. CASE Refused(c) \/ Unroutable(c)
    BY <2>3 DEF Refused, Unroutable
  <2>11. CASE Unchanged(c)
    BY <2>11 DEF Unchanged
  <2>4. CASE WriteFails(c)
    BY <2>4 DEF WriteFails, Differs
  <2>12. CASE WriteFile(c)
    BY <2>12 DEF WriteFile, Differs
  <2>5. CASE StartIt(c) \/ LastGood(c)
    BY <2>5 DEF StartIt, LastGood
  <2>6. CASE ApplyLive(c)
    BY <2>6 DEF ApplyLive
  <2>7. CASE RestartIt(c) \/ Restarted(c)
    BY <2>7 DEF RestartIt, Restarted
  <2>8. CASE Leave(c)
    BY <2>8 DEF Leave
  <2>9. CASE InCall(c)
    BY <2>9 DEF InCall
  <2>10. QED
    BY <1>8, <2>1, <2>2, <2>3, <2>4, <2>5, <2>6, <2>7, <2>8, <2>9, <2>11, <2>12 DEF MethodStep
<1>9. CASE UNCHANGED supVars
  BY <1>9 DEF supVars
<1>10. QED
  BY <1>1, <1>2, <1>3, <1>4, <1>5, <1>6, <1>7, <1>8, <1>9 DEF SupNext, Check

(* The types of the Supervisor's state; in particular the monitor never     *)
(* counts past its limit (xray.go:472).                                     *)
THEOREM SupTypeCorrect == SupSpec => []SupTypeOK
<1>1. SupInit => SupTypeOK /\ CountInv
  <2>1. SupInit => TypeOK
    BY WdInitType DEF SupInit
  <2>2. QED
    BY <2>1, SupervisorAssumption DEF SupInit, SupTypeOK, SupStates, CountInv
<1>2. QED
  BY <1>1, TypeStep, WdInvHolds, PTL DEF SupSpec, WdInv

-----------------------------------------------------------------------------
(* What the steps do to stopCh and to the callers' watchdog calls. *)

\* The supervise goroutine and the child: only the loop's exit, after a stop,
\* changes stopCh.
LEMMA BesideFrame ==
  ASSUME DoneInv, Beside
  PROVE  /\ UNCHANGED <<mu, pc, store, file, sRunning, spc, cfg, last, failures>>
         /\ stopCh' = stopCh \/ (stopCh = "closed" /\ stopCh' = "nil")
<1> USE DEF loopVars, childVars, callVars
<1>1. CASE LoopExit
  BY <1>1 DEF Beside, LoopExit, DoneInv
<1>2. CASE LoopTop \/ SpawnFails \/ Spawn \/ Register
  BY <1>2 DEF Beside, LoopTop, SpawnFails, Spawn, Register
<1>3. CASE Reap \/ Wake \/ CloseDone \/ ChildExit
  BY <1>3 DEF Beside, Reap, Wake, CloseDone, ChildExit
<1>4. QED
  BY <1>1, <1>2, <1>3 DEF Beside

\* The rest of a call: it goes on to be the same kind of call, or ends.
LEMMA CallFrame ==
  ASSUME TypeOK, NEW c \in Callers, CallStep(c)
  PROVE  /\ UNCHANGED <<mu, stopCh>>
         /\ \A d \in Callers : pc'[d] = pc[d] \/ pc'[d] = "idle" \/ (pc[d] \in Stopping /\ pc'[d] \in Stopping)
<1> USE DEF loopVars, childVars, callVars, Stopping, TypeOK
<1>1. CASE StopSignal(c)
  BY <1>1 DEF StopSignal
<1>2. CASE StopKill(c)
  BY <1>2 DEF StopKill
<1>3. CASE StopReturn(c)
  BY <1>3 DEF StopReturn
<1>4. CASE RestartSignal(c)
  BY <1>4 DEF RestartSignal
<1>5. QED
  BY <1>1, <1>2, <1>3, <1>4 DEF CallStep, StopStep

\* The calls the methods begin.
LEMMA BeginFrame ==
  ASSUME TypeOK, NEW c \in Callers
  PROVE  /\ StartUp(c) => /\ UNCHANGED <<mu, pc>>
                          /\ stopCh' = IF stopCh = "nil" THEN "open" ELSE stopCh
         /\ StopCapture(c) => /\ UNCHANGED mu
                              /\ stopCh # "nil" /\ stopCh' = "closed"
                              /\ pc'[c] \in Stopping
                              /\ \A d \in Callers \ {c} : pc'[d] = pc[d]
         /\ RestartCapture(c) => /\ UNCHANGED <<mu, stopCh>>
                                 /\ pc'[c] = "restartSignal"
                                 /\ \A d \in Callers \ {c} : pc'[d] = pc[d]
<1> USE DEF loopVars, childVars, callVars, wdVars, Stopping, TypeOK
<1>1. StartUp(c) => /\ UNCHANGED <<mu, pc>>
                    /\ stopCh' = IF stopCh = "nil" THEN "open" ELSE stopCh
  BY DEF StartUp, Start
<1>2. StopCapture(c) => /\ UNCHANGED mu
                        /\ stopCh # "nil" /\ stopCh' = "closed"
                        /\ pc'[c] \in Stopping
                        /\ \A d \in Callers \ {c} : pc'[d] = pc[d]
  BY DEF StopCapture
<1>3. RestartCapture(c) => /\ UNCHANGED <<mu, stopCh>>
                           /\ pc'[c] = "restartSignal"
                           /\ \A d \in Callers \ {c} : pc'[d] = pc[d]
  BY DEF RestartCapture
<1>4. QED
  BY <1>1, <1>2, <1>3

\* A stop channel is closed only while a Stop is under way.
LEMMA NotClosed ==
  ASSUME DoneInv, CallsInv, NEW c \in Callers, mu = c, pc[c] = "idle"
  PROVE  stopCh # "closed"
BY DEF DoneInv, Stopping

-----------------------------------------------------------------------------
(* The invariant is kept. *)

LEMMA CallsKept ==
  ASSUME TypeOK, TypeOK', SupTypeOK, DoneInv, CallsInv, SupNext
  PROVE  CallsInv'
<1> USE CallersAssumption DEF CallsInv, InMethod, AtStop, Methods, Queued, Goto, SupTypeOK, SupStates
<1>1. CASE Beside
  BY <1>1, BesideFrame
<1>2. CASE ChildReads \/ Check
  BY <1>2, SupervisorAssumption
  DEF ChildReads, Check, CheckDown, CheckAnswers, CheckFails, wdVars, callVars
<1>3. ASSUME NEW c \in Callers, NEW d \in Stores, ChangeStore(c, d) PROVE CallsInv'
  BY <1>3 DEF ChangeStore, wdVars, callVars
<1>4. ASSUME NEW c \in Callers, AskRestart(c) PROVE CallsInv'
  BY <1>4 DEF AskRestart, wdVars, callVars
<1>5. ASSUME NEW c \in Callers, MethodStep(c) PROVE CallsInv'
  <2>1. CASE Enter(c)
    BY <2>1 DEF Enter, Lock, callVars
  <2>2. CASE Leave(c)
    BY <2>2 DEF Leave, Unlock, callVars
  <2>3. CASE StopFirst(c)
    BY <2>3, BeginFrame DEF StopFirst, wdVars, callVars
  <2>4. CASE Unroutable(c)
    BY <2>4, BeginFrame DEF Unroutable, wdVars, callVars
  <2>5. CASE StoppedFirst(c) \/ StoppedAll(c)
    BY <2>5 DEF StoppedFirst, StoppedAll, Stopping, wdVars, callVars
  <2>11. CASE Restarted(c)
    BY <2>11 DEF Restarted, Stopping, wdVars, callVars
  <2>6. CASE Refused(c) \/ Unchanged(c) \/ WriteFails(c) \/ WriteFile(c) \/ ApplyLive(c)
    BY <2>6 DEF Refused, Unchanged, WriteFails, WriteFile, ApplyLive, Differs, wdVars, callVars
  <2>7. CASE StartIt(c) \/ LastGood(c)
    BY <2>7, BeginFrame DEF StartIt, LastGood, wdVars, callVars
  <2>8. CASE RestartIt(c)
    BY <2>8, BeginFrame DEF RestartIt, wdVars, callVars, Stopping
  <2>9. CASE InCall(c)
    BY <2>9, CallFrame DEF InCall, Stopping
  <2>10. QED
    BY <1>5, <2>1, <2>2, <2>3, <2>4, <2>5, <2>6, <2>7, <2>8, <2>9, <2>11 DEF MethodStep
<1>6. QED
  BY <1>1, <1>2, <1>3, <1>4, <1>5 DEF SupNext

LEMMA ProcessKept ==
  ASSUME TypeOK, SupTypeOK, DoneInv, CallsInv, ProcessInv, SupNext
  PROVE  ProcessInv'
<1> USE CallersAssumption, SupervisorAssumption
    DEF CallsInv, ProcessInv, Agree, IsStarted, InMethod, AtStop, Between, Bringing, Methods,
        Queued, Goto, SupTypeOK, SupStates
<1>1. CASE Beside
  <2>1. UNCHANGED <<mu, file, sRunning, spc, cfg>>
    BY <1>1, BesideFrame
  <2>2. CASE UNCHANGED stopCh
    BY <2>1, <2>2
  <2>3. CASE stopCh = "closed" /\ stopCh' = "nil"
    <3>1. PICK c \in Callers : pc[c] \in Stopping
      BY <2>3 DEF DoneInv
    <3>2. spc[c] \in AtStop /\ mu = c
      BY <3>1
    <3>3. QED
      BY <2>1, <2>3, <3>2
  <2>4. QED
    BY <1>1, <2>2, <2>3, BesideFrame
<1>2. CASE ChildReads \/ Check
  BY <1>2 DEF ChildReads, Check, CheckDown, CheckAnswers, CheckFails, wdVars, loopVars, confVars
<1>3. ASSUME NEW c \in Callers, NEW d \in Stores, ChangeStore(c, d) PROVE ProcessInv'
  BY <1>3 DEF ChangeStore, wdVars, loopVars
<1>4. ASSUME NEW c \in Callers, AskRestart(c) PROVE ProcessInv'
  BY <1>4 DEF AskRestart, wdVars, loopVars, confVars
<1>5. ASSUME NEW c \in Callers, MethodStep(c) PROVE ProcessInv'
  <2>1. CASE Enter(c)
    BY <2>1 DEF Enter, Lock, loopVars, confVars
  <2>2. CASE Leave(c)
    BY <2>2 DEF Leave, Unlock, loopVars, confVars
  <2>3. CASE StopFirst(c)
    BY <2>3, BeginFrame DEF StopFirst, wdVars, loopVars, confVars
  <2>4. CASE Unroutable(c)
    BY <2>4, BeginFrame DEF Unroutable, wdVars, loopVars, confVars
  <2>5. CASE StoppedFirst(c) \/ StoppedAll(c)
    <3>1. mu = c /\ stopCh = "nil"
      BY <2>5, NotClosed DEF StoppedFirst, StoppedAll, TypeOK
    <3>2. QED
      BY <2>5, <3>1 DEF StoppedFirst, StoppedAll, wdVars, loopVars
  <2>6. CASE Refused(c) \/ Unchanged(c) \/ WriteFails(c)
    BY <2>6 DEF Refused, Unchanged, WriteFails, Differs, wdVars, loopVars, confVars
  <2>7. CASE WriteFile(c)
    <3>1. mu = c /\ spc[c] = "reconcile" /\ Agree
      BY <2>7 DEF WriteFile, Differs
    <3>2. store.conf \in Confs /\ stopCh \in {"nil", "open", "closed"}
      BY StoreType DEF TypeOK
    <3>3. QED
      BY <2>7, <3>1, <3>2 DEF WriteFile, wdVars, loopVars
  <2>8. CASE ApplyLive(c) \/ Restarted(c)
    BY <2>8 DEF ApplyLive, Restarted, wdVars, loopVars
  <2>9. CASE StartIt(c) \/ LastGood(c)
    BY <2>9, BeginFrame DEF StartIt, LastGood, TypeOK, wdVars, loopVars
  <2>10. CASE RestartIt(c)
    BY <2>10, BeginFrame DEF RestartIt, wdVars, loopVars, confVars
  <2>11. CASE InCall(c)
    BY <2>11, CallFrame DEF InCall, confVars
  <2>12. QED
    BY <1>5, <2>1, <2>2, <2>3, <2>4, <2>5, <2>6, <2>7, <2>8, <2>9, <2>10, <2>11 DEF MethodStep
<1>6. QED
  BY <1>1, <1>2, <1>3, <1>4, <1>5 DEF SupNext

LEMMA OutcomeKept ==
  ASSUME TypeOK, SupTypeOK, DoneInv, CallsInv, ProcessInv, OutcomeInv, SupNext
  PROVE  OutcomeInv'
<1> USE CallersAssumption, SupervisorAssumption
    DEF CallsInv, ProcessInv, OutcomeInv, Agree, IsStarted, InMethod, AtStop, Between, Bringing,
        Methods, Queued, Goto, SupTypeOK, SupStates
<1>1. CASE Beside
  <2>1. UNCHANGED <<store, file, spc, last>>
    BY <1>1, BesideFrame
  <2>2. QED
    BY <1>1, <2>1, BesideFrame
<1>2. CASE ChildReads \/ Check
  BY <1>2 DEF ChildReads, Check, CheckDown, CheckAnswers, CheckFails, wdVars, loopVars, confVars
<1>3. ASSUME NEW c \in Callers, NEW d \in Stores, ChangeStore(c, d) PROVE OutcomeInv'
  BY <1>3 DEF ChangeStore, wdVars, loopVars
<1>4. ASSUME NEW c \in Callers, AskRestart(c) PROVE OutcomeInv'
  BY <1>4 DEF AskRestart, wdVars, loopVars, confVars
<1>5. ASSUME NEW c \in Callers, MethodStep(c) PROVE OutcomeInv'
  <2>1. CASE Enter(c)
    BY <2>1 DEF Enter, Lock, loopVars, confVars
  <2>2. CASE Leave(c)
    BY <2>2 DEF Leave, Unlock, loopVars, confVars
  <2>3. CASE StopFirst(c)
    BY <2>3, BeginFrame DEF StopFirst, wdVars, loopVars, confVars
  <2>4. CASE Unroutable(c)
    BY <2>4, BeginFrame DEF Unroutable, wdVars, loopVars, confVars
  <2>5. CASE StoppedFirst(c) \/ StoppedAll(c)
    <3>1. mu = c /\ stopCh = "nil"
      BY <2>5, NotClosed DEF StoppedFirst, StoppedAll, TypeOK
    <3>2. QED
      BY <2>5, <3>1 DEF StoppedFirst, StoppedAll, wdVars, loopVars
  <2>6. CASE Refused(c) \/ Unchanged(c) \/ WriteFails(c)
    BY <2>6 DEF Refused, Unchanged, WriteFails, Differs, wdVars, loopVars, confVars
  <2>7. CASE WriteFile(c)
    BY <2>7 DEF WriteFile, Differs, wdVars, loopVars
  <2>8. CASE ApplyLive(c) \/ Restarted(c)
    BY <2>8 DEF ApplyLive, Restarted, wdVars, loopVars
  <2>9. CASE StartIt(c)
    BY <2>9, BeginFrame DEF StartIt
  <2>13. CASE LastGood(c)
    BY <2>13, BeginFrame DEF LastGood, TypeOK, wdVars, loopVars
  <2>10. CASE RestartIt(c)
    BY <2>10, BeginFrame DEF RestartIt, wdVars, loopVars, confVars
  <2>11. CASE InCall(c)
    BY <2>11, CallFrame DEF InCall, confVars
  <2>12. QED
    BY <1>5, <2>1, <2>2, <2>3, <2>4, <2>5, <2>6, <2>7, <2>8, <2>9, <2>10, <2>11, <2>13 DEF MethodStep
<1>6. QED
  BY <1>1, <1>2, <1>3, <1>4, <1>5 DEF SupNext

(* SupInv holds in every state, whatever is stored, refused, or dies.       *)
THEOREM SupInvariant == SupSpec => []SupInv
<1>1. SupInit => SupInv
  BY CallersAssumption
  DEF SupInit, WdInit, SupInv, CallsInv, ProcessInv, OutcomeInv, Agree, IsStarted, InMethod,
      AtStop, Between, Bringing, Methods, Stopping
<1>2. WdInv /\ WdInv' /\ SupTypeOK /\ SupInv /\ [SupNext]_supVars => SupInv'
  <2> SUFFICES ASSUME WdInv, WdInv', SupTypeOK, SupInv, [SupNext]_supVars PROVE SupInv'
    OBVIOUS
  <2>1. CASE SupNext
    BY <2>1, CallsKept, ProcessKept, OutcomeKept DEF SupInv, WdInv
  <2>2. CASE UNCHANGED supVars
    BY <2>2
    DEF supVars, wdVars, loopVars, callVars, confVars, SupInv, CallsInv, ProcessInv, OutcomeInv,
        Agree, IsStarted
  <2>3. QED
    BY <2>1, <2>2
<1>3. QED
  BY <1>1, <1>2, WdInvHolds, SupTypeCorrect, PTL DEF SupSpec

-----------------------------------------------------------------------------
(* The properties. *)

(* When nobody is in a method, s.running is what a respawned child reads    *)
(* (xray.go:38-40, 246-280), after any failures on the way.                 *)
THEOREM BeliefIsFileThm == SupSpec => []BeliefIsFile
<1>1. SupInv => BeliefIsFile
  BY DEF SupInv, ProcessInv, Agree, BeliefIsFile
<1>2. QED
  BY <1>1, SupInvariant, PTL

(* startLastGoodLocked (xray.go:134-150) is reached from every failure that *)
(* leaves xray stopped.                                                     *)
THEOREM KeepsServingThm == SupSpec => []KeepsServing
<1>1. SupInv => KeepsServing
  <2>1. SUFFICES ASSUME SupInv, mu = Nobody, \E c \in Callers : spc[c] \in InMethod PROVE FALSE
    BY DEF SupInv, OutcomeInv, KeepsServing, InMethod, Methods
  <2>2. QED
    BY <2>1, CallersAssumption DEF SupInv, CallsInv
<1>2. QED
  BY <1>1, SupInvariant, PTL

(* A reconcile that finds nothing to route (xray.go:236-243) ends with the  *)
(* process gone, and no later step brings one back.                         *)
THEOREM NothingRoutableNoChildThm == SupSpec => []NothingRoutableNoChild
<1>1. WdInv /\ SupInv => NothingRoutableNoChild
  <2> SUFFICES ASSUME WdInv, SupInv, mu = Nobody, last = "ok", ~store.routable
               PROVE  ~IsStarted /\ child = "none"
    BY DEF NothingRoutableNoChild
  <2>1. \A c \in Callers : spc[c] # "stopAll"
    BY CallersAssumption DEF SupInv, CallsInv, InMethod
  <2>2. stopCh = "nil"
    BY <2>1 DEF SupInv, OutcomeInv
  <2>3. QED
    BY <2>2 DEF WdInv, LoopInv, IsStarted
<1>2. QED
  BY <1>1, WdInvHolds, SupInvariant, PTL

(* RestartXray (xray.go:347-356) reconciles with no process left over.      *)
THEOREM RestartXrayCyclesThm == SupSpec => []RestartXrayCycles
<1>1. WdInv /\ SupInv => RestartXrayCycles
  <2> SUFFICES ASSUME WdInv, SupInv, NEW c \in Callers, spc[c] = "stopFirst", pc[c] = "idle"
               PROVE  child = "none" /\ ~IsStarted
    BY DEF RestartXrayCycles
  <2>1. mu = c /\ stopCh # "open"
    BY DEF SupInv, CallsInv, ProcessInv, InMethod, AtStop
  <2>2. stopCh = "nil"
    BY <2>1, NotClosed DEF WdInv, SupInv, TypeOK
  <2>3. QED
    BY <2>2 DEF WdInv, LoopInv, IsStarted
<1>2. QED
  BY <1>1, WdInvHolds, SupInvariant, PTL

-----------------------------------------------------------------------------
(* Daemons that share a layout.                                            *)

(* Every variable keeps its type through any number of daemons, commands    *)
(* and kills (daemon.go:38-190, lifecycle.go).                              *)
THEOREM LifecycleType == Spec => []LifecycleTypeOK
<1> USE LifecycleAssumption
<1>1. Init => LifecycleTypeOK
  <2> SUFFICES ASSUME Init PROVE LifecycleTypeOK
    OBVIOUS
  <2> USE DEF Init, Legacy, None, AllCommands
  <2>1. torn \in BOOLEAN
    OBVIOUS
  <2>2. xray \subseteq Pids \cup {Legacy}
    OBVIOUS
  <2>3. /\ legacy \in {"up", "stopping", "gone"} /\ db \in {"none", "empty", "main", "whole"}
        /\ pidFile \in Pids \cup {None} /\ socket \in Pids \cup {None}
        /\ binary \in {"old", "new"} /\ commands \in Nat /\ crashes \in Nat /\ cutDown \subseteq Pids
    OBVIOUS
  <2>4. QED
    BY <2>1, <2>2, <2>3 DEF LifecycleTypeOK
<1>2. LifecycleTypeOK /\ [Next]_lifecycleVars => LifecycleTypeOK'
  <2> SUFFICES ASSUME LifecycleTypeOK, [Next]_lifecycleVars PROVE LifecycleTypeOK'
    OBVIOUS
  <2> USE DEF LifecycleTypeOK, Goes, files, emx, shell, ghosts, Legacy, None
  <2>1. ASSUME NEW p \in Pids, CheckRunning(p) \/ WritePID(p) \/ RemoveStaleSocket(p) \/ Listen(p)
        PROVE  LifecycleTypeOK'
    BY <2>1 DEF CheckRunning, WritePID, RemoveStaleSocket, Listen
  <2>2. ASSUME NEW p \in Pids, ReapStrayXray(p) \/ AdoptLegacyDB(p) \/ CopyDB(p) \/ CopyFails(p)
        PROVE  LifecycleTypeOK'
    <3>1. CASE ReapStrayXray(p) \/ AdoptLegacyDB(p) \/ CopyDB(p)
      BY <3>1 DEF ReapStrayXray, AdoptLegacyDB, CopyDB
    <3>2. CASE CopyFails(p)
      BY <3>2 DEF CopyFails
    <3>3. QED
      BY <2>2, <3>1, <3>2
  <2>3. ASSUME NEW p \in Pids, Serve(p) \/ Child(p) \/ StopChild(p)
        PROVE  LifecycleTypeOK'
    BY <2>3 DEF Serve, Child, ChildExits, StartChild, LateReconcile, StopChild
  <2>4. ASSUME NEW p \in Pids, GracefulStop(p) \/ RemoveSocket(p) \/ RemovePID(p) \/ Exit(p)
        PROVE  LifecycleTypeOK'
    BY <2>4 DEF GracefulStop, RemoveSocket, RemovePID, Exit, Dies
  <2>5. ASSUME NEW p \in Pids, Kill(p)
        PROVE  /\ at' \in [Pids -> {"unborn", "check", "write", "exit", "gone", "remove", "listen",
                             "reap", "adopt", "copy", "open", "serve", "stop", "drain", "unlink", "unpid"}]
               /\ xray' \subseteq Pids \cup {Legacy} /\ cutDown' \subseteq Pids /\ torn' \in BOOLEAN
    BY <2>5 DEF Kill, Dies
  <2>6. ASSUME NEW p \in Pids, Crash(p)
        PROVE  LifecycleTypeOK'
    BY <2>5, <2>6 DEF Crash
  <2>7. CASE LegacyExits
    BY <2>7 DEF LegacyExits, Dies
  <2>8. ASSUME NEW c \in Clis, Command(c)
        PROVE  LifecycleTypeOK'
    <3>1. PICK k \in Commands :
            Onward(c, "idle", k) /\ update' = [update EXCEPT ![c] = IF k = "update" THEN "runs" ELSE "no"]
      BY <2>8 DEF Command
    <3>2. k \in AllCommands
      OBVIOUS
    <3>3. QED
      BY <2>8, <3>1, <3>2 DEF Command, Onward
  <2>9. ASSUME NEW c \in Clis, StartDetached(c)
        PROVE  LifecycleTypeOK'
    BY <2>9 DEF StartDetached, Onward, Then, AllCommands
  <2>10. ASSUME NEW c \in Clis, WaitReady(c) \/ WaitGone(c) \/ VerifyRuntime(c) \/ StopStaleProcesses(c)
         PROVE  LifecycleTypeOK'
    <3>1. CASE StopStaleProcesses(c)
      BY <3>1 DEF StopStaleProcesses, Onward
    <3>2. CASE WaitReady(c) \/ WaitGone(c) \/ VerifyRuntime(c)
      BY <3>2 DEF WaitReady, WaitGone, VerifyRuntime, Onward, Then, AllCommands
    <3>3. QED
      BY <2>10, <3>1, <3>2
  <2>11. ASSUME Shutdown
         PROVE  /\ at' \in [Pids -> {"unborn", "check", "write", "exit", "gone", "remove", "listen",
                              "reap", "adopt", "copy", "open", "serve", "stop", "drain", "unlink", "unpid"}]
                /\ UNCHANGED <<xray, cutDown, torn>>
    BY <2>11 DEF Shutdown
  <2>12. ASSUME NEW c \in Clis, Stop(c)
         PROVE  LifecycleTypeOK'
    <3>1. ASSUME RunningPID, Signal(pidFile)
          PROVE  /\ at' \in [Pids -> {"unborn", "check", "write", "exit", "gone", "remove", "listen",
                               "reap", "adopt", "copy", "open", "serve", "stop", "drain", "unlink", "unpid"}]
                 /\ xray' \subseteq Pids \cup {Legacy} /\ cutDown' \subseteq Pids /\ torn' \in BOOLEAN
      BY <2>5, <3>1 DEF Signal, RunningPID, Alive
    <3>2. QED
      BY <2>11, <2>12, <3>1 DEF Stop, Onward
  <2>13. ASSUME NEW c \in Clis, Restart(c)
         PROVE  LifecycleTypeOK'
    BY <2>11, <2>13 DEF Restart, Onward, AllCommands
  <2>14. ASSUME NEW c \in Clis, Update(c)
         PROVE  LifecycleTypeOK'
    BY <2>14 DEF Update, UpdateFails, UpToDate, Apply, Onward, AllCommands
  <2>15. CASE UNCHANGED lifecycleVars
    BY <2>15 DEF lifecycleVars
  <2>16. QED
    BY <2>1, <2>2, <2>3, <2>4, <2>6, <2>7, <2>8, <2>9, <2>10, <2>12, <2>13, <2>14, <2>15
       DEF Next, Running, Waiting, Child
<1>3. QED
  BY <1>1, <1>2, PTL DEF Spec
-----------------------------------------------------------------------------
(* Commands are given from one shell. *)
OneShell == \A c, d \in Clis : c = d

Starting(p) == at[p] \in {"check", "write"}

(* Between its birth and its pid file a daemon is alone: the command that   *)
(* started it waits (lifecycle.go:75-93), and no pid file names a process   *)
(* that is alive.  From its pid file on it is the one named there, until it *)
(* removes it, and a process that was named is not one yet to be started.   *)
OwnInv ==
  /\ \A p \in Pids : Starting(p) => ~RunningPID /\ \A c \in Clis : cli[c] = "wait"
  /\ \A p, q \in Pids : Starting(p) /\ Starting(q) => p = q
  /\ \A p \in Pids : Owns(p) => pidFile = p
  /\ \A p \in Pids : (at[p] = "write" \/ Owns(p)) => legacy = "gone"
  /\ \A p \in Pids : pidFile = p => at[p] \notin {"unborn", "check", "write"}

LEMMA OwnInit == Init => OwnInv
<1> SUFFICES ASSUME Init PROVE OwnInv
  OBVIOUS
<1>1. \A p \in Pids : at[p] = "unborn" /\ pidFile # p
  BY LifecycleAssumption DEF Init, None
<1>2. QED
  BY <1>1 DEF OwnInv, Starting, Owns

(* A daemon goes on, dies or is stopped, and no other does: the ones before *)
(* the pid file stay there or leave, and no owner comes.                    *)
LEMMA OwnKept ==
  ASSUME LifecycleTypeOK, OwnInv, UNCHANGED pidFile, legacy' \in {legacy, "gone"},
         \A p \in Pids : \/ at'[p] = at[p]
                         \/ at'[p] = "gone"
                         \/ Owns(p) /\ Owns(p)',
         \A p \in Pids : Starting(p)' => \A c \in Clis : cli'[c] = "wait",
         at' \in [Pids -> {"unborn", "check", "write", "exit", "gone", "remove", "listen",
                     "reap", "adopt", "copy", "open", "serve", "stop", "drain", "unlink", "unpid"}]
  PROVE  OwnInv'
<1>1. \A p \in Pids : Starting(p)' => Starting(p)
  BY DEF Starting, Owns
<1>2. \A p \in Pids : Owns(p)' => Owns(p)
  BY DEF Starting, Owns
<1>3. RunningPID' => RunningPID
  BY DEF RunningPID, Alive, OwnInv, Owns
<1>4. QED
  BY <1>1, <1>2, <1>3 DEF OwnInv, Starting, Owns

(* Every step keeps it: only Run takes and gives back the pid file.         *)
LEMMA OwnStep ==
  ASSUME OneShell, LifecycleTypeOK, LifecycleTypeOK', OwnInv, [Next]_lifecycleVars
  PROVE  OwnInv'
<1> USE DEF files, emx, shell, ghosts
<1> DEFINE States == {"unborn", "check", "write", "exit", "gone", "remove", "listen", "reap", "adopt",
                      "copy", "open", "serve", "stop", "drain", "unlink", "unpid"}
<1>0. /\ at \in [Pids -> States] /\ at' \in [Pids -> States] 
      /\ cli \in [Clis -> AllCommands \cup {"idle", "wait", "stopWait", "restarting", "restartWait", "verify"}]
  BY DEF LifecycleTypeOK
<1>1. ASSUME NEW p \in Pids, CheckRunning(p)
      PROVE  OwnInv'
  BY <1>0, <1>1 DEF CheckRunning, Goes, OwnInv, Starting, Owns, RunningPID, Alive, LegacyDaemon
<1>2. ASSUME NEW p \in Pids, WritePID(p)
      PROVE  OwnInv'
  BY <1>0, <1>2 DEF WritePID, Goes, OwnInv, Starting, Owns, RunningPID, Alive
<1>3. ASSUME NEW p \in Pids,
             \/ RemoveStaleSocket(p) \/ Listen(p) \/ ReapStrayXray(p) \/ AdoptLegacyDB(p) \/ CopyDB(p)
             \/ CopyFails(p) \/ Serve(p) \/ StopChild(p) \/ GracefulStop(p) \/ RemoveSocket(p)
      PROVE  OwnInv'
  <2>1. /\ UNCHANGED <<pidFile, legacy, cli>>
        /\ \A q \in Pids : at'[q] = at[q] \/ (Owns(q) /\ Owns(q)')
    BY <1>0, <1>3 DEF RemoveStaleSocket, Listen, ReapStrayXray, AdoptLegacyDB, CopyDB, CopyFails,
                      Serve, StopChild, GracefulStop, RemoveSocket, Goes, Owns
  <2>2. \A q \in Pids : Starting(q)' => \A c \in Clis : cli'[c] = "wait"
    BY <2>1 DEF OwnInv, Starting, Owns
  <2>3. QED
    BY <1>0, <2>1, <2>2, OwnKept
<1>4. ASSUME NEW p \in Pids, RemovePID(p)
      PROVE  OwnInv'
  <2>1. pidFile' = None /\ None \notin Pids
    BY <1>4, LifecycleAssumption DEF RemovePID, None
  <2>2. \A q \in Pids : ~Owns(q)'
    BY <1>0, <1>4 DEF RemovePID, Goes, OwnInv, Owns
  <2>3. QED
    BY <1>0, <1>4, <2>1, <2>2 DEF RemovePID, Goes, OwnInv, Starting, Owns, RunningPID, Alive
<1>5. ASSUME NEW p \in Pids, Exit(p) \/ Kill(p), UNCHANGED <<pidFile, legacy, cli>>
      PROVE  OwnInv'
  <2>1. \A q \in Pids : at'[q] = at[q] \/ at'[q] = "gone"
    BY <1>0, <1>5 DEF Exit, Kill, Goes
  <2>2. \A q \in Pids : Starting(q)' => \A c \in Clis : cli'[c] = "wait"
    BY <1>5, <2>1 DEF OwnInv, Starting
  <2>3. QED
    BY <1>0, <1>5, <2>1, <2>2, OwnKept
<1>6. ASSUME NEW p \in Pids, Child(p)
      PROVE  OwnInv'
  BY <1>6 DEF Child, ChildExits, StartChild, LateReconcile, OwnInv, Starting, Owns, RunningPID, Alive
<1>7. CASE LegacyExits
  BY <1>7 DEF LegacyExits, OwnInv, Starting, Owns, RunningPID, Alive
<1>8. ASSUME NEW c \in Clis, StartDetached(c)
      PROVE  OwnInv'
  BY <1>0, <1>8 DEF StartDetached, Onward, Goes, OneShell, OwnInv, Starting, Owns, RunningPID, Alive
<1>9. ASSUME NEW c \in Clis, WaitReady(c)
      PROVE  OwnInv'
  <2>1. ASSUME NEW p \in Pids PROVE ~Starting(p)
    <3>1. ~Answers \/ ~Starting(p)
      BY <1>0 DEF Answers, OwnInv, Owns, RunningPID, Alive
    <3>2. QED
      BY <1>9, <3>1 DEF WaitReady, Starting
  <2>2. QED
    BY <1>9, <2>1 DEF WaitReady, OwnInv, Starting, Owns, RunningPID, Alive
<1>10. ASSUME NEW c \in Clis, cli[c] # "wait", UNCHANGED <<pidFile, at>>, legacy' \in {legacy, "stopping"},
              legacy = "gone" => legacy' = "gone"
       PROVE  OwnInv'
  BY <1>10 DEF OneShell, OwnInv, Starting, Owns, RunningPID, Alive
<1>11. ASSUME NEW c \in Clis, Command(c) \/ StopStaleProcesses(c) \/ WaitGone(c) \/ Update(c) \/ VerifyRuntime(c)
       PROVE  OwnInv'
  <2>1. cli[c] # "wait" /\ UNCHANGED <<pidFile, at>>
    BY <1>11 DEF Command, StopStaleProcesses, WaitGone, Update, UpdateFails, UpToDate, Apply, VerifyRuntime, Onward
  <2>2. legacy' \in {legacy, "stopping"} /\ (legacy = "gone" => legacy' = "gone")
    BY <1>11 DEF Command, StopStaleProcesses, WaitGone, Update, VerifyRuntime
  <2>3. QED
    BY <1>10, <2>1, <2>2
<1>12. ASSUME NEW c \in Clis, cli[c] # "wait", Shutdown, UNCHANGED <<pidFile, legacy>>
       PROVE  OwnInv'
  <2>1. \A q \in Pids : at'[q] = at[q] \/ (Owns(q) /\ Owns(q)')
    BY <1>0, <1>12 DEF Shutdown, Answers, Owns
  <2>2. \A q \in Pids : ~Starting(q)'
    BY <1>12, <2>1 DEF OwnInv, Starting, Owns
  <2>3. QED
    BY <1>0, <1>12, <2>1, <2>2, OwnKept
<1>13. ASSUME NEW c \in Clis, Stop(c) \/ Restart(c)
       PROVE  OwnInv'
  <2>1. cli[c] # "wait" /\ UNCHANGED <<pidFile, legacy>>
    BY <1>13 DEF Stop, Restart, Onward
  <2>2. CASE Shutdown
    BY <1>12, <2>1, <2>2
  <2>3. CASE UNCHANGED at
    BY <1>10, <2>1, <2>3
  <2>4. ASSUME pidFile \in Pids, Signal(pidFile)
        PROVE  OwnInv'
    <3>1. \A q \in Pids : at'[q] = at[q] \/ at'[q] = "gone" \/ (Owns(q) /\ Owns(q)')
      BY <1>0, <2>4 DEF Signal, Kill, Owns
    <3>2. \A q \in Pids : ~Starting(q)'
      BY <2>1, <3>1 DEF OwnInv, Starting, Owns
    <3>3. QED
      BY <1>0, <2>1, <3>1, <3>2, OwnKept
  <2>5. QED
    BY <1>13, <2>2, <2>3, <2>4 DEF Stop, Restart, RunningPID, Alive
<1>14. CASE UNCHANGED lifecycleVars
  BY <1>14 DEF lifecycleVars, OwnInv, Starting, Owns, RunningPID, Alive
<1>15. ASSUME NEW p \in Pids, Crash(p)
       PROVE  OwnInv'
  BY <1>5, <1>15 DEF Crash
<1>16. QED
  BY <1>1, <1>2, <1>3, <1>4, <1>5, <1>6, <1>7, <1>8, <1>9, <1>11, <1>13, <1>14, <1>15
     DEF Next, Running, Waiting, Exit

THEOREM OwnInvariant == ASSUME OneShell PROVE Spec => []OwnInv
<1>1. LifecycleTypeOK /\ LifecycleTypeOK' /\ OwnInv /\ [Next]_lifecycleVars => OwnInv'
  BY OwnStep
<1>2. QED
  BY <1>1, OwnInit, LifecycleType, PTL DEF Spec

(* One daemon at a time owns the database, the socket and the pid file, and *)
(* none while the daemon of the previous layout lives, for any number of    *)
(* daemons, commands and kills (daemon.go:52-82).                           *)
THEOREM OneDaemonAtATime == ASSUME OneShell PROVE Spec => []OneDaemon
<1>1. OwnInv => OneDaemon
  BY DEF OwnInv, OneDaemon
<1>2. QED
  BY <1>1, OwnInvariant, PTL

-----------------------------------------------------------------------------
(* The xray processes: none from ReapStrayXray on until the daemon serves,  *)
(* and only its own then (reap.go:27-47, daemon.go:82).                     *)
ChildInv ==
  /\ \A p \in Pids : at[p] \in {"adopt", "copy", "open"} => xray = {}
  /\ OwnChildOnly

(* What makes no xray and brings no daemon further keeps it. *)
LEMMA ChildKept ==
  ASSUME ChildInv, xray' \subseteq xray,
         \A p \in Pids : at'[p] = at[p] \/ at'[p] \notin {"adopt", "copy", "open", "serve"}
  PROVE  ChildInv'
BY DEF ChildInv, OwnChildOnly

LEMMA ChildStep ==
  ASSUME LifecycleTypeOK, LifecycleTypeOK', OwnInv, OwnInv', ChildInv, [Next]_lifecycleVars
  PROVE  ChildInv'
<1> USE DEF files, emx, shell, ghosts
<1> DEFINE States == {"unborn", "check", "write", "exit", "gone", "remove", "listen", "reap", "adopt",
                      "copy", "open", "serve", "stop", "drain", "unlink", "unpid"}
<1>0. /\ at \in [Pids -> States] /\ at' \in [Pids -> States]
      /\ \A p, q \in Pids : Owns(p) /\ Owns(q) => p = q
      /\ \A p, q \in Pids : Owns(p)' /\ Owns(q)' => p = q
  BY DEF LifecycleTypeOK, OwnInv
<1>1. ASSUME NEW p \in Pids,
             \/ CheckRunning(p) \/ WritePID(p) \/ RemoveStaleSocket(p) \/ Listen(p) \/ CopyFails(p)
             \/ StopChild(p) \/ GracefulStop(p) \/ RemoveSocket(p) \/ RemovePID(p) \/ Exit(p) \/ Kill(p)
      PROVE  ChildInv'
  <2>1. xray' \subseteq xray
    BY <1>1 DEF CheckRunning, WritePID, RemoveStaleSocket, Listen, CopyFails, StopChild, GracefulStop,
                RemoveSocket, RemovePID, Exit, Kill, Dies
  <2>2. \A q \in Pids : at'[q] = at[q] \/ at'[q] \notin {"adopt", "copy", "open", "serve"}
    BY <1>0, <1>1 DEF CheckRunning, WritePID, RemoveStaleSocket, Listen, CopyFails, StopChild, GracefulStop,
                RemoveSocket, RemovePID, Exit, Kill, Goes
  <2>3. QED
    BY <2>1, <2>2, ChildKept
<1>2. ASSUME NEW p \in Pids, ReapStrayXray(p) \/ AdoptLegacyDB(p) \/ CopyDB(p)
      PROVE  ChildInv'
  <2>1. xray' = {}
    BY <1>0, <1>2 DEF ReapStrayXray, AdoptLegacyDB, CopyDB, Goes, ChildInv
  <2>2. QED
    BY <2>1 DEF ChildInv, OwnChildOnly
<1>3. ASSUME NEW p \in Pids, Serve(p) \/ Child(p)
      PROVE  ChildInv'
  <2>1. Owns(p) /\ Owns(p)' /\ (at'[p] = "serve" => xray' \subseteq {p})
    BY <1>0, <1>3 DEF Serve, Child, ChildExits, StartChild, LateReconcile, Goes, Owns, ChildInv, OwnChildOnly
  <2>2. at'[p] \in {"serve", "drain"}
    BY <1>0, <1>3 DEF Serve, Child, ChildExits, StartChild, LateReconcile, Goes
  <2>3. QED
    BY <1>0, <2>1, <2>2 DEF ChildInv, OwnChildOnly, Owns
<1>4. ASSUME NEW c \in Clis, StartDetached(c)
      PROVE  ChildInv'
  <2>1. UNCHANGED xray /\ \A q \in Pids : at'[q] = at[q] \/ at'[q] = "check"
    BY <1>0, <1>4 DEF StartDetached, Goes
  <2>2. QED
    BY <2>1, ChildKept
<1>5. ASSUME Shutdown
      PROVE  ChildInv'
  <2>1. UNCHANGED xray /\ \A q \in Pids : at'[q] = at[q] \/ at'[q] = "stop"
    BY <1>0, <1>5 DEF Shutdown
  <2>2. QED
    BY <2>1, ChildKept
<1>6. ASSUME UNCHANGED at, xray' \subseteq xray
      PROVE  ChildInv'
  BY <1>6, ChildKept
<1>7. ASSUME NEW c \in Clis,
             \/ Command(c) \/ StopStaleProcesses(c) \/ WaitGone(c) \/ Update(c) \/ VerifyRuntime(c) \/ WaitReady(c)
      PROVE  ChildInv'
  <2>1. UNCHANGED at /\ xray' \subseteq xray
    BY <1>7 DEF Command, StopStaleProcesses, WaitGone, Update, VerifyRuntime, WaitReady
  <2>2. QED
    BY <1>6, <2>1
<1>8. ASSUME NEW c \in Clis, Restart(c)
      PROVE  ChildInv'
  BY <1>5, <1>6, <1>8 DEF Restart
<1>9. ASSUME NEW p \in Pids, Signal(p)
      PROVE  ChildInv'
  <2>1. CASE Kill(p)
    BY <1>1, <2>1
  <2>2. CASE UNCHANGED xray /\ at' = [at EXCEPT ![p] = "stop"]
    BY <1>0, <2>2, ChildKept
  <2>3. QED
    BY <1>6, <1>9, <2>1, <2>2 DEF Signal
<1>10. ASSUME NEW c \in Clis, Stop(c)
       PROVE  ChildInv'
  BY <1>5, <1>6, <1>9, <1>10 DEF Stop, RunningPID, Alive
<1>11. CASE LegacyExits \/ UNCHANGED lifecycleVars
  BY <1>6, <1>11 DEF LegacyExits, Dies, lifecycleVars
<1>12. ASSUME NEW p \in Pids, Crash(p)
       PROVE  ChildInv'
  BY <1>1, <1>12 DEF Crash
<1>13. QED
  BY <1>1, <1>2, <1>3, <1>4, <1>7, <1>8, <1>10, <1>11, <1>12 DEF Next, Running, Waiting

(* While a daemon serves, the machine runs no emx xray but its child: not   *)
(* that of a daemon that was killed, nor one of the previous layout, nor    *)
(* one that a reconcile started after its daemon was told to stop.          *)
THEOREM AloneWithItsChild == ASSUME OneShell PROVE Spec => []OwnChildOnly
<1>1. Init => ChildInv
  BY DEF Init, ChildInv, OwnChildOnly
<1>2. /\ LifecycleTypeOK /\ LifecycleTypeOK' /\ OwnInv /\ OwnInv' /\ ChildInv /\ [Next]_lifecycleVars
      => ChildInv'
  BY ChildStep
<1>3. ChildInv => OwnChildOnly
  BY DEF ChildInv
<1>4. QED
  BY <1>1, <1>2, <1>3, OwnInvariant, LifecycleType, PTL DEF Spec

-----------------------------------------------------------------------------
(* The database, unless a copy of it was cut short: who opens it or serves  *)
(* has all of it, and a part of it is only there while somebody copies      *)
(* (migrate.go:21-89).                                                     *)
DataInv ==
  ~torn => /\ \A p \in Pids : at[p] = "copy" => db \in {"empty", "main"}
           /\ \A p \in Pids : at[p] \in {"open", "serve"} => db = "whole"
           /\ db = "main" => \E p \in Pids : at[p] = "copy"

(* What leaves the file alone, and lets nobody into a copy or out of one,   *)
(* or on to what follows one, keeps it.                                     *)
LEMMA DataStays ==
  ASSUME DataInv, UNCHANGED db, torn => torn',
         ~torn' => \A p \in Pids : \/ at'[p] = at[p]
                                   \/ at[p] # "copy" /\ at'[p] \notin {"copy", "open", "serve"}
  PROVE  DataInv'
BY DEF DataInv

LEMMA DataStep ==
  ASSUME LifecycleTypeOK, LifecycleTypeOK', OwnInv, OwnInv', DataInv, [Next]_lifecycleVars
  PROVE  DataInv'
<1> USE DEF files, emx, shell, ghosts
<1> DEFINE States == {"unborn", "check", "write", "exit", "gone", "remove", "listen", "reap", "adopt",
                      "copy", "open", "serve", "stop", "drain", "unlink", "unpid"}
<1>0. /\ at \in [Pids -> States] /\ at' \in [Pids -> States] /\ torn \in BOOLEAN /\ torn' \in BOOLEAN
      /\ \A p, q \in Pids : Owns(p) /\ Owns(q) => p = q
  BY DEF LifecycleTypeOK, OwnInv
<1>1. ASSUME NEW p \in Pids,
             \/ CheckRunning(p) \/ WritePID(p) \/ RemoveStaleSocket(p) \/ Listen(p) \/ ReapStrayXray(p)
             \/ StopChild(p) \/ GracefulStop(p) \/ RemoveSocket(p) \/ RemovePID(p) \/ Exit(p)
      PROVE  DataInv'
  <2>1. UNCHANGED <<db, torn>>
    BY <1>1 DEF CheckRunning, WritePID, RemoveStaleSocket, Listen, ReapStrayXray, StopChild, GracefulStop,
                RemoveSocket, RemovePID, Exit
  <2>2. \A q \in Pids : at'[q] = at[q] \/ (at[q] # "copy" /\ at'[q] \notin {"copy", "open", "serve"})
    BY <1>0, <1>1 DEF CheckRunning, WritePID, RemoveStaleSocket, Listen, ReapStrayXray, StopChild, GracefulStop,
                      RemoveSocket, RemovePID, Exit, Goes
  <2>3. QED
    BY <2>1, <2>2, DataStays
\* The owner is the only one who may be at any of this.
<1>2. ASSUME NEW p \in Pids, AdoptLegacyDB(p) \/ CopyDB(p) \/ CopyFails(p) \/ Serve(p)
      PROVE  DataInv'
  <2>1. Owns(p) /\ \A q \in Pids \ {p} : at'[q] = at[q] /\ at[q] \notin {"copy", "open", "serve"}
    <3>1. Owns(p) /\ \A q \in Pids \ {p} : at'[q] = at[q]
      BY <1>0, <1>2 DEF AdoptLegacyDB, CopyDB, CopyFails, Serve, Goes, Owns
    <3>2. QED
      BY <1>0, <3>1 DEF Owns
  <2>2. CASE AdoptLegacyDB(p)
    <3>1. ~torn => db # "main"
      BY <1>0, <2>1, <2>2 DEF AdoptLegacyDB, Goes, DataInv
    <3>2. QED
      BY <1>0, <2>1, <2>2, <3>1 DEF AdoptLegacyDB, Goes, DataInv
  <2>3. CASE CopyDB(p)
    BY <1>0, <2>1, <2>3 DEF CopyDB, Goes, DataInv
  <2>4. CASE CopyFails(p)
    BY <1>0, <2>1, <2>4 DEF CopyFails, Goes, DataInv
  <2>5. CASE Serve(p)
    BY <1>0, <2>1, <2>5 DEF Serve, Goes, DataInv
  <2>6. QED
    BY <1>2, <2>2, <2>3, <2>4, <2>5
<1>3. ASSUME NEW p \in Pids, Kill(p), UNCHANGED db
      PROVE  DataInv'
  <2>1. torn' = (torn \/ at[p] = "copy") /\ \A q \in Pids : at'[q] = IF q = p THEN "gone" ELSE at[q]
    BY <1>0, <1>3 DEF Kill
  <2>2. QED
    BY <1>0, <1>3, <2>1, DataStays
<1>4. ASSUME UNCHANGED <<db, torn>>, \A q \in Pids : at'[q] = at[q] \/ (at[q] # "copy" /\ at'[q] \in {"check", "stop"})
      PROVE  DataInv'
  BY <1>4, DataStays
<1>5. ASSUME NEW p \in Pids, Child(p)
      PROVE  DataInv'
  BY <1>4, <1>5 DEF Child, ChildExits, StartChild, LateReconcile
<1>6. ASSUME NEW c \in Clis, StartDetached(c)
      PROVE  DataInv'
  <2>1. UNCHANGED <<db, torn>> /\ \A q \in Pids : at'[q] = at[q] \/ (at[q] = "unborn" /\ at'[q] = "check")
    BY <1>0, <1>6 DEF StartDetached, Goes
  <2>2. QED
    BY <1>4, <2>1
<1>7. ASSUME NEW c \in Clis,
             \/ Command(c) \/ StopStaleProcesses(c) \/ WaitGone(c) \/ Update(c) \/ VerifyRuntime(c) \/ WaitReady(c)
      PROVE  DataInv'
  <2>1. UNCHANGED <<at, db, torn>>
    BY <1>7 DEF Command, StopStaleProcesses, WaitGone, Update, VerifyRuntime, WaitReady
  <2>2. QED
    BY <1>4, <2>1
<1>8. ASSUME Shutdown, UNCHANGED db
      PROVE  DataInv'
  <2>1. UNCHANGED torn /\ \A q \in Pids : at'[q] = at[q] \/ (at[q] = "serve" /\ at'[q] = "stop")
    BY <1>0, <1>8 DEF Shutdown
  <2>2. QED
    BY <1>4, <1>8, <2>1
<1>9. ASSUME NEW p \in Pids, Signal(p), UNCHANGED db
      PROVE  DataInv'
  <2>1. CASE Kill(p)
    BY <1>3, <1>9, <2>1
  <2>2. CASE at[p] = "serve" /\ at' = [at EXCEPT ![p] = "stop"] /\ UNCHANGED torn
    BY <1>0, <1>4, <1>9, <2>2
  <2>3. CASE UNCHANGED <<at, torn>>
    BY <1>4, <1>9, <2>3
  <2>4. QED
    BY <1>9, <2>1, <2>2, <2>3 DEF Signal
<1>10. ASSUME NEW c \in Clis, Stop(c) \/ Restart(c)
       PROVE  DataInv'
  <2>1. UNCHANGED db
    BY <1>10 DEF Stop, Restart
  <2>2. QED
    BY <1>4, <1>8, <1>9, <1>10, <2>1 DEF Stop, Restart, RunningPID, Alive
<1>11. CASE LegacyExits \/ UNCHANGED lifecycleVars
  BY <1>4, <1>11 DEF LegacyExits, lifecycleVars
<1>12. ASSUME NEW p \in Pids, Crash(p)
       PROVE  DataInv'
  BY <1>3, <1>12 DEF Crash
<1>13. QED
  BY <1>1, <1>2, <1>5, <1>6, <1>7, <1>10, <1>11, <1>12 DEF Next, Running, Waiting

(* Whoever serves has the database whole, whatever was killed, stopped or   *)
(* failed on the way, unless a copy was cut short (migrate.go:21-89).      *)
THEOREM DataIsKept == ASSUME OneShell PROVE Spec => []DataKept
<1>1. Init => DataInv
  BY DEF Init, DataInv
<1>2. /\ LifecycleTypeOK /\ LifecycleTypeOK' /\ OwnInv /\ OwnInv' /\ DataInv /\ [Next]_lifecycleVars
      => DataInv'
  BY DataStep
<1>3. DataInv => DataKept
  BY DEF DataInv, DataKept
<1>4. QED
  BY <1>1, <1>2, <1>3, OwnInvariant, LifecycleType, PTL DEF Spec

-----------------------------------------------------------------------------
(* Nothing but an owner touches the socket and the database, and one that   *)
(* comes or goes leaves them as they are.                                   *)
LEMMA LeaseStep ==
  ASSUME LifecycleTypeOK, LifecycleTypeOK', OwnInv, OwnInv', [Next]_lifecycleVars
  PROVE  [Layout!LeaseNext]_(Layout!leaseVars)
<1> USE DEF files, emx, shell, ghosts
<1> DEFINE States == {"unborn", "check", "write", "exit", "gone", "remove", "listen", "reap", "adopt",
                      "copy", "open", "serve", "stop", "drain", "unlink", "unpid"}
           Holder == {p \in Pids : Owns(p)} \cup (IF LegacyDaemon THEN {Legacy} ELSE {})
<1>0. /\ at \in [Pids -> States] /\ at' \in [Pids -> States]
      /\ \A p, q \in Pids : Owns(p) /\ Owns(q) => p = q
      /\ \A p, q \in Pids : Owns(p)' /\ Owns(q)' => p = q
      /\ \A p \in Pids : Owns(p) => ~LegacyDaemon
      /\ \A p \in Pids : Owns(p)' => ~LegacyDaemon'
      /\ Legacy \notin Pids
  BY LifecycleAssumption DEF LifecycleTypeOK, OwnInv, Legacy, LegacyDaemon
<1>1. \A p \in Pids : Owns(p) => Holder = {p}
  BY <1>0
<1>2. \A p \in Pids : Owns(p)' => Holder' = {p}
  BY <1>0
\* An owner works, or stops being one and changes nothing.
<1>3. ASSUME NEW p \in Pids, Owns(p), UNCHANGED legacy,
             \A q \in Pids \ {p} : at'[q] = at[q],
             Owns(p)' \/ UNCHANGED <<socket, db>>
      PROVE  Layout!LeaseNext
  <2>1. CASE Owns(p)'
    BY <1>1, <1>2, <1>3, <2>1 DEF Layout!LeaseNext, Layout!Use
  <2>2. CASE ~Owns(p)'
    <3>1. Holder' = {}
      BY <1>0, <1>3, <2>2 DEF Owns, LegacyDaemon
    <3>2. QED
      BY <1>1, <1>3, <2>2, <3>1 DEF Layout!LeaseNext, Layout!Release
  <2>3. QED
    BY <2>1, <2>2
\* What no owner does changes neither who it is nor what is its.
<1>4. ASSUME UNCHANGED <<legacy, socket, db>>, \A q \in Pids : at'[q] = at[q] \/ (~Owns(q) /\ ~Owns(q)')
      PROVE  UNCHANGED Layout!leaseVars
  <2>1. \A q \in Pids : Owns(q)' <=> Owns(q)
    BY <1>4 DEF Owns
  <2>2. QED
    BY <1>4, <2>1 DEF Layout!leaseVars, LegacyDaemon
<1>5. ASSUME NEW p \in Pids, CheckRunning(p) \/ Exit(p) \/ Child(p)
      PROVE  UNCHANGED Layout!leaseVars
  <2>1. \A q \in Pids : at'[q] = at[q] \/ (~Owns(q) /\ ~Owns(q)')
    BY <1>0, <1>5 DEF CheckRunning, Exit, Child, ChildExits, StartChild, LateReconcile, Goes, Owns
  <2>2. UNCHANGED <<legacy, socket, db>>
    BY <1>5 DEF CheckRunning, Exit, Child, ChildExits, StartChild, LateReconcile
  <2>3. QED
    BY <1>4, <2>1, <2>2
<1>6. ASSUME NEW p \in Pids, WritePID(p)
      PROVE  Layout!LeaseNext
  <2>1. Holder = {} /\ Holder' = {p} /\ UNCHANGED <<socket, db>>
    <3>1. ~LegacyDaemon /\ ~RunningPID
      BY <1>6 DEF WritePID, Goes, OwnInv, Starting, LegacyDaemon
    <3>2. \A q \in Pids : ~Owns(q)
      BY <1>0, <3>1 DEF OwnInv, Owns, RunningPID, Alive
    <3>3. Owns(p)' /\ UNCHANGED <<socket, db>>
      BY <1>0, <1>6 DEF WritePID, Goes, Owns
    <3>4. QED
      BY <1>2, <3>1, <3>2, <3>3
  <2>2. QED
    BY <2>1 DEF Layout!LeaseNext, Layout!Acquire
<1>7. ASSUME NEW p \in Pids,
             \/ RemoveStaleSocket(p) \/ Listen(p) \/ ReapStrayXray(p) \/ AdoptLegacyDB(p) \/ CopyDB(p)
             \/ CopyFails(p) \/ Serve(p) \/ StopChild(p) \/ GracefulStop(p) \/ RemoveSocket(p) \/ RemovePID(p)
      PROVE  Layout!LeaseNext
  <2>1. Owns(p) /\ UNCHANGED legacy /\ (\A q \in Pids \ {p} : at'[q] = at[q])
    BY <1>0, <1>7 DEF RemoveStaleSocket, Listen, ReapStrayXray, AdoptLegacyDB, CopyDB, CopyFails,
                      Serve, StopChild, GracefulStop, RemoveSocket, RemovePID, Goes, Owns
  <2>2. Owns(p)' \/ UNCHANGED <<socket, db>>
    BY <1>0, <1>7 DEF RemoveStaleSocket, Listen, ReapStrayXray, AdoptLegacyDB, CopyDB, CopyFails,
                      Serve, StopChild, GracefulStop, RemoveSocket, RemovePID, Goes, Owns
  <2>3. QED
    BY <1>3, <2>1, <2>2
<1>8. ASSUME NEW p \in Pids, UNCHANGED <<legacy, socket, db>>, \A q \in Pids \ {p} : at'[q] = at[q],
             Alive(p), at'[p] \notin {"unborn", "check", "write"}, Owns(p)' => Owns(p)
      PROVE  [Layout!LeaseNext]_(Layout!leaseVars)
  <2>1. CASE Owns(p)
    BY <1>3, <1>8, <2>1
  <2>2. CASE ~Owns(p)
    BY <1>4, <1>8, <2>2
  <2>3. QED
    BY <2>1, <2>2
<1>9. ASSUME NEW p \in Pids, Crash(p)
      PROVE  [Layout!LeaseNext]_(Layout!leaseVars)
  BY <1>0, <1>8, <1>9 DEF Crash, Kill, Owns
<1>10. ASSUME NEW c \in Clis, StartDetached(c)
       PROVE  UNCHANGED Layout!leaseVars
  <2>1. \A q \in Pids : at'[q] = at[q] \/ (~Owns(q) /\ ~Owns(q)')
    BY <1>0, <1>10 DEF StartDetached, Goes, Owns
  <2>2. QED
    BY <1>4, <1>10, <2>1 DEF StartDetached
<1>11. ASSUME UNCHANGED <<at, socket, db>>,
              legacy' = legacy \/ (legacy = "up" /\ legacy' = "stopping")
       PROVE  UNCHANGED Layout!leaseVars
  BY <1>11 DEF Layout!leaseVars, LegacyDaemon, Owns
<1>12. ASSUME NEW c \in Clis,
             \/ Command(c) \/ StopStaleProcesses(c) \/ WaitGone(c) \/ Update(c) \/ VerifyRuntime(c) \/ WaitReady(c)
       PROVE  UNCHANGED Layout!leaseVars
  <2>1. UNCHANGED <<at, socket, db>>
    BY <1>12 DEF Command, StopStaleProcesses, WaitGone, Update, VerifyRuntime, WaitReady
  <2>2. legacy' = legacy \/ (legacy = "up" /\ legacy' = "stopping")
    BY <1>12 DEF Command, StopStaleProcesses, WaitGone, Update, VerifyRuntime, WaitReady
  <2>3. QED
    BY <1>11, <2>1, <2>2
<1>13. ASSUME Shutdown, UNCHANGED <<legacy, socket, db>>
       PROVE  [Layout!LeaseNext]_(Layout!leaseVars)
  <2>1. socket \in Pids /\ Owns(socket) /\ Owns(socket)' /\ \A q \in Pids \ {socket} : at'[q] = at[q]
    BY <1>0, <1>13 DEF Shutdown, Answers, Owns
  <2>2. QED
    BY <1>3, <1>13, <2>1
<1>14. ASSUME NEW p \in Pids, Signal(p), UNCHANGED <<legacy, socket, db>>
       PROVE  [Layout!LeaseNext]_(Layout!leaseVars)
  <2>1. Alive(p) /\ at'[p] \notin {"unborn", "check", "write"} /\ (Owns(p)' => Owns(p))
    BY <1>0, <1>14 DEF Signal, Kill, Alive, Owns
  <2>2. \A q \in Pids \ {p} : at'[q] = at[q]
    BY <1>0, <1>14 DEF Signal, Kill
  <2>3. QED
    BY <1>8, <1>14, <2>1, <2>2
<1>15. ASSUME NEW c \in Clis, Stop(c) \/ Restart(c)
       PROVE  [Layout!LeaseNext]_(Layout!leaseVars)
  <2>1. UNCHANGED <<legacy, socket, db>>
    BY <1>15 DEF Stop, Restart
  <2>2. QED
    BY <1>11, <1>13, <1>14, <1>15, <2>1 DEF Stop, Restart, RunningPID, Alive
<1>16. CASE LegacyExits
  <2>1. Holder = {Legacy} /\ Holder' = {} /\ UNCHANGED <<socket, db>>
    BY <1>0, <1>16 DEF LegacyExits, LegacyDaemon, Owns
  <2>2. QED
    BY <2>1 DEF Layout!LeaseNext, Layout!Release
<1>17. CASE UNCHANGED lifecycleVars
  BY <1>11, <1>17 DEF lifecycleVars
<1>18. QED
  BY <1>5, <1>6, <1>7, <1>9, <1>10, <1>12, <1>15, <1>16, <1>17 DEF Next, Running, Waiting

(* Daemons that share a layout implement the lease: one holds it at a time, *)
(* the daemon of the previous layout included, and only the holder changes  *)
(* the socket and the database.                                             *)
THEOREM ImplementsLease == ASSUME OneShell PROVE Spec => HoldsLease
<1>1. Init => Layout!LeaseInit
  <2> SUFFICES ASSUME Init PROVE Layout!LeaseInit
    OBVIOUS
  <2>1. \A p \in Pids : ~Owns(p)
    BY DEF Init, Owns
  <2>2. QED
    BY <2>1 DEF Init, LegacyDaemon, Layout!LeaseInit
<1>2. /\ LifecycleTypeOK /\ LifecycleTypeOK' /\ OwnInv /\ OwnInv' /\ [Next]_lifecycleVars
      => [Layout!LeaseNext]_(Layout!leaseVars)
  BY LeaseStep
<1>3. QED
  BY <1>1, <1>2, OwnInvariant, LifecycleType, PTL DEF Spec, HoldsLease, Layout!LeaseSpec
=============================================================================
