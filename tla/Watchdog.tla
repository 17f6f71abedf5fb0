------------------------------ MODULE Watchdog ------------------------------
(***************************************************************************)
(* daemon/watchdog.go: the supervise goroutine that keeps one xray child   *)
(* running, and the Start, Stop and Restart calls the Supervisor makes on  *)
(* it.  The goroutine and every call are split where the code drops w.mu   *)
(* or blocks, so all interleavings of the two are behaviours here.         *)
(*                                                                         *)
(* Processes and channels are named relative to now instead of by number:  *)
(* a *os.Process a caller captured is "current" while the child it names   *)
(* is the one supervise is waiting for and "stale" once that child was     *)
(* reaped; a done channel a caller waits on is "current", or "closed", or  *)
(* "lost" once Start replaced w.doneCh before it was closed.               *)
(* Not modelled: log lines, lastErr, the restart counter, and the length   *)
(* of the backoff (a sleep may end at any time).                           *)
(***************************************************************************)
EXTENDS Naturals

CONSTANTS Callers,   \* goroutines that call the watchdog
          Unlocked,  \* callers that do not take Supervisor.mu (the daemon's shutdown)
          Nobody     \* mu is free

ASSUME CallersAssumption == /\ Unlocked \subseteq Callers
                            /\ Nobody \notin Callers

VARIABLES
  mu,       \* holder of Supervisor.mu
  stopCh,   \* w.stopCh: "nil", "open" or "closed"
  doneCh,   \* w.doneCh: "nil", "open" or "closed"
  cmd,      \* the process w.cmd names: "none", "stale" or "current"
  running,  \* w.running
  loop,     \* where the supervise goroutine is; "none" when there is none
  closing,  \* goroutines between the unlock and the close of supervise's defer
  child,    \* the xray process: "none", "up" or "exited" (not waited for yet)
  termed,   \* the child has been sent SIGTERM
  killed,   \* the child has been sent SIGKILL
  pc,       \* where each caller is in Stop or Restart
  target,   \* the process each caller captured
  waitsOn,  \* the done channel each caller in Stop captured
  panicked  \* a done channel was closed twice

loopVars == <<stopCh, doneCh, cmd, running, loop, closing>>
childVars == <<child, termed, killed>>
callVars == <<pc, target, waitsOn>>
wdVars == <<mu, loopVars, childVars, callVars, panicked>>

LoopStates == {"none", "top", "build", "register", "wait", "sleep", "defer"}
CallStates == {"idle", "stopSignal", "stopGrace", "stopWait", "restartSignal"}
Stopping == {"stopSignal", "stopGrace", "stopWait"}
Procs == {"none", "stale", "current"}

(* The type invariant. *)
TypeOK ==
  /\ mu \in Callers \cup {Nobody}
  /\ stopCh \in {"nil", "open", "closed"}
  /\ doneCh \in {"nil", "open", "closed"}
  /\ cmd \in Procs
  /\ running \in BOOLEAN
  /\ loop \in LoopStates
  /\ closing \in Nat
  /\ child \in {"none", "up", "exited"}
  /\ termed \in BOOLEAN
  /\ killed \in BOOLEAN
  /\ pc \in [Callers -> CallStates]
  /\ target \in [Callers -> Procs]
  /\ waitsOn \in [Callers -> {"none", "current", "closed", "lost"}]
  /\ panicked \in BOOLEAN

WdInit ==
  /\ mu = Nobody
  /\ stopCh = "nil"
  /\ doneCh = "nil"
  /\ cmd = "none"
  /\ running = FALSE
  /\ loop = "none"
  /\ closing = 0
  /\ child = "none"
  /\ termed = FALSE
  /\ killed = FALSE
  /\ pc = [c \in Callers |-> "idle"]
  /\ target = [c \in Callers |-> "none"]
  /\ waitsOn = [c \in Callers |-> "none"]
  /\ panicked = FALSE

-----------------------------------------------------------------------------
(* The supervise goroutine. *)

\* The select at the top of the loop: the only look at stopCh before a spawn.
LoopTop ==
  /\ loop = "top"
  /\ loop' = IF stopCh = "closed" THEN "defer" ELSE "build"
  /\ UNCHANGED <<mu, stopCh, doneCh, cmd, running, closing, childVars, callVars, panicked>>

\* factory() or cmd.Start() fails; supervise sleeps the backoff.
SpawnFails ==
  /\ loop = "build"
  /\ loop' = "sleep"
  /\ UNCHANGED <<mu, stopCh, doneCh, cmd, running, closing, childVars, callVars, panicked>>

\* cmd.Start() succeeds.  w.cmd and w.running do not say so yet.
Spawn ==
  /\ loop = "build"
  /\ loop' = "register"
  /\ child' = "up"
  /\ termed' = FALSE
  /\ killed' = FALSE
  /\ UNCHANGED <<mu, stopCh, doneCh, cmd, running, closing, callVars, panicked>>

\* The critical section that publishes the new child.
Register ==
  /\ loop = "register"
  /\ loop' = "wait"
  /\ cmd' = "current"
  /\ running' = TRUE
  /\ UNCHANGED <<mu, stopCh, doneCh, closing, childVars, callVars, panicked>>

Retire(p) == IF p = "current" THEN "stale" ELSE p

\* cmd.Wait() returns and the loop decides whether it is stopping.
Reap ==
  /\ loop = "wait"
  /\ child = "exited"
  /\ child' = "none"
  /\ running' = FALSE
  /\ loop' = IF stopCh = "closed" THEN "defer" ELSE "sleep"
  /\ cmd' = Retire(cmd)
  /\ target' = [c \in Callers |-> Retire(target[c])]
  /\ UNCHANGED <<mu, stopCh, doneCh, closing, termed, killed, pc, waitsOn, panicked>>

\* Mutant of Wake: the backoff ends with a stop only.
WakeOnStop ==
  /\ loop = "sleep" /\ stopCh = "closed"
  /\ loop' = "defer"
  /\ UNCHANGED <<mu, stopCh, doneCh, cmd, running, closing, childVars, callVars, panicked>>

\* sleep(backoff): the timer fires, or the stop channel is closed.
Wake ==
  /\ loop = "sleep"
  /\ \/ loop' = "top"
     \/ stopCh = "closed" /\ loop' = "defer"
  /\ UNCHANGED <<mu, stopCh, doneCh, cmd, running, closing, childVars, callVars, panicked>>

\* The locked half of supervise's defer.
LoopExit ==
  /\ loop = "defer"
  /\ loop' = "none"
  /\ stopCh' = "nil"
  /\ running' = FALSE
  /\ closing' = closing + 1
  /\ UNCHANGED <<mu, doneCh, cmd, childVars, callVars, panicked>>

\* close(w.doneCh): whatever channel the field names now.
CloseDone ==
  /\ closing > 0
  /\ closing' = closing - 1
  /\ doneCh' = "closed"
  /\ panicked' = (panicked \/ doneCh = "closed")
  /\ waitsOn' = [c \in Callers |-> IF waitsOn[c] = "current" THEN "closed" ELSE waitsOn[c]]
  /\ UNCHANGED <<mu, stopCh, cmd, running, loop, childVars, pc, target>>

\* The child ends: by itself, on SIGTERM or on SIGKILL.  Only SIGKILL can be
\* relied on; a hung child ignores SIGTERM.
ChildExit ==
  /\ child = "up"
  /\ child' = "exited"
  /\ UNCHANGED <<mu, loopVars, termed, killed, callVars, panicked>>

-----------------------------------------------------------------------------
(* The callers. *)

\* The Supervisor takes and drops its own mutex around its watchdog calls.
Lock(c) ==
  /\ c \notin Unlocked
  /\ mu = Nobody
  /\ mu' = c
  /\ UNCHANGED <<loopVars, childVars, callVars, panicked>>

Unlock(c) ==
  /\ mu = c
  /\ pc[c] = "idle"
  /\ mu' = Nobody
  /\ UNCHANGED <<loopVars, childVars, callVars, panicked>>

MayCall(c) == pc[c] = "idle" /\ (mu = c \/ c \in Unlocked)

IsStarted == stopCh = "open"

\* Start does nothing while stopCh is set, closed or not.
Start(c) ==
  /\ MayCall(c)
  /\ c \notin Unlocked
  /\ stopCh = "nil"
  /\ stopCh' = "open"
  /\ doneCh' = "open"
  /\ loop' = "top"
  /\ waitsOn' = [d \in Callers |-> IF waitsOn[d] = "current" THEN "lost" ELSE waitsOn[d]]
  /\ UNCHANGED <<mu, cmd, running, closing, childVars, pc, target, panicked>>

\* The locked half of Stop: close stopCh, capture w.cmd and w.doneCh.
StopCapture(c) ==
  /\ MayCall(c)
  /\ stopCh # "nil"
  /\ stopCh' = "closed"
  /\ target' = [target EXCEPT ![c] = cmd]
  /\ waitsOn' = [waitsOn EXCEPT ![c] = IF doneCh = "closed" THEN "closed" ELSE "current"]
  /\ pc' = [pc EXCEPT ![c] = IF cmd = "none" THEN "stopWait" ELSE "stopSignal"]
  /\ UNCHANGED <<mu, doneCh, cmd, running, loop, closing, childVars, panicked>>

\* SIGTERM to the captured process; an error on a reaped one is ignored.
StopSignal(c) ==
  /\ pc[c] = "stopSignal"
  /\ termed' = (termed \/ target[c] = "current")
  /\ pc' = [pc EXCEPT ![c] = "stopGrace"]
  /\ UNCHANGED <<mu, loopVars, child, killed, target, waitsOn, panicked>>

\* Mutant of StopKill: the hard kill after the grace period is forgotten.
StopKillForgotten(c) ==
  /\ pc[c] = "stopGrace"
  /\ pc' = [pc EXCEPT ![c] = "stopWait"]
  /\ UNCHANGED <<mu, loopVars, childVars, target, waitsOn, panicked>>

\* time.After(grace) fires first: SIGKILL to the captured process.
StopKill(c) ==
  /\ pc[c] = "stopGrace"
  /\ killed' = (killed \/ target[c] = "current")
  /\ pc' = [pc EXCEPT ![c] = "stopWait"]
  /\ UNCHANGED <<mu, loopVars, child, termed, target, waitsOn, panicked>>

\* <-done
StopReturn(c) ==
  /\ pc[c] \in {"stopGrace", "stopWait"}
  /\ waitsOn[c] = "closed"
  /\ pc' = [pc EXCEPT ![c] = "idle"]
  /\ target' = [target EXCEPT ![c] = "none"]
  /\ waitsOn' = [waitsOn EXCEPT ![c] = "none"]
  /\ UNCHANGED <<mu, loopVars, childVars, panicked>>

\* The locked half of Restart; without a running child it does nothing.
RestartCapture(c) ==
  /\ MayCall(c)
  /\ c \notin Unlocked
  /\ running
  /\ cmd # "none"
  /\ target' = [target EXCEPT ![c] = cmd]
  /\ pc' = [pc EXCEPT ![c] = "restartSignal"]
  /\ UNCHANGED <<mu, loopVars, childVars, waitsOn, panicked>>

RestartSignal(c) ==
  /\ pc[c] = "restartSignal"
  /\ termed' = (termed \/ target[c] = "current")
  /\ pc' = [pc EXCEPT ![c] = "idle"]
  /\ target' = [target EXCEPT ![c] = "none"]
  /\ UNCHANGED <<mu, loopVars, child, killed, waitsOn, panicked>>

-----------------------------------------------------------------------------
LoopStep == LoopTop \/ SpawnFails \/ Spawn \/ Register \/ Reap \/ Wake \/ LoopExit
StopStep(c) == StopSignal(c) \/ StopKill(c) \/ StopReturn(c)
CallStep(c) == StopStep(c) \/ RestartSignal(c)

WdNext ==
  \/ LoopStep
  \/ CloseDone
  \/ ChildExit
  \/ \E c \in Callers :
       \/ Lock(c) \/ Unlock(c)
       \/ Start(c) \/ StopCapture(c) \/ RestartCapture(c)
       \/ CallStep(c)

\* Goroutines that can run do run, timers fire, and SIGKILL ends a process.
\* Nothing is promised of the child itself, nor of whether a call is made.
WdFairness ==
  /\ WF_wdVars(LoopStep)
  /\ WF_wdVars(CloseDone)
  /\ WF_wdVars(ChildExit /\ killed)
  /\ \A c \in Callers : WF_wdVars(CallStep(c))

WdSafety == WdInit /\ [][WdNext]_wdVars
WdSpec == WdSafety /\ WdFairness

-----------------------------------------------------------------------------
(* Properties. *)

(* While the watchdog reports itself stopped (stopCh nil), no xray process  *)
(* of its loop is alive: the next Start can never run a second child beside *)
(* one that still holds the inbound ports.                                  *)
StoppedHasNoChild == stopCh = "nil" => child = "none"

(* w.running is only true of a child that w.cmd names, so the pid Status    *)
(* reports and the process Restart signals are the same process.            *)
RunningIsCurrent == running => cmd = "current" /\ child # "none"

(* supervise's defer closes each done channel once.  w.doneCh is read again *)
(* after w.mu is dropped, so this rests on every caller of Start and Stop   *)
(* holding Supervisor.mu.                                                   *)
DoneClosedOnce == ~panicked

(* A Stop never waits on a done channel that nobody will close any more.    *)
NoLostWaiter == \A c \in Callers : waitsOn[c] # "lost"

(* A child that exits is spawned again, or at least tried, unless a Stop    *)
(* comes first: the loop never ends on its own (watchdog.go:22).            *)
CrashIsRespawned ==
  (loop = "wait" /\ child = "exited") ~> (loop = "build" \/ stopCh = "closed")

(* A Stop that captured the child it has to end does return, whatever the   *)
(* child does with SIGTERM.                                                 *)
SignalledStopReturns ==
  \A c \in Callers :
    (pc[c] \in Stopping /\ target[c] = "current") ~> (pc[c] = "idle")
=============================================================================
