----------------------------- MODULE Lifecycle -----------------------------
(***************************************************************************)
(* Daemons, one after another or one beside another, and what they share:  *)
(* the pid file, the control socket, the database file and the machine's   *)
(* xray processes.  Run of daemon/daemon.go with pidfile.go, reap.go and   *)
(* migrate.go, and the start, stop, restart and update commands that drive *)
(* it: cmd/emx/lifecycle.go and update.go, internal/selfupdate.            *)
(*                                                                         *)
(* A daemon process is a number, its pid, and lives once.  An xray process *)
(* is known by the daemon that started it, dead or alive.  systemd's own   *)
(* restarts are left out.                                                  *)
(***************************************************************************)
EXTENDS Integers, FiniteSets

CONSTANTS Pids,        \* daemon processes: 1..n
          Clis,        \* shells that run emx
          Commands,    \* of AllCommands: those they give
          MaxCommands, \* bound: commands given
          MaxCrashes   \* bound: daemons killed

AllCommands == {"start", "stop", "restart", "update"}

ASSUME LifecycleAssumption ==
  /\ Pids \in SUBSET (Nat \ {0}) /\ Commands \subseteq AllCommands
  /\ MaxCommands \in Nat /\ MaxCrashes \in Nat

\* The daemon of the previous layout, and no process.
Legacy == 0
None == -1

VARIABLES
  at,       \* where each daemon is in Run
  legacy,   \* the daemon of the previous layout: "up", "stopping" or "gone"
  pidFile,  \* the pid it holds, or None
  socket,   \* whose listener its file is, or None
  xray,     \* the daemons of which an xray runs
  db,       \* emx.db and its -wal: "none", with one to adopt, "empty",
            \* "main", the first without the second, and "whole"
  binary,   \* the installed emx: "old" or "new", the latest release
  version,  \* of each daemon: that of the binary when it was started
  cli,      \* where each command is
  update,   \* of each shell: an update "runs", was reported "done", or "no"
  commands, crashes,
  cutDown,  \* daemons that were killed, or told to stop as they started
  torn      \* a copy of the database was cut short

files == <<pidFile, socket, db>>
emx == <<binary, version>>
shell == <<cli, commands, update>>
ghosts == <<cutDown, torn>>
lifecycleVars == <<at, legacy, files, xray, emx, shell, crashes, ghosts>>

\* alive, RunningPID, LegacyDaemon.
Alive(p) == p \in Pids /\ at[p] \notin {"unborn", "gone"}
RunningPID == Alive(pidFile)
LegacyDaemon == legacy # "gone"
\* Ping is answered: the path leads to a listener that is served.
Answers == socket \in Pids /\ at[socket] \in {"serve", "stop"}

Goes(p, from, to) == at[p] = from /\ at' = [at EXCEPT ![p] = to]

(***************************************************************************)
(* Run, up to the point where it serves.                                   *)
(***************************************************************************)
\* Mutant of CheckRunning: a pid file that was left behind is believed.
CheckPIDFile(p) ==
  /\ Goes(p, "check", IF pidFile # None \/ LegacyDaemon THEN "gone" ELSE "write")
  /\ UNCHANGED <<legacy, files, xray, emx, shell, crashes, ghosts>>

\* Mutant of CheckRunning: the previous layout is not looked at.
CheckThisLayout(p) ==
  /\ Goes(p, "check", IF RunningPID THEN "gone" ELSE "write")
  /\ UNCHANGED <<legacy, files, xray, emx, shell, crashes, ghosts>>

CheckRunning(p) ==
  /\ Goes(p, "check", IF RunningPID \/ LegacyDaemon THEN "gone" ELSE "write")
  /\ UNCHANGED <<legacy, files, xray, emx, shell, crashes, ghosts>>

WritePID(p) ==
  /\ Goes(p, "write", "remove")
  /\ pidFile' = p
  /\ UNCHANGED <<legacy, socket, db, xray, emx, shell, crashes, ghosts>>

RemoveStaleSocket(p) ==
  /\ Goes(p, "remove", "listen")
  /\ socket' = None
  /\ UNCHANGED <<legacy, pidFile, db, xray, emx, shell, crashes, ghosts>>

\* A path that exists is in use.
Listen(p) ==
  /\ Goes(p, "listen", IF socket = None THEN "reap" ELSE "unpid")
  /\ socket' = IF socket = None THEN p ELSE socket
  /\ UNCHANGED <<legacy, pidFile, db, xray, emx, shell, crashes, ghosts>>

\* Mutant of ReapStrayXray: only a leftover of the previous layout is ended.
ReapLegacyXray(p) ==
  /\ Goes(p, "reap", "adopt")
  /\ xray' = xray \ {Legacy}
  /\ UNCHANGED <<legacy, files, emx, shell, crashes, ghosts>>

\* Every emx xray is ended: this daemon has none yet.
ReapStrayXray(p) ==
  /\ Goes(p, "reap", "adopt")
  /\ xray' = {}
  /\ UNCHANGED <<legacy, files, emx, shell, crashes, ghosts>>

\* A file with something in it is the database.  Else the previous layout's
\* is copied, file by file, each created anew: an empty one is in the way.
AdoptLegacyDB(p) ==
  /\ \/ db \in {"main", "whole"} /\ Goes(p, "adopt", "open") /\ UNCHANGED db
     \/ db = "none" /\ Goes(p, "adopt", "copy") /\ db' = "empty"
     \/ db = "empty" /\ Goes(p, "adopt", "unlink") /\ UNCHANGED db
  /\ UNCHANGED <<legacy, pidFile, socket, xray, emx, shell, crashes, ghosts>>

\* Mutant of CopyDB: the files next to the database are forgotten.
CopyMainFile(p) ==
  /\ db = "empty" /\ Goes(p, "copy", "open") /\ db' = "main"
  /\ UNCHANGED <<legacy, pidFile, socket, xray, emx, shell, crashes, ghosts>>

CopyDB(p) ==
  /\ \/ db = "empty" /\ Goes(p, "copy", "copy") /\ db' = "main"
     \/ db = "main" /\ Goes(p, "copy", "open") /\ db' = "whole"
  /\ UNCHANGED <<legacy, pidFile, socket, xray, emx, shell, crashes, ghosts>>

\* The file that was being copied is removed, and Run returns; one that was
\* copied before it stays.
CopyFails(p) ==
  /\ Goes(p, "copy", "unlink")
  /\ db' = IF db = "empty" THEN "none" ELSE db
  /\ torn' = (torn \/ db = "main")
  /\ UNCHANGED <<legacy, pidFile, socket, xray, emx, shell, crashes, cutDown>>

\* The store, the first reconcile, which starts xray if something can be
\* routed, and the server.
Serve(p) ==
  /\ Goes(p, "open", "serve")
  /\ \E routable \in BOOLEAN : xray' = IF routable THEN xray \cup {p} ELSE xray
  /\ UNCHANGED <<legacy, files, emx, shell, crashes, ghosts>>

(***************************************************************************)
(* Serving: the child dies, and is started again, perhaps after            *)
(* ReapMainXray has ended another that holds one of its unix sockets.      *)
(***************************************************************************)
ChildExits(p) ==
  /\ at[p] = "serve" /\ p \in xray
  /\ xray' = xray \ {p}
  /\ UNCHANGED <<at, legacy, files, emx, shell, crashes, ghosts>>

StartChild(p) ==
  /\ at[p] = "serve" /\ p \notin xray
  /\ \E held \in BOOLEAN : xray' = IF held THEN {p} ELSE xray \cup {p}
  /\ UNCHANGED <<at, legacy, files, emx, shell, crashes, ghosts>>

(***************************************************************************)
(* The end of Run: Supervisor.Stop, GracefulStop, which waits for the RPCs *)
(* and unlinks the socket, and what was deferred.                          *)
(***************************************************************************)
StopChild(p) ==
  /\ Goes(p, "stop", "drain")
  /\ xray' = xray \ {p}
  /\ UNCHANGED <<legacy, files, emx, shell, crashes, ghosts>>

\* An RPC, the sampler or a probe reconciles after the child was stopped.
LateReconcile(p) ==
  /\ at[p] = "drain" /\ p \notin xray
  /\ xray' = xray \cup {p}
  /\ UNCHANGED <<at, legacy, files, emx, shell, crashes, ghosts>>

\* Mutant of GracefulStop: what was deferred first is done first.
GracefulStopUnpids(p) ==
  /\ Goes(p, "drain", "unlink")
  /\ socket' = None /\ pidFile' = None
  /\ UNCHANGED <<legacy, db, xray, emx, shell, crashes, ghosts>>

GracefulStop(p) ==
  /\ Goes(p, "drain", "unlink")
  /\ socket' = None
  /\ UNCHANGED <<legacy, pidFile, db, xray, emx, shell, crashes, ghosts>>

RemoveSocket(p) ==
  /\ Goes(p, "unlink", "unpid")
  /\ socket' = None
  /\ UNCHANGED <<legacy, pidFile, db, xray, emx, shell, crashes, ghosts>>

RemovePID(p) ==
  /\ Goes(p, "unpid", "exit")
  /\ pidFile' = None
  /\ UNCHANGED <<legacy, socket, db, xray, emx, shell, crashes, ghosts>>

\* dieWithParent: on Linux a child left over is signalled; elsewhere, and if
\* it hangs, it runs on.
Dies(p) == \E with \in BOOLEAN : xray' = IF with THEN xray \ {p} ELSE xray

Exit(p) ==
  /\ Goes(p, "exit", "gone")
  /\ Dies(p)
  /\ UNCHANGED <<legacy, files, emx, shell, crashes, ghosts>>

Kill(p) ==
  /\ at' = [at EXCEPT ![p] = "gone"]
  /\ cutDown' = cutDown \cup {p}
  /\ torn' = (torn \/ at[p] = "copy")
  /\ Dies(p)

Crash(p) ==
  /\ Alive(p) /\ crashes < MaxCrashes
  /\ crashes' = crashes + 1
  /\ Kill(p)
  /\ update' = [c \in Clis |-> IF update[c] = "done" THEN "no" ELSE update[c]]
  /\ UNCHANGED <<legacy, files, emx, cli, commands>>

LegacyExits ==
  /\ legacy = "stopping"
  /\ legacy' = "gone"
  /\ Dies(Legacy)
  /\ UNCHANGED <<at, files, emx, shell, crashes, ghosts>>

(***************************************************************************)
(* The commands.                                                           *)
(***************************************************************************)
Onward(c, from, to) == cli[c] = from /\ cli' = [cli EXCEPT ![c] = to]
\* A restart that is part of an update goes on to verifyRuntime.
Then(c) == IF update[c] = "runs" THEN "verify" ELSE "idle"

Command(c) ==
  /\ commands < MaxCommands
  /\ \E k \in Commands :
       /\ Onward(c, "idle", k)
       /\ update' = [update EXCEPT ![c] = IF k = "update" THEN "runs" ELSE "no"]
  /\ commands' = commands + 1
  /\ UNCHANGED <<at, legacy, files, xray, emx, crashes, ghosts>>

\* startDetached.
StartDetached(c) ==
  /\ \/ RunningPID /\ Onward(c, "start", Then(c)) /\ UNCHANGED <<at, version>>
     \/ /\ ~RunningPID
        /\ \E p \in Pids :
             /\ Goes(p, "unborn", "check")
             /\ \A q \in Pids : at[q] = "unborn" => p <= q
             /\ version' = [version EXCEPT ![p] = binary]
        /\ Onward(c, "start", "wait")
  /\ UNCHANGED <<legacy, files, xray, binary, commands, update, crashes, ghosts>>

\* waitReady: it answers, or time is up, which is an error; five seconds are
\* enough to get as far as the pid file.
WaitReady(c) ==
  /\ \/ Answers /\ Onward(c, "wait", Then(c)) /\ UNCHANGED update
     \/ /\ \A p \in Pids : at[p] \notin {"check", "write"}
        /\ Onward(c, "wait", "idle")
        /\ update' = [update EXCEPT ![c] = "no"]
  /\ UNCHANGED <<at, legacy, files, xray, emx, commands, crashes, ghosts>>

\* The Shutdown RPC: the first one ends the wait of Run.
Shutdown ==
  /\ Answers
  /\ at' = IF at[socket] = "serve" THEN [at EXCEPT ![socket] = "stop"] ELSE at
  /\ UNCHANGED <<xray, ghosts>>

\* SIGTERM kills a daemon that has not asked for it yet, stops one that
\* serves, and no longer matters to one that stops.
Signal(p) ==
  \/ /\ at[p] \in {"remove", "listen", "reap", "adopt", "copy", "open"}
     /\ Kill(p)
  \/ /\ at[p] = "serve"
     /\ at' = [at EXCEPT ![p] = "stop"]
     /\ UNCHANGED <<xray, ghosts>>
  \/ /\ at[p] \in {"stop", "drain", "unlink", "unpid", "exit"}
     /\ UNCHANGED <<at, xray, ghosts>>

\* stopCmd; an answer may be too slow.
Stop(c) ==
  /\ \/ ~RunningPID /\ Onward(c, "stop", "idle") /\ UNCHANGED <<at, xray, ghosts>>
     \/ RunningPID /\ Onward(c, "stop", "stopWait") /\ (Shutdown \/ Signal(pidFile))
  /\ UNCHANGED <<legacy, files, emx, commands, update, crashes>>

\* restartDaemon: what was left behind is ended, the child of a daemon that
\* answers in time apart.
StopStaleProcesses(c) ==
  /\ Onward(c, "restart", "restarting")
  /\ legacy' = IF legacy = "up" THEN "stopping" ELSE legacy
  /\ \E keep \in (IF Answers THEN {{}, {socket}} ELSE {{}}) : xray' = xray \cap keep
  /\ UNCHANGED <<at, files, emx, commands, update, crashes, ghosts>>

Restart(c) ==
  /\ \/ ~RunningPID /\ Onward(c, "restarting", "start") /\ UNCHANGED <<at, xray, ghosts>>
     \/ /\ RunningPID /\ Onward(c, "restarting", "restartWait")
        /\ Shutdown \/ UNCHANGED <<at, xray, ghosts>>
  /\ UNCHANGED <<legacy, files, emx, commands, update, crashes>>

\* waitGone: the pid is no longer alive, or time is up, which stop reports
\* and restart passes over.
WaitGone(c) ==
  /\ Onward(c, "stopWait", "idle") \/ Onward(c, "restartWait", "start")
  /\ UNCHANGED <<at, legacy, files, xray, emx, commands, update, crashes, ghosts>>

(***************************************************************************)
(* updateCmd: nothing to install, where a daemon may still run the old     *)
(* one or none at all; an installation that fails before the rename; or a  *)
(* new binary, and a restart.                                              *)
(***************************************************************************)
\* Latest fails, a release has nothing for this machine, or Apply does not
\* get to its rename.
UpdateFails(c) ==
  /\ Onward(c, "update", "idle") /\ update' = [update EXCEPT ![c] = "no"]
  /\ UNCHANGED binary
\* Newer is false.
UpToDate(c) ==
  /\ binary = "new" /\ UNCHANGED binary
  /\ \/ Answers /\ version[socket] # binary
     \/ ~RunningPID /\ ~LegacyDaemon
  /\ Onward(c, "update", "restart") /\ UNCHANGED update
Apply(c) ==
  /\ binary = "old" /\ binary' = "new"
  /\ Onward(c, "update", "restart") /\ UNCHANGED update
Update(c) ==
  /\ UpdateFails(c) \/ UpToDate(c) \/ Apply(c)
  /\ UNCHANGED <<at, legacy, files, xray, version, commands, crashes, ghosts>>

\* The new version answers, or time is up.
VerifyRuntime(c) ==
  /\ Onward(c, "verify", "idle")
  /\ \/ Answers /\ version[socket] = "new" /\ update' = [update EXCEPT ![c] = "done"]
     \/ update' = [update EXCEPT ![c] = "no"]
  /\ UNCHANGED <<at, legacy, files, xray, emx, commands, crashes, ghosts>>

Init ==
  /\ at = [p \in Pids |-> "unborn"]
  /\ legacy \in {"up", "gone"}
  /\ pidFile = None /\ socket = None /\ db \in {"none", "whole"}
  /\ xray = IF legacy = "up" THEN {Legacy} ELSE {}
  /\ binary = "old" /\ version = [p \in Pids |-> "old"]
  /\ cli = [c \in Clis |-> "idle"] /\ update = [c \in Clis |-> "no"] /\ commands = 0 /\ crashes = 0
  /\ cutDown = {} /\ torn = FALSE

Running(p) ==
  \/ CheckRunning(p) \/ WritePID(p) \/ RemoveStaleSocket(p) \/ Listen(p)
  \/ ReapStrayXray(p) \/ AdoptLegacyDB(p) \/ CopyDB(p) \/ CopyFails(p) \/ Serve(p)
  \/ StopChild(p) \/ GracefulStop(p) \/ RemoveSocket(p) \/ RemovePID(p) \/ Exit(p)
Child(p) == ChildExits(p) \/ StartChild(p) \/ LateReconcile(p)
Waiting(c) ==
  \/ StartDetached(c) \/ WaitReady(c) \/ Stop(c) \/ StopStaleProcesses(c) \/ Restart(c) \/ WaitGone(c)
  \/ Update(c) \/ VerifyRuntime(c)

Next ==
  \/ \E p \in Pids : Running(p) \/ Child(p) \/ Crash(p)
  \/ \E c \in Clis : Command(c) \/ Waiting(c)
  \/ LegacyExits

\* A process goes on, and a command ends; nobody has to give one.
Spec ==
  /\ Init /\ [][Next]_lifecycleVars
  /\ \A p \in Pids : WF_lifecycleVars(Running(p))
  /\ \A c \in Clis : WF_lifecycleVars(Waiting(c))
  /\ WF_lifecycleVars(LegacyExits)

\* Past the pid file, up to the last thing done with what is shared.
Owns(p) == at[p] \in {"remove", "listen", "reap", "adopt", "copy", "open",
                     "serve", "stop", "drain", "unlink", "unpid"}
Up == \E p \in Pids : at[p] = "serve"

LifecycleTypeOK ==
  /\ at \in [Pids -> {"unborn", "check", "write", "exit", "gone", "remove", "listen", "reap", "adopt",
                      "copy", "open", "serve", "stop", "drain", "unlink", "unpid"}]
  /\ legacy \in {"up", "stopping", "gone"}
  /\ pidFile \in Pids \cup {None} /\ socket \in Pids \cup {None}
  /\ xray \subseteq Pids \cup {Legacy} /\ db \in {"none", "empty", "main", "whole"}
  /\ binary \in {"old", "new"} /\ version \in [Pids -> {"old", "new"}]
  /\ cli \in [Clis -> AllCommands \cup {"idle", "wait", "stopWait", "restarting", "restartWait", "verify"}]
  /\ update \in [Clis -> {"no", "runs", "done"}]
  /\ commands \in Nat /\ crashes \in Nat
  /\ cutDown \subseteq Pids /\ torn \in BOOLEAN

(***************************************************************************)
(* "only one daemon owns" the database: with one shell that gives one      *)
(* command at a time, no daemon gets past the pid file before the one      *)
(* before it is done with all that is shared.                              *)
(***************************************************************************)
OneDaemon ==
  \A p, q \in Pids : Owns(p) /\ Owns(q) => p = q /\ legacy = "gone"

(***************************************************************************)
(* More than that: from the pid file on a daemon has the layout to itself  *)
(* until it is done, also against the previous layout's, and only it       *)
(* changes the socket and the database (daemon.go:65-82).                  *)
(***************************************************************************)
Layout ==
  INSTANCE Lease WITH
    Procs <- Pids \cup {Legacy},
    holder <- {p \in Pids : Owns(p)} \cup (IF LegacyDaemon THEN {Legacy} ELSE {}),
    goods <- <<socket, db>>
HoldsLease == Layout!LeaseSpec

(***************************************************************************)
(* While a daemon serves, no xray but its own runs: not that of one that   *)
(* was killed, nor one that a late reconcile started after it was stopped. *)
(***************************************************************************)
OwnChildOnly == \A p \in Pids : at[p] = "serve" => xray \subseteq {p}

(***************************************************************************)
(* The database is opened with all its files, if no copy was cut short.    *)
(***************************************************************************)
DataKept == \A p \in Pids : at[p] = "serve" /\ ~torn => db = "whole"

(***************************************************************************)
(* A daemon started with a database in place, and when the previous        *)
(* layout's is gone, comes to serve, whatever a killed one left behind,    *)
(* unless it is killed itself.                                             *)
(***************************************************************************)
StartServes ==
  \A p \in Pids : (at[p] = "check" /\ legacy = "gone" /\ db = "whole")
                   ~> (at[p] = "serve" \/ p \in cutDown)

(***************************************************************************)
(* restartDaemon "stops the running daemon (graceful RPC, then re-spawns).  *)
(* Spawns fresh even if it wasn't running": when the command is over, a    *)
(* daemon serves at some time.                                             *)
(***************************************************************************)
RestartComesUp == \A c \in Clis : cli[c] = "restart" ~> (cli[c] = "idle" /\ Up)
=============================================================================
