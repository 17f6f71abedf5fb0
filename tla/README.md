# em-xray in TLA+

em-xray is a daemon (`emxd`) that manages one xray process: it stores entries
(outbounds), inbounds, users and subscriptions in a database, generates an xray
config from them, keeps the process running on it, and changes it live. This
directory is its verification development: TLA+ modules translated from the Go
source, TLC configurations that model-check them, and TLAPS proofs.

Paths below are relative to `src/`. `PROJECT.json` maps every definition to the
lines it stands for.

## 1. The system

| Component | State | Operations | Talks to |
|---|---|---|---|
| Watchdog, `daemon/watchdog.go` | `stopCh`, `doneCh`, `cmd`, `running` under `w.mu`; the `supervise` goroutine; the child | `Start`, `Stop`, `Restart`, `IsStarted`, `State` | called by the Supervisor; runs xray |
| Supervisor, `daemon/xray.go` | `s.running`, `config.json`, `slotIdx`, `rejected`, `loadedSlots`, health counters, under `s.mu` | `Reconcile`, `RestartXray`, `startLastGoodLocked`, the health monitor's `checkXrayHealth` | reads the store, drives Watchdog and the live apply |
| Live apply, `daemon/xray_live.go`, `daemon/xrayapi.go` | none of its own; `config.json` is already new | `planLive`, `applyLiveLocked`: `rmo`, `ado`, `rmi`, `adi`, `adrules` | the api of the running xray |
| Validation, `daemon/validate.go` | `rejected`, `cfgErr` | `xray -test`, member rejection and its expiry | Supervisor |
| Config generation, `core/xray/config.go`, `core/xray/dialer.go` | none | `Generate`, dialer slots, balancers | Supervisor |
| Picker and chain probes, `daemon/nodepick.go`, `chainprobe.go` | a score per member, a chain score per master and member | the health poll, the probe round, the network reset; `pickSlot` in every reconcile | xray's metrics; a reconcile when the pick differs |
| Parker, `daemon/nodepark.go` | how long each node is dead, parked, on trial | `observe`, `release`, `unpark` | the health poll; resolves pools without parked nodes |
| Auto strategy, `daemon/autostrategy.go`, `nodehistory.go` | a ring of polls per pool, its mode | `record`, `evaluate` | the health poll; a reconcile when a pool changes its mode |
| Socket cutting, `daemon/sockcut*.go`, `membercut.go` | none | closes connections by address | after a live apply, after a poll |
| Store, `core/xray/store.go`, `models.go` | the SQLite tables | transactions, and gorm's `Save` of whole rows | all others |
| Subscription fetcher, `daemon/subscriptions.go`, `core/xray/fetch.go` | what is due | `RefreshDue`, `RefreshOne`, `RefreshAll`, `record` | store; fires a reconcile |
| Traffic and quota, `daemon/traffic.go`, `core/xray/traffic*.go`, `users.go` | last samples, who is over the cap | a tick that adds counters and has users cut off | xray's stats; a reconcile |
| Entry, inbound and user calls, `daemon/server*.go`, `rename.go` | none | read and check, commit, move what is kept by name, reconcile | store, Supervisor |
| Backup, `daemon/server_backup.go` | a file | export; import, replacing or not, row by row | store |
| Run and its commands, `daemon/daemon.go`, `pidfile.go`, `reap.go`, `migrate.go`, `cmd/emx/lifecycle.go`, `update.go` | pid file, socket file, database file, installed binary | start, shutdown, reaping, adoption of the legacy database; start, stop, restart, update | other daemons, by files and signals |
| Links and probes, `core/xray/link.go`, `entrylink.go`, `sharelink.go`, `template.go`, `probe.go`, `daemon/server_probe.go` | a throwaway xray per batch | parse, show and share links; test nodes | store |
| CLI, TUI, generated API, log rotation, downloads | | section 6 | |

How they interact: every RPC **commits first and reconciles afterwards**, with no
lock over the two, so changes of several callers interleave with one reconcile.
`Supervisor.mu` serialises reconciles, restarts and the watchdog calls in them.
The subscription scheduler, the health poller, the chain prober, the health
monitor and the traffic sampler are goroutines that start reconciles besides the
RPC handlers. They take a snapshot under `s.mu`, work for seconds without it, and
come back. The `supervise` goroutine takes `w.mu` only; the child reads
`config.json` whenever it happens to start.

What is hard here, and what has to be true of each part:

- **Watchdog**: `Stop` and `supervise` drop `w.mu` between looking and acting,
  channels are replaced while another goroutine waits for them, and a child may
  ignore SIGTERM. No channel is closed twice, every crash is respawned.
- **Supervisor**: the process, `config.json` and `s.running` are three copies of
  one config that are written one after another, with failures in between and a
  child that can die and re-read the file at any of those points. They must agree
  when nobody is at work, and a refused config must not take the box down.
- **Live apply**: up to seven kinds of calls, one object at a time, while clients
  connect. A *master* (an entry that dials through a pool of other nodes, to hide
  this box's address) must never be there without its dialer; a revoked client
  must lose its connections; what does not change must not be touched.
- **Generation and validation**: pools beyond the slot limit, nodes that xray
  refuses, references that dangle. A master is blocked rather than dialled
  directly; a bad node costs that node only.
- **Pools**: scores and verdicts are a poll old when they are used, and the pools
  have changed meanwhile. What does not carry is never put before what does; a
  pool is never emptied; a parked node gets its trial; an outage of the uplink is
  not taken for bad nodes; clients leave a dead node.
- **Subscriptions**: a refresh reads a row, fetches for up to 30 seconds and
  writes the row back, while RPCs remove, rename, disable or change it.
- **Entries**: checks and the write they allow are two steps, a rename is three.
  References stay sound, a rename moves no traffic.
- **Quota**: counters start anew with xray, rows go and come with the same name.
  Nothing is counted twice, and who reaches the cap is cut off.
- **Lifecycle**: files and processes that killed daemons leave behind. One daemon
  at a time, and no xray but its own.
- **Links**: a link and the inbound it is for are made in two places from one row.

`PROJECT.json` "hazards" lists these at their lines, with the properties that
would catch each going wrong.

## 2. The modules

| Module | Models | Composes |
|---|---|---|
| `Watchdog` | `watchdog.go`, callers and goroutine split at every unlock and blocking call | |
| `Supervisor` | starting, stopping, restarting xray, last good config, health monitor | EXTENDS `Watchdog` |
| `LiveApply` | `planLive` and every api call of an apply | |
| `Slots` | the pools in use, in order, and `assignSlotIndices`, without state | |
| `XrayConfig` | `Generate`, balancers; where a connection can leave the box | EXTENDS `Slots` |
| `Reconcile` | `Reconcile` while xray is up: slots, rejections, config error, apply | EXTENDS `XrayConfig`, `LiveApply` |
| `SubStore` | subscriptions, nodes, overrides, active flags; refreshes and RPCs | |
| `NodePick` | the ranking of a pool's members, without state | |
| `Ranking` | one pool: health poll, chain prober, reconciles | EXTENDS `NodePick` |
| `Parking` | the parker over pools that share nodes | |
| `AutoStrategy` | the history of a pool and its classifier | |
| `Cut` | connections, live applies, polls, and which of them close what | |
| `Entries` | entries, inbounds, renames, export, import, by two clients | EXTENDS `Slots` |
| `Quota` | the sampler, the totals, the caps, the user RPCs | |
| `Lease` | what daemons of one layout promise each other | |
| `Lifecycle` | `Run`, the shutdown, crashes, and the commands that drive it | implements `Lease` |
| `Links` | links to outbounds and back, without state | |
| `Sharing` | templates, keys, inbounds as xray gets them and as links | EXTENDS `Links` |
| `Probe` | inbounds edited and shared, links subscribed to and tested | EXTENDS `Sharing` |
| `*Proofs` | theorems about the modules they EXTEND (section 4) | |
| `Lemmas` | what several proofs rest on: induction, recursion, folds, slots | EXTENDS `Slots` |
| `MC*` | instances for TLC | |

Levels of detail meet at the config and at the pick. `Supervisor` takes a config as
a value and an apply that succeeds as one step, and is precise about the process.
`Reconcile` takes the process as always up, with a restart as one step, and is
precise about what is in the config and about each call of an apply. `LiveApply`
assumes only `WellFormed` of its configs, and the theorem about it holds for any
that are. `ReconcileProofs` proves it of what `Generate` makes of any store, any
numbering of the slots and any rejections; the run of `Reconcile` checks it
(`ConfigsAssumption`) on its own stores. In `Reconcile` and `Cut` a pick is one of what a ranking may be;
`Ranking` makes it, `Parking` and `AutoStrategy` say what the pool and its
strategy are when it is made.

Definitions named "Mutant of X" are variants of X with a plausible bug. No
specification uses them; they show which bug each property would find.

### Watchdog
One action per stretch of code between two unlocks. The loop is `LoopTop`,
`Spawn`/`SpawnFails`, `Register` (publishes the child), `Reap`, `Wake`, and
`LoopExit` + `CloseDone` (the two halves of the defer). A caller's `Stop` is
`StopCapture`, `StopSignal`, `StopKill`, `StopReturn`; its `Restart` is
`RestartCapture`, `RestartSignal`. Processes and channels are named relative to now ("current",
"stale"; "current", "closed", "lost"), so that the state space is finite without
a bound, and the proofs need none. `closing` is in `Nat`; it never exceeds 1 while
calls are serialised. `Unlocked` is the set of callers that do not take
`Supervisor.mu`: the daemon's shutdown (`daemon.go:166`). It is empty in the runs,
and the theorems about done channels say so. The watchdog is checked under the
Supervisor, which makes the calls it really gets.

### Supervisor
`spc[c]` is where caller `c` is in `Reconcile` or `RestartXray`: `Enter`
(`s.mu.Lock`), `StopFirst`/`StoppedFirst`, then one of `Refused`, `Unroutable`,
`Unchanged`, `WriteFails`, `WriteFile`; after the write `StartIt`, or `ApplyLive`,
or `RestartIt`/`Restarted`; after a failure `LastGood`; and `Leave`. Each watchdog
call is the Watchdog module's own action (`InCall` is its remaining steps).
`CheckDown`, `CheckAnswers`, `CheckFails` are a tick of the health monitor, which
decides outside `s.mu` and then waits for it. `ChildReads` is the child reading
`config.json`, some time after it was spawned. `store` stands for what is stored: the
config it makes, whether anything is routable and whether the config is valid.

### LiveApply
A config is a record of what `planLive` tells apart. `Apply` is `applyLocked` up
to the plan; the stages are the calls in order; `Rmo`, `Ado`, `Rmi`, `Adi` handle
one tag; `CallFails` falls back to a restart; `Respawn` is the child dying and
coming back from `config.json` at any step. `sessions` are client connections,
which xray keeps when an inbound is replaced.

### XrayConfig and Reconcile
`Slots` and `XrayConfig` have no state: `PoolsInOrder`, `AssignSlotIndices`; `Outs`,
`Ins`, `Routing`, `Generate`; and, marked external, what xray does with a config (`Does`,
`Selected`, `Through`, `DialsOut`: a missing outbound, rule or user means the first outbound; a balancer
selector is a prefix). `DirectTarget` also stands for interface targets, which
behave alike in what is checked. `Reconcile` adds the store, which callers change at
any time (`Store`), and one action per way a reconcile can end: `ReconcileFails`
(Generate's error), `ReconcileRefused`, `ReconcileOk`. The reads of one reconcile
are one step: a change that falls between two reads of one reconcile is not told
apart from one before or after it. Each change is followed by a reconcile of its own.

### SubStore
A refresh is `RefreshDue`/`RefreshAll`/`RefreshOne` (read the rows), then for each
`ReplaceNodes` or `RefreshFails`, and `Record` (save the row as read), then `Sync`.
The RPCs of `server_sub.go` are one action each, and `SubSetOptions` is two (read,
save). `Saved` is gorm's `Save`: an UPDATE of all columns, an INSERT when there is
no row, and the column default `true` for a false `enabled` on an INSERT.
`recomputeActive` is `Derived`. A reconcile after a change (`Sync`) is taken to succeed; that is
`Reconcile`'s subject. `Restart` loses everything in memory.

### NodePick and Ranking
`NodePick` is `nodepick.go` as functions of scores: the tiers, the order within a
tier, the hysteresis that keeps an active member until another is clearly better,
the agile pick, the spare, one pick per slot and one per master whose chain probes
say otherwise. `Ranking` is the machine: `PollStart` takes the loaded slot,
`PollAnswers` is xray's metrics, `PollObserve` folds them into the scores and
decides, `PollApplies` reconciles; `ProbeStart` takes the pairs that are due,
`ProbeEnds` records the verdicts, `ProbeApplies` reconciles; `RpcReconcile` comes
at any time, and `Tick` ages the verdicts. The smoothed averages take the values
between the old and the measured one.

### Parking
`park` is one `parkState` per node, for all pools. `Observed` is
`nodeParker.observe`, pool after pool as its loop goes, `Released` is `release`,
and a reconcile forgets the nodes of pools that never park (`Unparked`) and leaves
the parked ones out of the others (`WithoutParked`). Time is `Ripens` (dead for
long enough) and `FallsDue`.

### AutoStrategy
A poll appends a round to the ring and evaluates: `Round` is what `record` keeps
of each member, `Flapping` and `Evaluate` the thresholds. Polls may be missed.

### Cut
A connection has a master, a pool, a node and an address. `ApplyLive` puts new
routes in place, `CutMovedMasters` and `CutUnpinned` are the two cuts after it, in
order; a poll sees nodes go down, reconciles, and cuts (`PollCuts`). Each cut may
fail to resolve a name, or fail after closing some. `known` and `rule`
of a connection remember what the code promises of it; failed lookups and cuts
take that back, and the properties speak of what is left.

### Entries
A call is two or three steps: read and check (`EntryAdd`, `EntryBulkDialer`, ...),
commit (`CreateEntry`, `SetEntryDialers`, ...), `RenamedRef` for a rename, and
`Reconcile`. A dialer is its set of references. An import creates one row per
step, and can fail at each.

### Quota
A poll is `StatsQuery`, `TagIndex` (deltas against `last`, looked up in the rows),
an `AddTraffic` per user, `EnforceCaps`, `CapReconcile`. xray restarts with its
counters at zero whenever a reconcile, its own death or the daemon's makes it.
`carried` remembers what users really carried.

### Lifecycle and Lease
`at[p]` is where daemon `p` is in `Run`: `CheckRunning`, `WritePID`,
`RemoveStaleSocket`, `Listen`, `ReapStrayXray`, `AdoptLegacyDB` and `CopyDB` file by
file, `Serve`, and at the end `StopChild`, `GracefulStop`, `RemoveSocket`,
`RemovePID`, `Exit`. `Crash` can come at each, and leaves the files and perhaps the
child. A command is a few steps of a shell: `StartDetached` and `WaitReady`; `Stop`,
`StopStaleProcesses`, `Restart` and `WaitGone`, which may give up; `Update` and
`VerifyRuntime`. In terms of `Lease`, a daemon from its pid file until it has
removed it, or the legacy daemon while it lives, is the holder, and the socket and
the database are what it holds.

### Links, Sharing and Probe
`ParseLink` and `EntryLink` are `link.go` and `entrylink.go` over records;
`BuildInbound` is what xray is given for an inbound and `ShareLink` what a client
is. `Probe` has two phases: inbounds are added from templates, edited, duplicated
and given users, with what `Random` says the generators of `keygen.go` return; an
edit that `Materialize` refuses and a port that is not to be had are errors, and
change nothing. Then someone subscribes to their links, among links of other
servers, and tests them: `PlanProbeBatches`, `StartXray` or `StartFails` with the
halving, `ProbeThrough` per attempt, `EndBatch`, and `Cancel` at any time.
`Reaches` says when an outbound reaches an inbound; two hysteria nodes of one
endpoint share a session (external).

## 3. The runs

Run one with `tlc -config X.cfg M`. No cfg replaces a definition.

| Run | Instance | Shows |
|---|---|---|
| `supervisor` (`MCSupervisor.cfg`) | an RPC and the monitor, 2 configs, limit 3; 136,432 states | belief, file and process agree; a refused config does not take xray down; no channel is closed twice; a crash is respawned; a `Stop` that signalled the live child returns; xray comes back |
| `reconcile` (`MCReconcile.cfg`) | 9 stores, 3 pools, 2 slots; 454,768 states | no master ever dials by itself, every apply converges, revoked clients are cut, unchanged objects stay, slots are kept, what is stored is served and refused nodes never reach xray |
| `substore` (`MCSubStore.cfg`) | 2 handlers and the scheduler; ~3.2 million states | no orphans, active nodes are chosen fairly, no change is left unapplied |
| `ranking` (`MCRanking.cfg`) | 2 members; 391,480 states | a reconcile never puts what does not carry before what does; when the measurements stop changing, the pick does |
| `parking` (`MCParking.cfg`) | 2 pools that share 2 nodes, 4 stores; 167,680 states | a node seen alive is not parked, whatever another pool made of it; no pool is emptied; what is due is released |
| `auto_strategy` (`MCAutoStrategy.cfg`) | 2 nodes, a ring of 2; 97,297 states | an outage of the uplink is no flip; a calm pool leaves agile |
| `cut` (`MCCut.cfg`) | 2 masters, pools, nodes, 5 stores; 829,505 states | a master's connections are where it dials now, those of a manual pool on pinned nodes; no client of an agile pool is left on a node that went down |
| `entries` (`MCEntries.cfg`) | any 2 calls of 2 clients, 3 stores; 336,346 states | what is written is reconciled; checked calls keep references sound; a rename moves no traffic and keeps the slots |
| `quota` (`MCQuota.cfg`) | 2 users; 988,611 states | no byte is counted twice, what is lost is only what the sampler drops; who reaches its cap is cut off |
| `lifecycle` (`MCLifecycle.cfg`) | 4 commands of one shell, 2 crashes, 4 daemons; 95,283 states | `Lease` is implemented; a serving daemon is alone with its child; the database is opened whole; a start comes to serve |
| `nodes` (`MCProbe.cfg`) | every template and kind of link, 3 calls; 147,040 states | a test's verdict is about its own node, xray's refusals are blamed on the node that causes them; every shared link reaches its inbound and user; a link parsed and shown again leads to the same place |
| `lifecycle_restart` (`MCLifecycleRestart.cfg`) | 2 commands; 385 states | **violated**: a restart ends with no daemon |

The violated property is what `restartDaemon`'s comment says
(`cmd/emx/lifecycle.go`); `PROJECT.json` "findings" quotes it.

Deadlock is checked, except in `entries`, `lifecycle`, `lifecycle_restart` and
`nodes`, where the system may really stop: nobody has to make a call or give a
command, and their number is bounded.

**Bounds.**
- *supervisor*: an RPC and the monitor. With two RPCs and the monitor the same
  properties held (892,170 states). Two configs are enough to tell old from new,
  and `Mixed` is a process that is neither. The failure limit is the code's 3.
  The watchdog needs no bound but the callers, who exclude each other by `mu`;
  its safety is proved for any number.
- *reconcile*: the nine stored states are chosen so that each branch is met: a
  ranking, refused nodes (more than `MaxAttempts` = 1, the code's 16), a
  revocation, pools that swap, a pool more than there are slots, a master that
  stops being one, a missing target, a refused entry. Any of them can follow any
  other, and the child can die at every step. No member's name is a prefix of
  another's (section 5).
- *substore*: two ids (`MaxId`), so that one is removed while another lives;
  three RPCs that change something (`MaxEdits`), and any number of refreshes and
  restarts; a list that is empty or has two nodes; caps 1 and 2. The two handlers are symmetric
  and no liveness is checked, so `SYMMETRY` is sound.
- *ranking*: two members are an active one and its spare, and the window of the
  prober is smaller than the pairs. Polls find both alive, the first dead, or
  both dead; one latency, as ties are decided by key. `Every` and `TTL` are in
  ticks.
- *parking*: two nodes, two pools; the stores put a node in both, in pools of the
  same and of different strategies, and take it out of one. `MaxFor` = 2 doubles
  the park time once.
- *auto_strategy*: times are polls; a window of two polls has gaps, an outage, a
  flip and a loss in every order.
- *cut*: one connection at a time, since each is closed or kept by itself; two
  pools that share a node; two nodes of which one's addresses include the other's.
- *entries*: two overlapping calls of any kind are every pair of check and write;
  three calls (over 6 million states) take too long to be run each time.
- *quota*: a cap of one byte and two bytes carried are below, at and over it; one
  restart of xray or the daemon at any step of a poll; one refused reconcile.
- *lifecycle*: `Clis` has one shell, which waits for a command before it gives the
  next: between the checks of `Run` and `writePID` nothing excludes a second start
  (`daemon.go:65-82`), and two shells at once can pass both. Four commands give a
  third start after a crash, a restart and an update.
- *nodes*: three calls that generate something are an inbound, its copy and a user;
  batches of three, two at a time, two attempts. An edit (`EditsAssumption`) moves an
  inbound to no transport or security its link has no word for (section 5), leaves
  protocol, socket, users and public key, and blanks a credential, key, certificate or
  port but does not make one up: an operator can give two inbounds one port, and the
  code does not look.

**Fairness.** Always of what the Go scheduler, a timer or a ticker brings on, never
of a client.
- *supervisor* (`SupWdSpec`): the scheduler runs a goroutine that can run, a timer
  fires, SIGKILL ends a process; nothing is assumed of SIGTERM or of the child. The
  monitor's ticker goes on, some caller that can take a step under `s.mu` does, and
  a write of `config.json` that can be tried again and again does not fail for ever
  (strong fairness of `StartIt \/ WriteFile`).
- *ranking*: polls go on, what they call returns (they do not stay in `seen` or
  `apply`), again and again a poll sees life, and a poll that reconciles again and
  again succeeds at some time: without these three nothing would ever be measured
  or loaded. Nothing is assumed of the prober.
- *parking*: polls go on, what they call returns, and the metrics that can be read
  again and again are (strong fairness of `PollAnswers`).
- *auto_strategy*: polls are answered again and again (`odd` alternates with them).
- *quota*: the sampler and a handler that has committed go on.
- *lifecycle*: a daemon in `Run`, a command that was given and a signalled legacy
  daemon go on; nothing of crashes, or of when a child exits.

## 4. What is proved

For every value of the constants; no theorem rests on anything but the named
ASSUMEs of its module and what its statement assumes.

**SupervisorProofs: the watchdog.** `TypeCorrect`. `StoppedHasNoChildThm` and
`RunningIsCurrentThm` from `LoopInv`, which ties `stopCh` nil to "no loop" and
what the child can be to where the loop is: the properties themselves are not inductive,
as they do not say that the loop waits for its child before it ends.
`DoneClosedOnceThm` and `NoLostWaiterThm` for `Unlocked = {}` from `DoneInv`: a
caller in a call holds `mu`, a loop or a closing defer belongs to an open channel,
and at most one defer is closing. A `Stop` under way keeps `Start` out until the
channel it waits on is closed, which is what an unserialised caller would break.

**SupervisorProofs: the Supervisor.** `ImplementsWatchdog`: every step of `Supervisor`
is a step of `Watchdog` or leaves it alone (`SupSpec => WdSafety`), so `LoopInv` and
`DoneInv` hold of it. On them rests `SupInv`: `CallsInv` (the methods exclude each other,
and a watchdog call is under way only where a method makes one), `ProcessInv` (what
`s.running`, `config.json` and `stopCh` have to do with each other at each point of
a method, also between the write and the start) and `OutcomeInv` (what the last
reconcile's outcome says of the process). From it `BeliefIsFileThm`,
`KeepsServingThm`, `NothingRoutableNoChildThm`, `RestartXrayCyclesThm`; and
`SupTypeCorrect` from `CountInv`. The properties speak of the moments when nobody
is in a method, so none is inductive without what holds inside one.

**SupervisorProofs: the daemons of a layout.** `LifecycleType`; and, assuming
`OneShell` (commands are given one after another), `OneDaemonAtATime`,
`AloneWithItsChild`, `DataIsKept` and `ImplementsLease`, for any number of
daemons, commands and kills. That one daemon owns the layout is not inductive: two
could pass the checks before either has written its pid file. `OwnInv` adds that a
daemon which starts has nobody beside it that starts, that its command waits for
it as long, and that the pid file then names no process that is alive; after that,
that the owner is the one the file names, and that no process is named before it
was born. The lease follows: whoever acquires it finds the layout free, because an
owner would be named in the file and alive. `ChildInv` carries "no xray at all" from
`ReapStrayXray` to `Serve`, `DataInv` that a part of the database is only there
while somebody copies it, or after a copy that was cut short.

**ReconcileProofs.** `LiveApplyIsSafe`: `NoDangling`, `Converged`, `RevokedIsCut`,
`UnchangedStays` and the types, for any set of well-formed configs, at every
moment of every apply, with failing calls and a dying child. The invariant `IInv`
says what the process has at each stage: `OutsInv` and `InsInv` describe every
object as old, new, or gone and still to do; `TodoInv` that a call never meets a
tag xray already has; `SessionsInv` that a live apply revokes nobody. The heart is
`OwnerMoves` and `NobodyDialsThrough`: a dialer that is taken down has an owner
that is taken down before it, by the order of `dependentsFirst`.

The same four follow for `Reconcile`, whatever is stored, with no assumption about
the configs: `RecInv` is `IInv`, and that both configs were generated from some
store, are well formed and keep their masters behind slots (`Hides`). `MastersAreHidden`
is then about the moments between: what routes (`RoutesOn`) is always one of the
two tables, and whatever either leads a master to is a member of its slot or the
blackhole, because the blackhole is never taken down and a slot that is missing is
blocked. `StoreIsServed` and `PoolsKeepSlots` need `Served`: `slotIdx` numbers the
pools without repeating itself, only what xray refuses is rejected, and with nothing
pending or failed the config is the one the store makes (`UpToDate`). Of the
constants: `IsStore` of every store, and that the tags are `XrayConfig`'s.

**Lemmas.** Induction on a number, that a recursive function exists and is the one
defined, and what a fold over a sequence leads to, from the well-foundedness of the
subsets of a finite set: stated for sets and functions, so that they can be cited
without an operator parameter. With them, what `Slots` computes for any number of masters,
pools and slots: `PoolsInOrder` has the pools of the masters, each once;
`AssignSlotIndices` gives no slot twice, a pool that had a slot the same, and the
others the free ones in order.

**SubStoreProofs.** `SubStoreTypeCorrect`, `NoOrphansThm`,
`DisabledIsInactiveThm`, `FairlyActiveThm`, `QuietIsSyncedThm`, for any number of
handlers, ids, edits, any lists and caps. `SubStoreInv` adds `RowsWereRead` (a
goroutine that will save has a row to save), `ChangedIsBusy`, and
`AppliedOrPending`: either xray has the active nodes, or some goroutine still has
a `Sync` before it. `DerivedFair` is the lemma about `recomputeActive`.

**EntriesProofs.** For any number of clients, names and calls, any stores with unique
names.
- `WritesAreReconciled`: from `OwesReconcile`, which says who owes the reconcile when
  something was written.
- `RenamesMoveNothing` and `NamesAreUnique`: references are by name, so a rename moves
  nothing only if the name it takes away was of one row and the name it gives was of
  none. `NamesInv` carries that through every call, with what each is about to write
  (`MayWrite`): a row read long ago, a list of dialers, what is left of an import.
- `ChecksKeepSound`: from `CheckedInv`. What a call has checked still holds when nobody
  overtook it (`ChecksOn`), and ids are not used twice. That no dialers close a ring
  is about paths: `Merges`, `Copied` and `GraphRenamed` say that a ring in the
  new graph is one in the old, or passes the entries whose dialers were checked.
- `RenamesKeepSlots`: from `SlotsInv`. What a rename remembers is what `slotIdx` gives
  the dialers (`Had`); after the store's half the rows are apart from the keys by just
  that name (`Parted`); after `RenamedRef` each master's dialer has its slot again, or
  that of a dialer that is now the same (`Has`), and `AssignSlotIndices` leaves it.

**TrafficProofs: quotas.** `QuotaType`, `TotalsNeverOvercount`, `TotalsLoseNothing`, for any
number of users, bytes, edits and restarts. `OverInv` counts what the counter shows
since the cursor (`Since`), and, while a sample is under way, what will have been
counted when it is handed on and what came after it: a restart between the two
halves of a poll makes the counter smaller than the sample, so neither says it
alone. `LossInv` is the exact balance of those users of which nothing was missed,
whose counter is never behind the cursor.

**TrafficProofs: cuts.** For any number of masters, pools, nodes and connections, any
addresses and any stores in which a master uses one pool. `ConnectionsRideTheirPath`
speaks of the time between applies; `PathInv` says what is still
due after each of the two cuts: a connection may be in the pool it was in until
the moved masters are cut, and on a member that was unpinned until that cut is done.
`DownNodesAreLeft` is about polls: `DownInv` says that a pick which is up to date has no
active member down while another answers (`FreshPick`), and that the connections on a
node that went down are those this poll is going to close. Stable and manual pools,
and connections made while the pick is out of date, are not promised it (`rule`).

**HealthProofs.** For any pools, members, windows, nodes, batch sizes and attempts.
- `ParkingTypeCorrect`, `LiveNodesAreNotParked`, `NoPoolIsEmptied`: a poll is a fold over the
  pools, and what it makes of a node is shown by induction on them.
- `AutoTypeCorrect`, `OutageAddsNoFlip`: `AutoInv` adds that a round with the uplink down
  knows no member alive or dead.
- `LinksRoundTrip`: every link `ParseLink` accepts, of any scheme, transport and security,
  shown by `OutboundLink` and read again gives the same outbound but for what its kind
  has no word for (`AsRead`). `LinksAreReadBack` is that of every node of every
  subscription.
- `PlanIsPlan`: `planProbeBatches` puts every node in one batch and no two of a session
  in the same. `ProbeInv` keeps that through the halving, and says of the batch at hand how
  far each try is, that whoever waits is untested, and that whoever is in no batch any
  more is rightly blamed. `ProbeTypeCorrect`, `NothingPassesFalsely` and
  `HalvingBlamesRightly` follow. `ProbeAssumption` says that a subscription is a list and
  that an inbound is asked for by a template there is.
- `SharedLinksReach`: `ShareReaches`, in two halves. `LinkFits` is about one link: read
  back, it asks for the network, security and transport its inbound serves, protocol by
  protocol, for any host, path, mode, name and key (`SecuritySaid` and `TransportSaid` are
  what its parameters say). `SharesInv` is about all inbounds, and is inductive where
  `ShareReaches` is not: an inbound is of a kind its link has words for (`HasWords`, which
  `TemplatesAre` shows of every template), the public key is that of the private one
  wherever there is one - also while the inbound is not reality's, since it may become so
  again - only Caddy's inbounds have no port, every credential is one of those generated
  so far (`Made`), and two inbounds differ in their port or, behind Caddy, in all
  credentials (`AreApart`). That a call then gives a credential nobody has is
  `MadeIsNew`. It rests on `RandomAssumption` (nothing is generated twice; a fingerprint
  made here is in xray's form) and `EditsAssumption` (what an edit may be, section 3).

**RankingProofs.** `ReconcilesUseWhatCarries`, for any pool, masters, scores and verdicts,
and `Expected <= 2` (`SlotBalancerExpected` is 2). Sorting by rows of numbers has a result
(`OrderedSorts`). The best members, ranked again with the hysteresis of a narrower list,
stay the best (`TopIsTop`), and who may carry ranks ahead of who failed the
chain, and that one ahead of the dead. With three it is false (section 5).

**Only model-checked.** Liveness (`ComesBack`, `CrashIsRespawned`,
`SignalledStopReturns`, `Settles`, `DueIsReleased`, `CalmsDown`, `FirstTimeIsCut`,
`StartServes`), which is out of the prover's reach. Every safety property that a run
checks is a theorem. The type invariants that are proved are in no run;
`RankingTypeOK` and `EntriesTypeOK` document the variables.

What limited the form of the definitions: `SelectSeq`, `SortSeq` and `@@` are
defined in ways the provers cannot open, so what is proved about uses `FoldLeft`, a
`CHOOSE` of an ordered sequence, and functions.

## 5. Divergences

Where the code does not do what one might expect of it, or what a comment says.
The models do what the code does; the properties except these by name.

- A `Stop` that captured no process (the child is between `cmd.Start` and being
  published) signals nobody and waits without a timeout (`watchdog.go:152`). Hence
  `SignalledStopReturns`, of a `Stop` that signalled.
- `Watchdog.Restart` in the same window does nothing, and `reconcile` records the
  new config as running (`xray.go:277`), until the next restart.
- The config error outlives the config it was about when a change is taken back,
  as an unchanged config is not tested (`validate.go:143-144`).
- A balancer's selector is a prefix: a picked member whose tag is a prefix of
  another's also selects that one (`config.go:296-298`).
- A refresh saves the row it read before the fetch: a rename, a disable or options
  set meanwhile are undone (`subscriptions.go:173-185`). A new cap has no effect
  before the next refresh (`server_sub.go:83-86`).
- gorm inserts the default `true` for a false `Enabled`: a copy, an import or a
  re-inserted row of something disabled is enabled (`models.go:29`).
- `EntrySetMux` and `EntrySetConfig` save all columns of the row they read: a
  dialer set in between is lost. `EntrySetConfig` can turn a pool's member into one
  that leaves from this box. `EntryRemove` leaves references and targets behind.
  Two overlapping calls can store a dialer cycle, and rename, duplicate and import
  do not look for one over dangling references. Renames of one entry that overlap can
  do `RenamedRef` in another order than the store's half: the slots then stay under a
  name nobody has, and the pool gets a new slot. Hence `AsReconciled` and
  `undisturbed` in what is said of renames.
- A replacing import leaves the `InboundUser` rows of the inbounds it deletes, so
  that the imported users collide with them; one that fails has wiped or created a
  part, and does not reconcile.
- A member that failed its chain probes is behind the live ones, but not behind the
  dead: where all others are dead it is active (`nodepick.go:168-170`). `pickStableLocked`
  looks only at the last of the active: with three of them, one that failed the chain
  would stay between one that carries and one that is dead. There are two
  (`SlotBalancerExpected`), so this bites nobody yet. Verdicts of
  a round under way at a network change are recorded after the reset.
- A node that is parked for one pool and left out of another is forgotten when it
  comes back through a pool that never parks (`nodepark.go:25-28`). What a poll parked,
  released or switched does not come again when the reconcile for it fails; the
  next reconcile picks it up.
- An uplink outage within a loss of the whole pick makes it count as two
  (`nodehistory.go`).
- Connections on demoted, spare or unranked members are not cut, nor are any in the
  live apply after a restart on the last good config, whose slots are unknown;
  `cutUnpinned` spares only the pinned members of manual pools when addresses are
  shared; a lookup or cut that fails is not repeated.
- A user over its cap stays connected when the one reconcile for it fails, as it is
  in `overCap` already (`traffic.go:191`).
- A restart waits five seconds for the old daemon and does not look at the result
  (`lifecycle.go:194`): the run `lifecycle_restart`. A restart that finds a daemon
  alive but not answering ends its xray and waits for it in vain; a legacy daemon
  is signalled and not waited for.
- A copy of the legacy database that a crash cut short is not noticed by the next
  start (`migrate.go:25`).
- A plain trojan outbound is shown as a link with `security=none`, which
  `ParseLink` reads as TLS (`entrylink.go:75-77`, `link.go:103-107`); a hysteria2
  link drops `vcn`; vmess has no word for reality or the mode of xhttp, trojan none
  for reality. An edit of the private reality key alone leaves the public one;
  `DuplicateInbound` gives a public socks inbound an empty password
  (`store.go:579-582`). A cancelled test clears the latencies of nodes it did not
  get to.

## 6. Not modelled, and why

- Log lines, health messages, counters for display, wording of errors, the CLI's
  forms and tables, the TUI: reads and text. `Winners` is a read for display.
- `Watchdog`: `lastErr`, the restart counter, the length of the backoff (a sleep
  may end at any time). The shutdown's `Stop` outside `Supervisor.mu` is `Unlocked`,
  empty in the runs; its effect, a child left over, is in `Lifecycle`.
- `Supervisor`: how long `RestartXray` waits for the child to come up (it reports,
  it does not decide).
- `XrayConfig`: ports, transports, mux, interface outbounds, the constant sections.
- `SubStore`: times, errors, quota lines.
- `Quota`: hourly buckets and their pruning, counters of inbounds and entries, which
  no decision reads.
- `Cut`: netlink and `/proc`, as one step that closes what matches.
- `Lifecycle`: systemd, permissions, the download of an update (an input), two shells at once.
- `Links`: percent-encoding, base64, JSON: strings are opaque. WireGuard profiles.
- Settings, diagnostics, log rotation, downloads, warp: I/O without interleavings
  of their own. Generated code.

## 7. Plan

1. Two shells in `Lifecycle`, with what `start` promises of two at once.
2. `SubRename` composed of `SubStore` and `Entries`; settings that change what a
   reconcile does.
3. The `supervise` goroutine against the shutdown's unlocked `Stop`.
