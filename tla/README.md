# TLA+ specifications of the Vigil add-ons

The repository holds three add-ons of the Vigil server. Each is a pair of Go
programs, an *agent* on every storage host and a *hub* (for ZFS: a *manager*)
that the agents report to and that talks to Vigil:

- **burn-in**: destructive burn-in and pre-clear of drives;
- **snapraid**: scheduled maintenance of a SnapRAID array;
- **zfs-manager**: pools, datasets, snapshots, retention and replication of ZFS.

This directory models them in TLA+, checks the models with TLC and proves
theorems about them with TLAPS.

## Inventory

| Component | State it keeps | Operations | Interacts with |
|---|---|---|---|
| burn-in agent, job manager (`burn-in/internal/jobs/manager.go`) | `jobs`, `driveLocks`, one `JobRecord` and cancel function per job | `StartJob`, `runJob`, `finishJob`, `GetJobStatus` | called by the API; runs one goroutine per job; calls the API back (`RegisterJob`, `UnregisterJob`), the state file and the telemetry link |
| burn-in agent, API (`burn-in/internal/agent/api.go`) | `activeJobs`: job ID to cancel function | execute, abort, status | the hub's router calls it |
| burn-in agent, state file (`jobs/persist.go`) | `states`, the file | `SaveState`; `LoadState` and `RemoveState` have no caller | job manager |
| burn-in orchestrators (`jobs/burnin.go`, `preclear.go`, `emitter.go`) | phase, heartbeat and poller goroutines | `RunBurnin`, `RunPreclear` | external tools; telemetry link |
| burn-in agent, telemetry link (`agent/hub_telemetry.go`) | the current WebSocket | `Run`, `writeJSON` | job goroutines write, the hub reads |
| burn-in hub, aggregator (`hub/aggregator.go`) | `conns`, `activeProgress`, `smartDeltas`, `lastPhase`, `knownJobs`, rings of logs and charts | `HandleAgentTelemetry`, `processFrame`, queries | one reader goroutine per agent connection; Vigil upstream |
| burn-in hub, registry, router, server (`hub/*.go`) | agents in memory and on disk, the PSK and its file, a copy of it in the aggregator | register, delete, rotate, execute, broadcast cancel | agents, Vigil UI |
| registration clients of the agents (`agent/hub_client.go`, `hub_forwarder.go`) | the key they were installed with | post until answered 200 | hubs |
| snapraid agent, engine (`snapraid/internal/engine`) | `mu`, `cancelFn` | one method per snapraid command, `IsBusy`, `Abort` | scheduler, API, cache refreshes |
| snapraid agent, scheduler and pipelines (`snapraid/internal/scheduler`) | `jobMu`, the pipeline's locals | `RunMaintenance`, `RunScrubOnly`, `RunStatusRefresh`, gates, hooks, containers | engine, job history, collector |
| snapraid agent, API (`agent/server.go`) | cron expressions, refresh flags | execute, abort, config, queries | engine, scheduler |
| snapraid agent, collector and forwarder (`agent/telemetry.go`, `hub_forwarder.go`) | `activeJob`, `lastEvent`, caches | `TrackJob`, `ClearJob`, `EmitEvent`, `Build` | everything on the agent writes, the forwarder reads |
| snapraid agent, history (`db/history.go`) | rows of `job_history` | `InsertJob`, `CompleteJob`, prune | pipelines, API |
| snapraid agent, configuration (`agent/server.go`, `scheduler/scheduler.go`) | the cache table, the configuration in memory, the cron runner | update, `Reschedule` | API, cron |
| snapraid hub (`snapraid/internal/hub`) | registry and PSK with their files; last frame, job, event and gate per agent; liveness | ingest, evaluate, register, delete, rotate, forward, check liveness | agents, Vigil |
| zfs-manager agent, scheduler and replication (`zfs-manager/internal/scheduler`, `agent/replication.go`) | tasks and runs in SQLite, `jobMu`, the cron runner; datasets, snapshots, bookmarks | task pipelines, retention, replication, `Reload`, `RunNow` | `zfs`, `zpool`, remote hosts |
| zfs-manager agent, REST server, engine, collector (`agent/server*.go`, `engine.go`, `collector.go`) | the cache of pools, datasets and snapshots; the last event | write operations on pools, datasets and snapshots, property edits, retention cleanup, `Refresh` | `zfs`, `zpool`, the forwarder |
| zfs-manager agent, forwarder (`agent/hub_forwarder.go`) | nothing but the request under way | post frames, post log lines | manager |
| zfs-manager manager (`zfs-manager/internal/manager`) | registry and PSK with their files; last frame, last pool state, last event and previous I/O sample per agent | ingest, detect transitions, derive I/O rates, proxy, rotate | agents, Vigil |
| shared link (`shared/vigilclient`) | the upstream WebSocket, readiness, the channel it empties | `Register`, `Run`, `Send`, `forwardLoop` | all hubs |

The drive tools, the parsers of command output, configuration loading,
manifests and the UI keep no state that survives a call.

### What is hard here

*Concurrency.* Every request, job, cron firing and connection is a goroutine.
The locks are small and many: the burn-in job manager releases its mutex before
it registers a job for aborting, the aggregator updates four maps under four
locks per frame, the snapraid engine locks a command but not a pipeline, and
cancel functions are looked up under one lock and called under none.
*Failure.* Agents are restarted in the middle of jobs that last for days; frames
that cannot be written are dropped, and frames that were given up on may still be
processed; tools hang or exit with codes that some callers read and some do not;
one property edit of several fails. *Identity.* A burn-in job ID has one-second
granularity and keys four tables; snapshots are destroyed by name. *Persistence.*
State is written more carefully than it is read back: registries and keys live in
memory and in files that are changed one after the other. *Reconfiguration.* A
reload replaces a running cron runner without a lock, and a new connection starts
its forwarding loop before that of the old one has noticed anything.

### What makes each component correct

- burn-in job manager: one job per drive; locks, job table and jobs agree; a job
  can be aborted for as long as it runs and a cancelled job starts no further
  destructive phase; a known job has a status at all times, its verdict is final
  and survives a restart; a drive becomes free again.
- burn-in aggregator: active jobs are those that run; what it keeps of a job is
  consistent and goes away with it; starts and completions are announced in pairs.
- snapraid agent: one command at a time and one pipeline at a time; no sync
  without the gates; history, dashboard, notifications and containers reflect
  what ran, on every error path; a hung command does not block the scheduler.
- snapraid hub, zfs-manager manager: an end is announced only after it, and once; an
  event is delivered at most once and in order; what is shown is in the end what the
  agent does; a rate shown is never more than what happened.
- zfs-manager agent: retention keeps the newest snapshots of its own task and
  never deletes the base of the next incremental send; a bookmark stands in for a
  snapshot that was pruned; what is recorded as replicated is at the destination;
  a task that fails, whatever part of it does, gives the scheduler back.
- schedulers under reconfiguration: whatever requests meet, every wanted task fires in
  its latest version; every request and every run asked for by hand ends.
- zfs-manager REST server: the cache the telemetry is built from follows the pool, and
  an answered write is shown unless an older refresh overtakes its own.
- registries and keys: memory and file agree, before and after a restart; a hub does
  what it has said of an agent. Commands: the answer says what was done.
- upstream link: it comes back; frames arrive in order and none twice; a dead
  connection costs one frame of the channel at most.

## Modules

| Module | Role | Composed with |
|---|---|---|
| `BurninJobs` | job manager, API and state file of the burn-in agent | implements `DriveReservation` |
| `DriveReservation` | what the drive locks promise, abstractly | |
| `BurninHub` | telemetry path of the burn-in add-on, from job goroutine to aggregator | |
| `SnapraidAgent` | engine, scheduler, pipelines and command handlers of the snapraid agent | |
| `SnapraidHub` | telemetry path of the snapraid add-on, from collector to Vigil | |
| `ZfsReplication` | task pipelines and replication of the ZFS agent | |
| `ZfsOperations` | write operations of the ZFS agent's REST server, and the collector's cache | |
| `ZfsHub` | telemetry path of the zfs-manager, with the I/O rates of its manager | |
| `CronReload` | cron runners of the snapraid and ZFS agents, and what reconfigures them | |
| `HubAgents` | registries, keys and the registration loop, of all three add-ons | |
| `HubCommands` | commands from a hub to its agents | extends `HubAgents` |
| `VigilLink` | the link of a hub to Vigil, of all three add-ons | implements `LossyChannel`, twice |
| `LossyChannel` | what the link promises, abstractly | |
| `BurninJobsProofs`, `BurninHubProofs`, `SnapraidAgentProofs`, `SnapraidHubProofs`, `CronReloadProofs`, `HubCommandsProofs`, `ZfsHubProofs` | theorems about the module of that name; `HubCommandsProofs` is about `HubAgents` too, `ZfsHubProofs` about `VigilLink` | |
| `ZfsAgentProofs` | theorems about `ZfsReplication` and `ZfsOperations` | |
| `MC...` | instances for TLC | |

### BurninJobs

A *slot* is one `POST /api/execute` and the job goroutine it becomes. `pc` is the
place in `handleExecute`, `StartJob`, `runJob` and `finishJob`; every place where
the code takes or leaves a lock ends an action, so two slots interleave exactly
where two goroutines do: between making the ID and taking the drive (`Submit`,
`Admit`, `Conflict`), between taking it and registering the cancel function
(`RegisterJob`), before the first save (`Dispatch`), between the save, the release
and the deregistration at the end (`FinishSave`, `FinishRelease`,
`UnregisterJob`). A job ID is a record of command, device and second; `clock` lets
two jobs have the same ID or not. The orchestrators are reduced to their phases
(`pipe`, `phase`): `PhaseDone` is a phase whose final `ctx.Err()` check finds
nothing, `PhaseError` any error return, `Conclude` and `BurninPassed` the verdict.
`alive` are the slots whose heartbeat runs. `SaveState` lets the write of the file
fail, since its error is only logged. `CrashRestart` loses everything but the file.

### BurninHub

A job is reduced to the frames it emits: progress, the orchestrator's `COMPLETE`
at 100 percent (`EmitComplete`; the *full* command has two) and the final frame
of `finishJob` (`EmitFinal`). `Send` is `writeJSON`: no connection, no frame. A
connection keeps the frames in flight in order; when it goes down, any suffix of
them is lost. `handler[c]` is the place of the hub's reader of connection `c`,
which takes one action per lock in `processFrame`. `lost` and `overlap` are
history variables: which jobs lost a frame, and which agents had a frame read
while another of their connections was still being served.

### SnapraidAgent

An *actor* is a cron firing or an HTTP request. `at` and `step` are its place and
the snapraid command it is at. A command is `StartCommand` (`TryLock`,
`setCancel`), then `EndCommand` with an outcome: exit code 0, 2 or 1, killed, or
another error; or `RefuseCommand` (`ErrEngineLocked`). `Probe` and `Accept` are
`IsBusy`, which holds the lock for a moment. `FinishMaintenanceStep`,
`FinishScheduledStep` and `FinishManual` say what each caller does with the
outcome. `pending` is what has changed on the disks since the last sync, `report`
what the pipeline believes: a diff that exits with 1 or is killed may be read as
no changes, because `Diff` drops the exit code. `truth`, `sick` and `cut` are
history variables that record what was so when a check ended.

### ZfsReplication

A *run* is the goroutine of a cron firing (`FireTask`, or `SkipTask` when `TryLock`
fails), of "Run Now" (`RunNow`, then `LockJobMu`) or of a manual replication
(`RunReplicationNow`, which takes no lock). `run[r].at` is its place in
`runSnapshotTask`, `runScrubTask` or `runReplicationTask`. Every zfs or ssh command
is an action, with a disjunct or an action of its own for its failure: the snapshot,
the two listings, the choice of the base (`ResolveBase`: an error of the
destination's listing counts as an empty list), the send, each destruction of the
two retentions, the bookmark. The state of ZFS is three sets of snapshots, on the
source (`src`), bookmarked there (`bookmarks`), and at the destination of each task
(`dst`); a snapshot is its prefix and its place in the order of creation. `Covers`
says which prefixes begin with which, because retention matches names by prefix.

The pipe of a replication is modelled by its goroutines: the sender has `left`
chunks; `Transfer` is the copy of one through the `io.Pipe` to the receiver;
`SendEnds` is `sendCmd.Wait`, which needs all of them copied; a receiver that ends
early (`ReceiveDies`) is noticed by the goroutine that feeds it only with the next
chunk (`CopierGivesUp`), after which nobody reads the pipe. `zfs receive -F` is
external: it needs an empty destination or one that has the base, and rolls back
what is newer than the base. When all its data has been sent it may also succeed
unheard, although the connection was lost or the agent died (`MaySucceedUnheard`).

A run that holds `jobMu` posts a log line before its task and one after its row is
completed (`StartLogged`, `EndLogged`, which unlocks); the client has no timeout, so a post
returns only while the hub `answers` (`HubHangs`, `HubResumes`). A manual replication posts
none and takes no lock.

`disturbed` is a history variable: the tasks into whose snapshots somebody else has
reached, that is a deletion by hand, a run of another task whose prefix covers
theirs, or a manual run of the same task that overlaps.

### SnapraidHub

A frame is the active job and the last event. `Forward` is `Build` with its two slots
and the start of a post; the hub's ingest handler is `Ingest` (lock, registry check,
the payload), then `EvaluateJobTransition`, `EvaluateAgentEvent` and
`EmitNotification`, one action per lock. When the agent gives up on a post
(`PostAbandoned`) its handler goes on, so that two may run at once; `ForwardLost` is a
post that never arrives. The two producers of jobs, a manual command and a pipeline,
write the same slots (`TrackJob`, `CommandReturns`, `ClearJob`, `PipelineStart`,
`PipelineEnd`). `Expire` and `CheckAgentLiveness` are the two minutes without a frame
and the monitor's tick. `clobbered` and `overlapped` are history variables: a producer
has written over the other's job; two handlers ran at once.

### ZfsHub

Of the pool there are the number of its I/O operations, the counter (which an import
resets) and its last scrub. Several refreshes run side by side, that of the loop and those
of the REST handlers: each lists the pools (`ListPools`), samples the counters
(`SampleIOStat`) and stores both when it is done (`Store`), without a lock until then, so
that an older view may replace a newer one; any query may fail. The time stamp of a sample
is taken to be that of its reading. `EmitEvent` is any event, of a task run or a handler.
`Ingest`, `DetectPoolTransitions`, `EvaluateAgentEvent` and `EmitNotification` are the
manager's handler. The page that shows rates reads the two samples in two steps
(`ReadCurrent`, `ReadPrevious`); `Delta` subtracts unsigned counters modulo
`CounterSize`. `turn` is history: how often a refresh has stored an older view of the
pool than the one it replaces; every stored view carries the turn it is of.

### HubAgents, HubCommands

The three hubs share their design and differ in a few decisions, which depend on the
constant of a behaviour `kind`. A registration, a deletion or a change of the alias
changes the map and then writes the file under one mutex (`Register`, `Delete`,
`SetAlias`, then `FinishSave`, `SaveFails` or a crash in between); in-place writes leave
a torn file (`Torn`), with which the hub refuses to start. A rotation goes through
`BeginRotation`, `TruncateKeyFile`, `WriteKeyFile` and `UseKey` in the order of the
add-on; the file may fail to open (`KeyFileFails`) or, once it is truncated, to be written
(`KeyWriteFails`, which leaves it empty; a key is one short line and is written whole or
not at all). `streamKey` is the copy of the key in burn-in's aggregator. `told` is what a hub
has last said of an agent; `unsaved` and `keysParted` are the failures that the code
only logs, `keyCut` says that the last write of the key file left it empty.

`HubCommands` adds the handlers of execute and cancel requests. A request to an agent
is on the `wire` until the agent takes it (`AgentTakes`), in time or after the hub has
given up (`TimeOut`). An agent is reduced to the job it has taken on; what becomes of
the job is the matter of `SnapraidAgent` and `BurninJobs`. `Joining` is a step of
`HubAgents`, which ends handlers when it is a crash of the hub. An answer to the
operator is assumed to arrive.

### VigilLink

`linkRun` is the goroutine of `Run`: it dials, reads, and leaves a connection through its
deferred calls (`Dial`, `ReadFails`, `Leave`). Each connection has its forwarding loop
(`Take`, `Write`, `LoopEnds`); `select` may choose the channel although the context is
cancelled. `Cut` is the network's doing: writes to a connection that is cut succeed and
are lost, or fail. A write to one that is open is delivered at once. `Send` looks up the
connection and writes to it in two steps (`SendLook`, `SendWrite`).
`LossyChannel` is what the producers may rely on: frames come late or never, but not
before they were handed over, not twice and not after a later one. The link is two of them
side by side, the aggregators' channel (`pushed`, `telemetry`) and `Send` (`sends`, `typed`).

### CronReload

`saved` is the database, `memory` the configuration in memory (equal to `saved` for
zfs-manager, which reads the rows). A request saves (`SaveTask`; or `SaveKey` and
`AssignKey` per key) and reloads: `StopRunner`, `Replace` once the job of the stopped
runner has ended, `List`, `Register` per item, `StartRunner`. Runners are numbered, so
that one nobody refers to any more can still fire (`Fire`). An item read while another
request writes it is the old value, the new one or a mixture that cron refuses
(`Readable`): a data race on a Go string. `RunNow` is the run by hand, which waits for
`jobMu`; a scheduled job that finds it taken is skipped and changes nothing. A job of
snapraid ends, one of zfs-manager may hang (`JobEnds` and the fairness).

### ZfsOperations

A write request with one command is one action (`Write`), with the operations of
`Results` as its choices; `WriteKilled` is a command that took effect although its
context ended. Edits and cleanups run several commands (`BeginEdit`, `SetProperty`,
`EditFails`; `BeginCleanup`, `CleanupNext`, `CleanupEnds`). Every successful handler and
the ticker start a refresh: `ListPools`, `ListZfs`, `Store`. A list is the set of entries
read, with the count of writes at which it was read (`at`), or `Nil`. `mark` is history:
whether the refresh of a write has stored, and whether an older one has stored after it.

## Runs

All bounds are constants of the modules and are set in the `.cfg` files.

| Run | Instance | Shows |
|---|---|---|
| `burnin_jobs` | Two slots, one drive, the commands `burnin` and `full`, two seconds, one crash; under fairness | `LocksMatchJobs`, `StatusAlwaysKnown`, `AbortReachesJob`, `CancelStopsJob`, `DriveEventuallyFree`, and `ImplementsReservation`: the agent implements `DriveReservation`. |
| `burnin_hub` | One job, two connections, one crash | `OpenReaderIsTracked`, `GhostJobOnlyByLoss`, `StoresAgree`, `NotificationsPairUp`. |
| `snapraid` | One maintenance firing and one manual command, one crash | `GatesGuardSync`, `HistoryFollowsJobs`, `NoStaleActiveJob`, `ContainersComeBack`, `CompletionMeansSynced`. |
| `snapraid_live` | Two firings and one cache refresh; under fairness | `OnePipelineAtATime`, `SchedulerNotDeadlocked`. |
| `snapraid_gates` | One maintenance firing and one manual sync | Violated: `GatesAlwaysGuardSync`, no sync without the gates. |
| `snapraid_hub` | Two jobs, two events, two handlers, one fault; under fairness | `CompletionOnlyAfterEnd`, `EventsInOrderOnce`, `HubCatchesUp`. |
| `zfs_hub` | Two samples, scrubs or events in all, two refreshes, two handlers, one fault; under fairness | `AnnouncedOnce`, `RatesNeverAboveActivity`, `HubCatchesUp`. |
| `hub_control` | Each add-on, two agents, two rotations, one request, four budgets; under fairness | `KeysAgree`, `RegistryKeepsPromises`, `AnswerMatchesEffect`, `Progress`. |
| `vigil_link` | Each add-on, three connections, five frames, a channel of two, two typed frames; under fairness | `OneFrameWasted`, `LinkRecovers`, and `ImplementsChannels`: the link implements two `LossyChannel`s, which is why nothing comes twice or out of order (`InOrderOnce`). |
| `cron_reload` | Both agents, two items, two requests, one fault; under fairness | `NothingForgotten`, `OnlyTheLatest`, `EveryRequestEnds`. |
| `zfs_replication` | Two runs of four tasks, one mishap; under fairness | `ChainKept`, `SuccessMeansReplicated`, `JobMuReturned`, `RunNowRuns`. |
| `zfs_operations` | Two writes, or one that is killed, or one and a command that fails; under fairness | `AnsweredWriteShown`, `CacheCatchesUp`. |

The type invariants of the modules other than `BurninJobs` are stated and are not among
the properties of the runs; TLC finds that they hold on the same instances, and the
proof modules prove them but for `ZfsOperations`.

### Counterexamples

These configurations check a property that a comment or a document states and the code
does not keep; TLC reports a violation of each within seconds
(`tlc -config X.cfg M`). `MCSnapraidAgentGates` is the run `snapraid_gates`.

| Configuration | Module | Property | The behaviour |
|---|---|---|---|
| `MCBurninJobsAbort` | `MCBurninJobs` | `RunningJobsAbortable` | A job ends after the next one with its ID has registered. |
| `MCBurninJobsHistory` | `MCBurninJobs` | `HistorySurvivesRestart` | A restart, then the first save. |
| `MCBurninHubStart` | `MCBurninHub` | `StartAnnouncedOnce` | A job with its two frames at 100 percent. |
| `MCSnapraidAgentGates` | `MCSnapraidAgent` | `GatesAlwaysGuardSync` | The diff is killed and read as no changes. |
| `MCSnapraidAgentLimits` | `MCSnapraidAgent` | `UpdatesAlwaysLimited` | Many files are deleted, more added, and many updated. |
| `MCSnapraidHubTrigger` | `MCSnapraidHub` | `CompletionKeepsTrigger` | A job seen in two frames. |
| `MCZfsHubRates` | `MCZfsHub` | `ZeroOnlyWithoutPrevious` | Two frames with one sample. |
| `MCZfsReplicationBookmark` | `MCZfsReplication` | `BookmarkKeepsChain` | The base is pruned, the bookmark is not looked at. |
| `MCZfsReplicationPipe` | `MCZfsReplication` | `FailedReceiveReported` | The receiver ends while the sender has data. |
| `MCZfsReplicationHub` | `MCZfsReplication` | `HubOutageStallsNoRun` | The hub hangs while a run posts a log line. |
| `MCHubCommandsKey` | `MCHubCommands` | `RotatedKeyWorks` | An agent is installed after a rotation. |
| `MCCronReloadOverlap` | `MCCronReload` | `ReloadStopsTheRest` | Two requests stop one runner and start two. |
| `MCZfsOperationsEmpty` | `MCZfsOperations` | `DeletedIsNotShown` | The last snapshot is destroyed. |
| `MCZfsOperationsCleanup` | `MCZfsOperations` | `CleanupSparesYoung` | A name is taken again between list and destroy. |

### Why these bounds

*Burn-in jobs.* Every race of the manager is between two slots, over one ID or one
drive; two seconds let two jobs have the same ID or not. One crash reaches every state
of the file; nothing the agent does depends on how often it crashed. That locks are
never taken for the wrong drive is proved for any number of drives (`DriveExclusion`).

*Burn-in hub.* A job's frames are processed independently of those of other jobs, so
one job suffices; two connections are what it takes for an old and a new reader to
overlap, and one progress frame for a late frame to follow a final one.

*Snapraid.* One firing and one request meet at every lock. A second firing is needed
only for `jobMu`, and has its run. Three sets of changes, within the limits, beyond
them, and beyond them with additions that excuse the deletions, take
`CheckDiffThresholds` through each of its branches; the properties judge by the limits as
the add-on's README states them.

*Telemetry paths.* Two handlers are what it takes for one frame to overtake another.
Two jobs let the second be taken for the first, two events let one overwrite or follow
the other, and a repeated event needs a fault and a frame. In `zfs_hub` samples, scrubs and
events share one bound, since no property relates the ones to the others: with two
samples there is a last and a previous one, and frames between the reads of a page; with
two scrubs the end of the first may come late. One of two refreshes overtakes the other,
and a refresh that stores an older view of the pool is a fault like a lost post.

*Hub control.* Two agents let a broadcast reach the wrong one and a deletion meet a
registration. The four budgets of `SomeBudgets` look at what interacts: registrations
and deletions with failed saves and crashes; rotations that overlap, fail or are cut
off; a command with a rotation; commands with crashes and foreign jobs. All of them at
once would be a product of independent parts.

*Upstream link.* Three connections are an old loop, its successor, and one after that;
the last connection is not cut, so that "comes back" has a meaning. A channel of two
among five frames is full, and emptied, several times.

*Cron reload.* Two items let a reload be half done, two requests meet everywhere in it,
and the offered values are one of each kind. More requests only repeat the pairs.

*ZFS replication.* The four tasks are a snapshot task, a scrub, a local and a remote
replication; the two replications have the same prefix, so that the retention of the
one works on the snapshots of the other, and the remote one has bookmarks and remote
retention. A retention of one snapshot is the tightest there is. Two runs are what it
takes to overlap, to be skipped or to wait; since the initial states include those in
which an earlier run has made the first copy of one task and its bookmark, they are
also a second and a third replication, the first of which may fail after it took its
snapshot. Two chunks let a receiver die before, between and after them. `MaxMishaps`
bounds deletions by hand, crashes and hangs of the hub together.

*ZFS operations.* Two writes have two refreshes beside that of the loop: any two of the
three overlap in every order. Two properties let an edit stop half way, and with one
old and one new name a cleanup has something to take and something to spare.

### Fairness

- `burnin_jobs`: goroutines go on, and a phase ends in the end: external tools are
  killed when the context is cancelled, and a drive is busy for as long as its job is
  by design.
- `snapraid_live`: goroutines are scheduled, the timeout of a command fires while it
  runs (`context.WithTimeout`), and a killed process ends; that snapraid ends by itself
  is *not* assumed.
- `zfs_replication`: zfs and ssh commands end, with or without success, which is an
  assumption about them: they run in the context of the agent, without a timeout
  (`engine.go:924`). The two processes of a pipe move data or end, and a post of a log
  line returns while the hub answers (weak fairness of `Step`). That a receiver dies, that
  anything but a reader takes data from the pipe, or that a hub that hangs resumes, is not
  assumed; `JobMuReturned` and `RunNowRuns` speak of behaviours in which the hub answers
  in the end (`HubAnswers`).
- *Run Now* (`zfs_replication`, `cron_reload`) waits in `Lock` while firings use
  `TryLock`; `sync.Mutex` hands itself to a goroutine that has waited long (its
  starvation mode), hence strong fairness of `LockJobMu` and `ManualRuns`. A reload
  waits for the jobs of the stopped runner on a `WaitGroup`, which releases its waiter
  once it has been empty (strong fairness of `Replace`). A job of snapraid ends, since its
  commands, hooks and containers have timeouts and its pipelines wait for nothing else; of
  a job of zfs-manager nothing is assumed.
- `snapraid_hub`, `zfs_hub`: the forwarder's ticker, `net/http`'s handlers and the
  monitor's ticker go on, and Vigil takes the hub's registration. That posts arrive, the
  link holds or the hub answers is not assumed: the properties speak of behaviours in
  which it does in the end.
- `hub_control`: a hub that died is started again, an agent keeps posting, the write of
  a file ends, handlers run and clients' timeouts fire. That agents answer is not
  assumed.
- `vigil_link`: retries of `Register` and `Run`, the read deadline of a minute, and the
  loops. That a write to a cut connection fails is not assumed.
- `zfs_operations`: handlers, refreshes and the ticker go on. Those of the handlers have
  timeouts; that a `zfs list` of the loop ends is an assumption.

All runs but `zfs_operations`, whose ticker never ends, turn deadlock checking off:
requests, firings and connections are bounded, so every behaviour ends in a state in
which nothing is left to do.

### What the properties except

A property that holds names what the code gives up:

- `GhostJobOnlyByLoss`: a burn-in job whose last frame is lost, or whose agent dies,
  stays active and its agent busy until the hub restarts.
- `ChainKept`: snapshot retention matches names by prefix, so a task `auto` prunes the
  snapshots of a task `auto-daily` on the same dataset, and two replications with the
  default prefix prune each other's (`disturbed`).
- `CompletionOnlyAfterEnd`, `EventsInOrderOnce`, `AnnouncedOnce`: not when an ingest
  handler overtakes another (`overlapped`), nor, for the first, when a second producer has
  taken the slot of the active job (`clobbered`). The end of a scrub may be announced
  again after a refresh has stored an older view of the pool (`turn`); it is never
  announced before its time.
- `GatesGuardSync`: not for checks that were cut short (`cut`), and not for the limit on
  updates where additions override a breach of that on deletions.
- `KeysAgree`: not when rotations overlap, burn-in's file could not be opened, or its
  key comes from the configuration; and when the write of a key file fails the file is
  empty (`keyCut`).
- `JobMuReturned`, `RunNowRuns`: not while a run hangs in its pipe (`Stuck`), nor when the
  hub never answers again.
- `EveryRequestEnds`: not for a reload of zfs-manager that waits for a job of the stopped
  runner which never ends, nor for a run by hand that waits for one which holds `jobMu`.
- `AnswerMatchesEffect`: not after an answer that came too late.
- `OnlyTheLatest`: not after two requests have met; the second runner then fires until
  the agent ends, and a deleted task may come back with it.
- `CacheCatchesUp`: not for lists that have become empty.

## Findings

Where the code and what its comments or documents say of it part; a name in parentheses
is the configuration that shows it.

*Burn-in.*

- The abort of a running job can be lost: `finishJob` frees the drive, then unregisters
  by ID; a job admitted in between with the same command and drive in the same second
  loses its cancel function (`MCBurninJobsAbort`).
- The job state file is never read: `LoadState` is documented as called on startup and
  has no caller, so the first save after a restart drops all earlier records
  (`MCBurninJobsHistory`).
- Each job is announced twice: the orchestrator's frame at 100 percent makes the hub
  forget the job, the final frame of `finishJob` starts it again (`MCBurninHubStart`).
- A rotated key does not reach the telemetry endpoint until the hub restarts
  (`MCHubCommandsKey`); memory and key file are not changed atomically, as the comment
  says they are; and a key from the configuration undoes a rotation at the next start.
- The hub does not forward a cancel to "the owning agent": it asks one after the other,
  and a late answer may cost a second agent its job.

*Snapraid and ZFS hubs.*

- A rotation whose write fails answers 500 and leaves `hub.psk` empty, as the file is
  truncated first: the old key stays in use until the hub restarts, makes a new key, and
  refuses all of its agents.

*Snapraid.*

- A failed diff opens the gate: the exit code of `snapraid diff` is dropped; a diff that
  is aborted, times out or fails counts as no changes, and the sync goes on
  (`MCSnapraidAgentGates`). The same holds of `smart`.
- Where additions override a breach of the deletion limit, the limit on updates is not
  looked at: the branch of the ratio passes the whole gate, while the documents say it
  overrides the one breach (`MCSnapraidAgentLimits`). And a deletion limit of 0 forbids
  every deletion, while it is documented as no limit.
- A job seen in two frames is announced as complete without its trigger
  (`MCSnapraidHubTrigger`), and a completion is announced of failed jobs, too.
- A cancel without an agent goes to the first one online, whatever its job.
- The "first online agent" of a query is any agent with a cached frame.

*ZFS manager.*

- A bookmark does not outlive its snapshot's usefulness: it is looked up by the name of a
  common snapshot that is still on the source; when that has been pruned, the run makes
  a full send, which the destination refuses (`MCZfsReplicationBookmark`).
- A receiver that ends early hangs the scheduler: nobody reads or closes the pipe,
  `sendCmd.Wait` does not return, and the run keeps `jobMu` until the agent restarts
  (`MCZfsReplicationPipe`).
- A hub that accepts requests and does not answer stalls the scheduler, since log lines
  are posted under `jobMu` by a client without a timeout (`MCZfsReplicationHub`). Any job
  without end, this one or the one that hangs in its pipe, also keeps every later request
  that changes a task: its `Reload` waits for the job.
- A refresh of the agent that began earlier may end later and bring back an older view of
  the pools: a scrub that has ended runs again, and its end is announced a second time.
- Requests that meet in `Reload` leave a second runner that nobody stops
  (`MCCronReloadOverlap`).
- The last pool or snapshot is reported for ever after its removal, since an empty list is
  taken for a failed one (`MCZfsOperationsEmpty`).
- The retention cleanup destroys by name what it listed before
  (`MCZfsOperationsCleanup`).
- The refresh "before responding" runs beside the answer; the start event of a short task
  may be overwritten; a busy pool is shown with zero rates when two frames have one
  sample (`MCZfsHubRates`); and the manager's write timeout of 30 seconds undercuts the
  proxy's five minutes.

## Proofs

Each module `XProofs` extends `X` and proves, for every value of the constants that the
assumptions of `X` allow, the theorems of this table. "Types" is `Spec => []TypeOK`.
`ZfsHubProofs` extends `VigilLink` too, and `ZfsAgentProofs` both `ZfsReplication` and
`ZfsOperations`; the definitions of `VigilLink` and `ZfsOperations` carry names of their
own for it (`LinkSpec`, `OpsSpec`). Each theorem is about one of the specifications.

| Module | Theorems |
|---|---|
| `BurninJobsProofs` | types (`TypeCorrect`); `LocksMatchJobs` (`LocksCorrect`); `OneJobPerDrive` (`DriveExclusion`); the refinement `ImplementsReservation` (`LocksImplementReservation`); `StatusAlwaysKnown` (`StatusKnown`); `AbortReachesJob` (`AbortsReachJobs`); the action property `CancelStopsJob` (`CancelsStopJobs`) |
| `BurninHubProofs` | types (`HubTypes`); `OpenReaderIsTracked` (`ReadersTracked`); `StoresAgree` (`StoresAlwaysAgree`); `NotificationsPairUp` (`NotificationsPair`); `GhostJobOnlyByLoss` (`GhostsOnlyByLoss`) |
| `HubCommandsProofs` | types of `HubAgents` (`AgentsTypes`); `KeysAgree` (`KeysAlwaysAgree`); `RegistryKeepsPromises` (`PromisesKept`); `AnswerMatchesEffect` (`AnswersMatchEffects`); types of `HubCommands`, for finitely many agents (`CommandsTypes`) |
| `SnapraidAgentProofs` | types (`AgentTypes`); `OnePipelineAtATime` (`OnePipeline`); `GatesGuardSync` (`GatesGuard`); `HistoryFollowsJobs` (`HistoryFollows`); `NoStaleActiveJob` (`ActiveJobIsLive`); `ContainersComeBack` (`ContainersRestored`); `CompletionMeansSynced` (`CompletionSynced`) |
| `SnapraidHubProofs` | types (`HubTypes`); the action properties `EventsInOrderOnce` (`EventsOrdered`) and `CompletionOnlyAfterEnd` (`CompletionAfterEnd`) |
| `CronReloadProofs` | types (`CronTypes`); `NothingForgotten` (`NothingEverForgotten`); `OnlyTheLatest` (`LatestOnly`) |
| `ZfsHubProofs` | types (`HubTypes`); the action properties `AnnouncedOnce` (`EventsAnnouncedOnce`) and `RatesNeverAboveActivity` (`RatesHonest`); of `VigilLink`: types (`LinkTypes`); `InOrderOnce` (`FramesInOrderOnce`); `OneFrameWasted` (`LittleWasted`); the refinement `ImplementsChannels` (`LinkImplementsChannels`) |
| `ZfsAgentProofs` | types (`ReplicationTypes`); `ChainKept` (`ChainAlwaysKept`); the action property `SuccessMeansReplicated` (`SuccessReplicates`); of `ZfsOperations`: `AnsweredWriteShown` (`AnsweredWritesShown`) |

So every safety property that a passing run checks is proved. The bounds of the runs,
which stop the clock, the crashes or the messages, are parameters of the theorems: they
may be any natural numbers.

*Assumptions.* The constants are assumed to be what the code makes them: the commands,
kinds of add-on and thresholds are among those that exist, bounds are natural numbers,
null values are not members of the sets they are added to (`NullsAssumption`,
`NoAgentAssumption`, `NoJobAssumption`, `ActorsAssumption`, `NoSnapAssumption`, and
`ValuesAssumption`: the three special values of an item are no version numbers). A job
belongs to an agent (`AgentOfAssumption`) and there is one (`JobsAssumption`). A prefix
covers itself (`PrefixAssumption`). TLC evaluates all of them in the runs.

Hardly any of the properties is inductive. Each module defines its inductive invariant
as a conjunction of named parts; TLC checked every one of them on the instances above,
with larger bounds where it could, before it was proved. The arguments:

*Drive locks.* `OneJobPerDrive` speaks of two slots and is not inductive: nothing in it
keeps a third slot from being admitted to a drive that is in use. The inductive invariant
is `LocksMatchJobs` with the types and the fact that every slot past `Submit` has a job
ID (`TypeInv`): the slots between `Admit` and `FinishRelease` are exactly those that the
drive lock of their device leads to, through the job ID, in `jobs`. Both tables are
functions, so two holders of one drive are the same slot. Each action leaves both tables
and the set of holders alone, or is `Admit`, `FinishRelease` or `CrashRestart`, which
change all three together. The refinement mapping sends a drive to the slot its lock leads
to; `Admit` maps to `Reserve`, `FinishRelease` to `Return`, `CrashRestart` to `Restart`
and every other step to a stutter. `StatusKnown` adds that a record, once saved, stays
until a crash (`SavedStays`); `AbortReachesJob` is inductive with the types and
`LocksMatchJobs`; `CancelsStopJobs` goes through the actions that move a phase.

*Burn-in hub.* A connection has frames only while it has a reader, and an agent writes to
its own (`ConnInv`, `FrameInv`); two readers of one agent have a frame at the same time
only after an overlap (`AloneInv`). That makes the work on one job sequential, so the
three maps and the counts of notifications can be followed from lock to lock of
`processFrame` (`StoreInv`, `PairInv`). A ghost needs a final frame that never comes:
`GhostInv` says where that frame is, last of its job in a queue, being read, or processed.

*Hub control.* The parts of the invariant build on each other: who may be saving and when
a file is torn (`SavingInv`), what was told is in memory and, but for failed saves, in the
file (`PromisesInv`), how far key and file have come in each order of a rotation
(`KeysInv`). For commands it counts, per request, what its messages can have done,
including those that arrive after the hub has given up. `CountInv` bounds their number: the
effects of a request, its messages on their way and the agents it has still to ask are
never more than the agents, as each step moves an agent from one of the three to the next
or drops it. This takes a finite set of agents, the hypothesis of `CommandsTypes`.

*Snapraid agent.* Most of the invariant is local to an actor (`ActorInv`): which command
it can be at, what its rows show, what its gates have seen, and what a pipeline past its
sync has done. An action moves one actor and leaves the others alone, so one lemma per
action and actor suffices; only `jobMu`, the active job and the containers are shared.

*Snapraid telemetry.* Without an overlap there is one handler at a time (`SingleInv`);
then the event last announced, that of the handler and that in the slot are in order
(`OrderInv`). `EndedInv` follows a frame without a job from `Build` to
`EvaluateJobTransition`: the job that the hub tracks had ended when the frame was built,
and only a second producer (`clobbered`) can bring another.

*ZFS telemetry.* The handlers and the events are followed as in the snapraid hub
(`AloneInv`, `EventInv`). A scrub has no number on the wire that the hub could remember,
so what is known of scrubs is put in order. No view of the pool is ahead of it in the
order in which it starts and ends its scrubs (`Rank`): not those that refreshes have read,
the Collector's, those in frames or the hub's (`RankInv`); so an end is announced only
after it. Until a refresh stores an older view, the Collector only goes on. `ScrubInv`
puts the scrub announced last, the hub's last view, the frames and the Collector one after
the other, first by turn and then by rank; whatever still shows a scrub running is later
than what was announced, or of a later turn. A restart of the agent, which empties the
Collector, sets the order back to the frame without a pool.
`RateInv` says of any two samples anywhere that the counter has grown by no more than the
time between them; so the rates need no order of refreshes or frames and hold also after
an overlap.

*Cron reload.* `LatestInv` is the heart: a request that has not listed the rows yet will,
and one that has and is not done holds, or has registered, the latest version of every
item, in the runner that is current, whoever made it. `CountInv` numbers the runners, by
the number of requests that have still to make one (`Coming`). `AloneInv` follows one
request that meets no other through its steps.

*Upstream link.* Only the newest connection can be up (`ConnInv`): older loops may hold
frames and take more, but what they hold is lost. So what Vigil has, what the loop of the
open connection holds, and what is in the channel follow one another (`TelemetryInv`).
The refinement follows: `Push` and `SendLook` map to `HandOver`, a write to the connection
that is up maps to `Arrive`, and every other step to a stutter of both channels.

*ZFS replication.* `ChainKept` says nothing of runs, and a retention could take the
newest copy. In an undisturbed task only one run has a snapshot (`AloneInv`), and that is
the last its retention sees, on the source and at the destination (`RunInv`); all but the
newest are then older than it, whatever failed runs have left behind, and what is newest
at the destination is that snapshot or, before the receive, one that no retention of
this task runs against. This is where `PrefixAssumption` and the positive retention
(`VictimFacts`) are needed.

*Write operations.* A list that a refresh has read is no older than the start of the
refresh (`ReadLater`), and the refresh of a write starts at the write (`OwnRefresh`). When
it stores, every list is replaced by one at least as new as the write, and from then on a
list is kept, or replaced by that of a refresh that began after the write, or `MarkAfter`
marks the write as overwritten.

*Left to TLC.* Liveness under fairness (`DriveEventuallyFree`, `SchedulerNotDeadlocked`,
both `HubCatchesUp`, `Progress`, `LinkRecovers`, `EveryRequestEnds`, `JobMuReturned`,
`RunNowRuns`, `CacheCatchesUp`), which TLAPS does not prove. The type
invariant of `ZfsOperations`: the snapshots that remain after a deletion are the result of
`SelectSeq`, a recursive definition whose range takes an induction over sequences.

## Not modelled

- Drive tools, parsers and formatting: their outcomes are chosen freely.
- Read endpoints, log and chart rings, notifications made from the content of one frame:
  they keep no state that another part depends on.
- Heartbeats and the online status of burn-in agents, and the fan-out of reads to agents.
- In `SnapraidAgent`: the graceful shutdown, the pruning of the history, the partial
  failure of container commands (a restore succeeds or not as a whole), and rows that
  cannot be inserted. `IsBusy` of the query handlers is that of `Probe`.
- In `ZfsReplication`: changes of tasks while they run, recursive snapshots, snapshots
  taken, rolled back or (at the destination) deleted by hand, the resumption of a receive
  (no receive of this program leaves a token), `last_sent_snap` (nothing reads it), rows
  that cannot be inserted. The optional `pv` stage of the pipe is one more copier of the
  same kind.
- In `ZfsOperations`: the creation and preview of pools, disks and their identification,
  ARC statistics, property reads. There is one pool with one dataset; requests that
  are refused change nothing and are no steps.
- In `CronReload`: which expressions cron accepts, and when they fire.
- Backoff delays everywhere: a retry may come at any time.
- Configuration files, manifests, JSON helpers and the UI.

## Plan

1. `BurninJobs`, `DriveReservation`, proofs of types, locks and refinement *(done)*.
2. `BurninHub`, `SnapraidAgent`, `ZfsReplication` *(done)*.
3. The telemetry paths `SnapraidHub` and `ZfsHub`, the control plane `HubAgents` and
   `HubCommands`, the link `VigilLink`, reconfiguration `CronReload`, and the write
   operations `ZfsOperations` *(done)*.
4. Proofs of all safety properties that the runs check, with the type invariants of all
   modules but `ZfsOperations` *(done)*.
5. `LossyChannel`, an abstract channel that may lose but not duplicate or reorder, and the
   proof that `VigilLink` implements it *(done)*.
