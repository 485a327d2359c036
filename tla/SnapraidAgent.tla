----------------------------- MODULE SnapraidAgent -----------------------------
(***************************************************************************)
(* The SnapRAID agent: the engine that runs one snapraid command at a time *)
(* (internal/engine/executor.go), the scheduled pipelines of               *)
(* internal/scheduler with their safety gates, the HTTP handlers of        *)
(* internal/agent/server.go that run and abort commands, and what both     *)
(* leave in the active-job slot of the collector and in the job history,   *)
(* across crashes of the agent process.                                    *)
(*                                                                         *)
(* An actor is one cron firing or one HTTP request, with the goroutine it  *)
(* becomes.  A snapraid command is a step of an actor: it takes the lock   *)
(* of the engine, runs, is killed or ends, and gives the lock back.  Lock  *)
(* and cancel function are taken and returned in one action each, because  *)
(* an abort or a command that falls in between fares as if it came before. *)
(***************************************************************************)
EXTENDS Integers, FiniteSets

CONSTANTS
    Firings,     \* firings of the cron schedules
    Requests,    \* HTTP requests that run a snapraid command
    NoActor,     \* no actor
    Schedules,   \* the schedules a firing may belong to
    Verbs,       \* the commands its requests ask for
    Reports,     \* the changes since the last sync that may pile up
    MaxDeleted, MaxUpdated, AddDelRatio, \* config.Thresholds
    AutoFix,     \* config.ScrubConfig.AutoFixBadBlocks
    MaxCrashes   \* bound on the crashes of the agent

Actors == Firings \union Requests

NoChanges == [added |-> 0, removed |-> 0, updated |-> 0]
Report == [added : Nat, removed : Nat, updated : Nat]

ASSUME ActorsAssumption == Firings \intersect Requests = {} /\ NoActor \notin Actors
Kinds == {"maintenance", "scrub_only", "status_refresh"}
ASSUME SchedulesAssumption == Schedules \in [Firings -> SUBSET Kinds]
ASSUME VerbsAssumption ==
    Verbs \subseteq {"touch", "diff", "smart", "sync", "scrub", "fix", "status", "refresh"}
ASSUME ReportsAssumption == Reports \subseteq Report
ASSUME ThresholdsAssumption ==
    /\ MaxDeleted \in Int /\ MaxUpdated \in Int /\ AddDelRatio \in Int
    /\ AutoFix \in BOOLEAN
ASSUME CrashesAssumption == MaxCrashes \in Nat

VARIABLES
    at,         \* where an actor is
    kind,       \* its schedule, or "manual", or "refresh"
    step,       \* the snapraid command it is at
    outcome,    \* how that command ended
    lock,       \* the holder of Engine.mu
    cancelFn,   \* the actor whose command Engine.cancelFn cancels
    aborting,   \* cancel functions an abort has looked up, not called
    killed,     \* actors whose command is cancelled or out of time
    jobMu,      \* the holder of Scheduler.jobMu
    report,     \* diffReport of a firing
    suspect,    \* whether its smartReport names a failing disk
    activeJob,  \* the actor whose job Collector.activeJob shows
    history,    \* status of the job_history row of an actor's step
    containers, \* the containers that are paused or stopped for a sync
    pending,    \* the changes on the disks since the last sync
    failing,    \* whether a disk fails its SMART check
    announced,  \* the events emitted on behalf of an actor
    truth,      \* history: the changes there were when its diff ended
    sick,       \* history: whether a disk was failing when its smart ended
    cut,        \* history: firings whose diff or smart did not end by itself
    crashes     \* crashes so far

actorVars == <<at, kind, step, outcome>>
engineVars == <<lock, cancelFn, aborting, killed>>
reportVars == <<report, suspect, truth, sick, cut>>
boardVars == <<activeJob, history>>
diskVars == <<pending, failing>>
vars == <<actorVars, engineVars, jobMu, reportVars, boardVars, containers,
          diskVars, announced, crashes>>

-----------------------------------------------------------------------------
(* Types *)

Location == {"idle", "skipped", "probing", "refused", "config", "ready", "tracked",
             "running", "ended", "gates", "hook", "containers", "restore",
             "summary", "summarising", "done", "dead"}

Step == {"none", "touch", "diff", "smart", "sync", "scrub", "fix", "status", "gate"}

(* Exit codes 0, 2 and 1; -1, of a process that was killed; any other      *)
(* error of exec; ErrEngineLocked.                                         *)
Outcome == {"none", "ok", "two", "one", "killed", "execError", "locked"}

RowStatus == {"none", "running", "success", "warning", "error", "aborted"}

Event == {"maintenance_started", "scrub_started", "job_failed", "job_complete",
          "gate_failed", "maintenance_complete", "scrub_complete",
          "status_refresh_complete"}

Executing(x) == at[x] \in {"running", "summarising"}
Over(x) == at[x] \in {"skipped", "refused", "done", "dead"}

-----------------------------------------------------------------------------
Init ==
    /\ at = [x \in Actors |-> "idle"]
    /\ kind = [x \in Actors |-> "none"]
    /\ step = [x \in Actors |-> "none"]
    /\ outcome = [x \in Actors |-> "none"]
    /\ lock = NoActor
    /\ cancelFn = NoActor
    /\ aborting = {}
    /\ killed = {}
    /\ jobMu = NoActor
    /\ report = [x \in Firings |-> NoChanges]
    /\ suspect = {}
    /\ activeJob = NoActor
    /\ history = [x \in Actors |-> [s \in Step |-> "none"]]
    /\ containers = "up"
    /\ pending = NoChanges
    /\ failing = FALSE
    /\ announced = [x \in Actors |-> {}]
    /\ truth = [x \in Firings |-> NoChanges]
    /\ sick = {}
    /\ cut = {}
    /\ crashes = 0

-----------------------------------------------------------------------------
(* Helpers *)

Goto(x, place, s) ==
    /\ at' = [at EXCEPT ![x] = place]
    /\ step' = [step EXCEPT ![x] = s]

GoOn(x, place, s) == Goto(x, place, s) /\ UNCHANGED <<jobMu, reportVars>>

Announce(x, events) == announced' = [announced EXCEPT ![x] = @ \union events]

(* The goroutine of x returns; a firing gives jobMu back and its reports   *)
(* are gone.                                                               *)
Leave(x) ==
    /\ Goto(x, "done", "none")
    /\ jobMu' = IF jobMu = x THEN NoActor ELSE jobMu
    /\ IF x \in Firings
       THEN /\ report' = [report EXCEPT ![x] = NoChanges]
            /\ truth' = [truth EXCEPT ![x] = NoChanges]
            /\ suspect' = suspect \ {x}
            /\ sick' = sick \ {x}
            /\ cut' = cut \ {x}
       ELSE UNCHANGED reportVars

(* runStep passes the exit code on only for these; diff, smart and status  *)
(* count as exit code 0 whenever the process was started.                  *)
ExitCodeCounts(x) == step[x] \in {"touch", "sync", "scrub", "fix"}

(* The status the row of a step ends with: in runStep, and in runCommand,  *)
(* which knows no "aborted".                                               *)
EndStatus(x) ==
    CASE outcome[x] = "locked" -> IF kind[x] = "manual" THEN "error" ELSE "aborted"
      [] outcome[x] = "execError" -> "error"
      [] outcome[x] = "ok" \/ ~ ExitCodeCounts(x) -> "success"
      [] outcome[x] = "two" -> "warning"
      [] OTHER -> "error"

StepOk(x) == EndStatus(x) \in {"success", "warning"}

CompleteJobUnlessLocked(x) ==
    history' = [history EXCEPT ![x][step[x]] =
                    IF outcome[x] = "locked" THEN @ ELSE EndStatus(x)]
CompleteJob(x) == history' = [history EXCEPT ![x][step[x]] = EndStatus(x)]

ClearJobKept == UNCHANGED activeJob
ClearJob == activeJob' = NoActor
TrackJob(x) == activeJob' = x

(* recordGateFailure                                                       *)
RecordGateFailure(x) == history' = [history EXCEPT ![x]["gate"] = "aborted"]

-----------------------------------------------------------------------------
(* Gates *)

(* CheckSMART of the report of x.                                          *)
CheckSMART(x) == x \notin suspect

(* CheckDiffThresholds: true when the gate passes.  The ratio overrides a  *)
(* breach of the deletion threshold, and with it the update threshold.     *)
DiffThresholdsAnyRatio(r) ==
    IF MaxDeleted >= 0 /\ r.removed > MaxDeleted
    THEN AddDelRatio > 0
    ELSE MaxUpdated >= 0 => r.updated <= MaxUpdated

CheckDiffThresholds(r) ==
    IF MaxDeleted >= 0 /\ r.removed > MaxDeleted
    THEN AddDelRatio > 0 /\ r.added >= AddDelRatio * r.removed
    ELSE MaxUpdated >= 0 => r.updated <= MaxUpdated

-----------------------------------------------------------------------------
(* How an actor starts                                                     *)

(* runScheduled: a cron firing takes jobMu, or is skipped.                 *)
JobMuIgnored == TRUE
JobMuFree == jobMu = NoActor

Fire(x, k) ==
    /\ at[x] = "idle"
    /\ k \in Schedules[x]
    /\ kind' = [kind EXCEPT ![x] = k]
    /\ IF JobMuFree
       THEN /\ jobMu' = x
            /\ CASE k = "maintenance" -> Goto(x, "config", "none")
                 [] k = "scrub_only" -> Goto(x, "ready", "scrub")
                 [] k = "status_refresh" -> Goto(x, "ready", "status")
            /\ Announce(x, CASE k = "maintenance" -> {"maintenance_started"}
                             [] k = "scrub_only" -> {"scrub_started"}
                             [] k = "status_refresh" -> {})
       ELSE /\ Goto(x, "skipped", "none")
            /\ UNCHANGED <<jobMu, announced>>
    /\ UNCHANGED <<outcome, engineVars, reportVars, boardVars, containers,
                   diskVars, crashes>>

(* handleExecute, IsBusy: it tries the lock itself, and holds it a moment. *)
Probe(x, verb) ==
    /\ at[x] = "idle"
    /\ kind' = [kind EXCEPT ![x] = "manual"]
    /\ IF lock = NoActor
       THEN lock' = x /\ Goto(x, "probing", verb)
       ELSE UNCHANGED lock /\ Goto(x, "refused", "none")
    /\ UNCHANGED <<outcome, cancelFn, aborting, killed, jobMu, reportVars,
                   boardVars, containers, diskVars, announced, crashes>>

(* "accepted", and go runCommand.                                          *)
Accept(x) ==
    /\ at[x] = "probing"
    /\ lock' = NoActor
    /\ Goto(x, "ready", step[x])
    /\ UNCHANGED <<kind, outcome, cancelFn, aborting, killed, jobMu, reportVars,
                   boardVars, containers, diskVars, announced, crashes>>

(* The start of the agent and a query that finds nothing cached run status *)
(* with no row and no active job.                                          *)
StartRefresh(x) ==
    /\ at[x] = "idle"
    /\ kind' = [kind EXCEPT ![x] = "refresh"]
    /\ Goto(x, "summary", "none")
    /\ UNCHANGED <<outcome, engineVars, jobMu, reportVars, boardVars, containers,
                   diskVars, announced, crashes>>

-----------------------------------------------------------------------------
(* One step: runStep, runCommand, and the engine                           *)

BeginStep(x) ==
    /\ at[x] = "ready"
    /\ TrackJob(x)
    /\ history' = [history EXCEPT ![x][step[x]] = "running"]
    /\ Goto(x, "tracked", step[x])
    /\ UNCHANGED <<kind, outcome, engineVars, jobMu, reportVars, containers,
                   diskVars, announced, crashes>>

(* Engine.runCommand and runCommandStreaming: TryLock, then setCancel.     *)
LockFree == lock = NoActor

TakeLock(x) ==
    /\ LockFree
    /\ lock' = x
    /\ cancelFn' = x
    /\ UNCHANGED <<aborting, killed>>

StartCommand(x) ==
    /\ at[x] = "tracked"
    /\ TakeLock(x)
    /\ Goto(x, "running", step[x])
    /\ UNCHANGED <<kind, outcome, jobMu, reportVars, boardVars, containers,
                   diskVars, announced, crashes>>

RefuseCommand(x) ==
    /\ at[x] = "tracked"
    /\ ~ LockFree
    /\ outcome' = [outcome EXCEPT ![x] = "locked"]
    /\ Goto(x, "ended", step[x])
    /\ UNCHANGED <<kind, engineVars, jobMu, reportVars, boardVars, containers,
                   diskVars, announced, crashes>>

(* The deferred setCancel(nil), cancel and Unlock.  A cancel function an   *)
(* abort still has does nothing any more.                                  *)
ReturnLock(x) ==
    /\ lock' = NoActor
    /\ cancelFn' = NoActor
    /\ aborting' = aborting \ {x}
    /\ killed' = killed \ {x}

(* How a process ends.                                                     *)
Endings(x) ==
    IF x \in killed THEN {"killed", "execError"} ELSE {"ok", "two", "one", "execError"}

(* The counters are the last lines of the output: a diff that is killed or *)
(* fails is read as having none of them, or as usual.                      *)
CutShort(o) == o \in {"killed", "one"}
ReadDiff(o) == IF CutShort(o) THEN {NoChanges, pending} ELSE {pending}
ReadSmart(o) == IF CutShort(o) THEN {FALSE, failing} ELSE {failing}

ReadReport(x, o) ==
    CASE x \in Firings /\ step[x] = "diff" /\ o # "execError" ->
            /\ \E r \in ReadDiff(o) : report' = [report EXCEPT ![x] = r]
            /\ truth' = [truth EXCEPT ![x] = pending]
            /\ cut' = IF CutShort(o) THEN cut \union {x} ELSE cut
            /\ UNCHANGED <<suspect, sick>>
      [] x \in Firings /\ step[x] = "smart" /\ o # "execError" ->
            /\ \E bad \in ReadSmart(o) : suspect' = IF bad THEN suspect \union {x} ELSE suspect
            /\ sick' = IF failing THEN sick \union {x} ELSE sick
            /\ cut' = IF CutShort(o) THEN cut \union {x} ELSE cut
            /\ UNCHANGED <<report, truth>>
      [] OTHER -> UNCHANGED reportVars

EndCommand(x, o) ==
    /\ at[x] = "running"
    /\ o \in Endings(x)
    /\ outcome' = [outcome EXCEPT ![x] = o]
    /\ ReturnLock(x)
    /\ ReadReport(x, o)
    /\ pending' = IF step[x] = "sync" /\ o = "ok" THEN NoChanges ELSE pending
    /\ Goto(x, "ended", step[x])
    /\ UNCHANGED <<kind, jobMu, boardVars, containers, failing, announced, crashes>>

(* What runStep emits; a pre-flight step that fails is in the history only.*)
StepEvents(x) ==
    IF StepOk(x) THEN {"job_complete"}
    ELSE IF step[x] \in {"diff", "smart"} THEN {} ELSE {"job_failed"}

(* The end of runStep: the row is completed and the active job cleared.    *)
(* What the pipeline emits when this was its last step comes with it.      *)
FinishStep(x, last) ==
    /\ at[x] = "ended"
    /\ CompleteJob(x)
    /\ ClearJob
    /\ outcome' = [outcome EXCEPT ![x] = "none"]
    /\ Announce(x, StepEvents(x) \union last)
    /\ UNCHANGED <<kind, engineVars, containers, diskVars, crashes>>

FixNeeded(x) == step[x] = "scrub" /\ AutoFix /\ outcome[x] = "two"

(* RunMaintenance, step by step; the result of scrub and fix is ignored.   *)
FinishMaintenanceStep(x) ==
    /\ kind[x] = "maintenance"
    /\ FinishStep(x, {})
    /\ \/ step[x] = "touch" /\ StepOk(x) /\ GoOn(x, "ready", "diff")
       \/ step[x] = "diff" /\ StepOk(x) /\ GoOn(x, "ready", "smart")
       \/ step[x] = "smart" /\ StepOk(x) /\ GoOn(x, "gates", "none")
       \/ step[x] \in {"touch", "diff", "smart"} /\ ~ StepOk(x) /\ Leave(x)
       \/ step[x] = "sync" /\ GoOn(x, "restore", "none")
       \/ FixNeeded(x) /\ GoOn(x, "ready", "fix")
       \/ step[x] \in {"scrub", "fix"} /\ ~ FixNeeded(x) /\ GoOn(x, "summary", "none")

(* RunScrubOnly and RunStatusRefresh.                                      *)
FinishScheduledStep(x) ==
    \/ /\ kind[x] = "scrub_only"
       /\ FixNeeded(x)
       /\ FinishStep(x, {})
       /\ GoOn(x, "ready", "fix")
    \/ /\ kind[x] = "scrub_only"
       /\ ~ FixNeeded(x)
       /\ FinishStep(x, {"scrub_complete"})
       /\ Leave(x)
    \/ /\ kind[x] = "status_refresh"
       /\ FinishStep(x, {"status_refresh_complete"})
       /\ Leave(x)

(* The end of runCommand.  A sync or scrub that was started is followed by *)
(* a status, with the job still shown as active.                           *)
FinishManual(x) ==
    LET failed == outcome[x] \in {"locked", "execError"} IN
    /\ at[x] = "ended"
    /\ kind[x] = "manual"
    /\ CompleteJob(x)
    /\ outcome' = [outcome EXCEPT ![x] = "none"]
    /\ IF ~ failed /\ step[x] \in {"sync", "scrub"}
       THEN GoOn(x, "summary", step[x]) /\ UNCHANGED <<activeJob, announced>>
       ELSE /\ Leave(x)
            /\ ClearJob
            /\ Announce(x, {IF failed THEN "job_failed" ELSE "job_complete"})
    /\ UNCHANGED <<kind, engineVars, containers, diskVars, crashes>>

-----------------------------------------------------------------------------
(* The rest of RunMaintenance                                              *)

(* Gate 0, CheckConfigFiles.                                               *)
ConfigGate(x, passed) ==
    /\ at[x] = "config"
    /\ IF passed
       THEN Goto(x, "ready", "touch") /\ UNCHANGED history
       ELSE Goto(x, "summary", "gate") /\ RecordGateFailure(x)
    /\ UNCHANGED <<kind, outcome, engineVars, jobMu, reportVars, activeJob,
                   containers, diskVars, announced, crashes>>

(* Gates 1 and 2.                                                          *)
SafetyGates(x) ==
    /\ at[x] = "gates"
    /\ IF CheckSMART(x) /\ CheckDiffThresholds(report[x])
       THEN Goto(x, "hook", "none") /\ UNCHANGED history
       ELSE Goto(x, "summary", "gate") /\ RecordGateFailure(x)
    /\ UNCHANGED <<kind, outcome, engineVars, jobMu, reportVars, activeJob,
                   containers, diskVars, announced, crashes>>

PreSyncHook(x, passed) ==
    /\ at[x] = "hook"
    /\ IF passed
       THEN GoOn(x, "containers", "none") /\ UNCHANGED <<history, announced>>
       ELSE /\ Leave(x)
            /\ RecordGateFailure(x)
            /\ Announce(x, {"gate_failed"})
    /\ UNCHANGED <<kind, outcome, engineVars, activeJob, containers, diskVars, crashes>>

(* manageContainers.                                                       *)
StopContainers(x) ==
    /\ at[x] = "containers"
    /\ containers' = "down"
    /\ Goto(x, "ready", "sync")
    /\ UNCHANGED <<kind, outcome, engineVars, jobMu, reportVars, boardVars,
                   diskVars, announced, crashes>>

(* The restore function, whatever became of the sync; a docker command     *)
(* that fails is only logged.  The result of the post-sync hook is ignored.*)
SyncNoError(x) == history[x]["sync"] # "error"
SyncDone(x) == history[x]["sync"] \in {"success", "warning"}

RestoreContainersIfSynced(x, restored) ==
    /\ at[x] = "restore"
    /\ containers' = IF ~ SyncDone(x) THEN containers ELSE IF restored THEN "up" ELSE "stuck"
    /\ IF SyncDone(x) THEN GoOn(x, "ready", "scrub") ELSE Leave(x)
    /\ UNCHANGED <<kind, outcome, engineVars, boardVars, diskVars, announced, crashes>>

RestoreContainers(x, restored) ==
    /\ at[x] = "restore"
    /\ containers' = IF restored THEN "up" ELSE "stuck"
    /\ IF SyncDone(x) THEN GoOn(x, "ready", "scrub") ELSE Leave(x)
    /\ UNCHANGED <<kind, outcome, engineVars, boardVars, diskVars, announced, crashes>>

-----------------------------------------------------------------------------
(* A status that is not a step: for a notification, or to fill a cache     *)

StartSummary(x) ==
    /\ at[x] = "summary"
    /\ TakeLock(x)
    /\ Goto(x, "summarising", step[x])
    /\ UNCHANGED <<kind, outcome, jobMu, reportVars, boardVars, containers,
                   diskVars, announced, crashes>>

(* What follows the status, or the refusal of the engine to run it.        *)
AfterSummary(x) ==
    /\ IF kind[x] = "manual" THEN ClearJob ELSE UNCHANGED activeJob
    /\ Announce(x, CASE kind[x] = "manual" -> {"job_complete"}
                     [] kind[x] = "refresh" -> {}
                     [] step[x] = "gate" -> {"gate_failed"}
                     [] OTHER -> {"maintenance_complete"})
    /\ Leave(x)
    /\ UNCHANGED <<kind, outcome, history, containers, diskVars, crashes>>

EndSummary(x) ==
    /\ at[x] = "summarising"
    /\ ReturnLock(x)
    /\ AfterSummary(x)

SkipSummary(x) ==
    /\ at[x] = "summary"
    /\ ~ LockFree
    /\ AfterSummary(x)
    /\ UNCHANGED engineVars

-----------------------------------------------------------------------------
(* POST /api/abort, timeouts, and the environment                          *)

(* Engine.Abort finds the cancel function, or answers ErrNoActiveJob ...   *)
AbortLookup ==
    /\ cancelFn # NoActor
    /\ cancelFn \notin aborting
    /\ aborting' = aborting \union {cancelFn}
    /\ UNCHANGED <<actorVars, lock, cancelFn, killed, jobMu, reportVars, boardVars,
                   containers, diskVars, announced, crashes>>

(* ... and calls it after cancelMu is released.                            *)
AbortCancel(x) ==
    /\ x \in aborting
    /\ aborting' = aborting \ {x}
    /\ killed' = killed \union {x}
    /\ UNCHANGED <<actorVars, lock, cancelFn, jobMu, reportVars, boardVars,
                   containers, diskVars, announced, crashes>>

(* The timeout of the command.                                             *)
TimeoutOfStepsOnly(x) ==
    /\ at[x] = "running"
    /\ x \notin killed
    /\ killed' = killed \union {x}
    /\ UNCHANGED <<actorVars, lock, cancelFn, aborting, jobMu, reportVars,
                   boardVars, containers, diskVars, announced, crashes>>

Timeout(x) ==
    /\ Executing(x)
    /\ x \notin killed
    /\ killed' = killed \union {x}
    /\ UNCHANGED <<actorVars, lock, cancelFn, aborting, jobMu, reportVars,
                   boardVars, containers, diskVars, announced, crashes>>

(* Files are added, removed and updated; disks go bad.                     *)
ChangeFiles(r) ==
    /\ r # pending
    /\ pending' = r
    /\ UNCHANGED <<actorVars, engineVars, jobMu, reportVars, boardVars, containers,
                   failing, announced, crashes>>

DiskFails ==
    /\ ~ failing
    /\ failing' = TRUE
    /\ UNCHANGED <<actorVars, engineVars, jobMu, reportVars, boardVars, containers,
                   pending, announced, crashes>>

(* The agent dies and starts again.  The job history is on disk and the    *)
(* containers are as they are; nothing looks at either on the way up.      *)
CrashRestart ==
    /\ crashes < MaxCrashes
    /\ crashes' = crashes + 1
    /\ at' = [x \in Actors |-> IF at[x] = "idle" \/ Over(x) THEN at[x] ELSE "dead"]
    /\ step' = [x \in Actors |-> "none"]
    /\ outcome' = [x \in Actors |-> "none"]
    /\ lock' = NoActor
    /\ cancelFn' = NoActor
    /\ aborting' = {}
    /\ killed' = {}
    /\ jobMu' = NoActor
    /\ report' = [x \in Firings |-> NoChanges]
    /\ truth' = [x \in Firings |-> NoChanges]
    /\ suspect' = {}
    /\ sick' = {}
    /\ cut' = {}
    /\ activeJob' = NoActor
    /\ UNCHANGED <<kind, history, containers, diskVars, announced>>

-----------------------------------------------------------------------------
(* What an actor does on its own, but for the end of a process nobody      *)
(* kills: snapraid may hang.                                               *)
Proceed(x) ==
    \/ Accept(x)
    \/ BeginStep(x) \/ StartCommand(x) \/ RefuseCommand(x)
    \/ x \in killed /\ \E o \in Outcome : EndCommand(x, o)
    \/ FinishMaintenanceStep(x) \/ FinishScheduledStep(x) \/ FinishManual(x)
    \/ \E passed \in BOOLEAN : ConfigGate(x, passed) \/ PreSyncHook(x, passed)
    \/ SafetyGates(x)
    \/ StopContainers(x)
    \/ \E restored \in BOOLEAN : RestoreContainers(x, restored)
    \/ StartSummary(x) \/ SkipSummary(x)
    \/ x \in killed /\ EndSummary(x)

Next ==
    \/ \E x \in Firings, k \in Kinds : Fire(x, k)
    \/ \E x \in Requests, verb \in Verbs \ {"refresh"} : Probe(x, verb)
    \/ \E x \in Requests : "refresh" \in Verbs /\ StartRefresh(x)
    \/ \E x \in Actors : Proceed(x)
    \/ \E x \in Actors : \E o \in Outcome : EndCommand(x, o)
    \/ \E x \in Actors : EndSummary(x)
    \/ AbortLookup
    \/ \E x \in Actors : AbortCancel(x) \/ Timeout(x)
    \/ \E r \in Reports : ChangeFiles(r)
    \/ DiskFails
    \/ CrashRestart

Spec == Init /\ [][Next]_vars

(* Goroutines are scheduled, a timeout expires while its command runs on,  *)
(* and a process that is killed ends.                                      *)
Fairness ==
    /\ \A x \in Actors : WF_vars(Proceed(x))
    /\ \A x \in Actors : WF_vars(Timeout(x))

FairSpec == Spec /\ Fairness

-----------------------------------------------------------------------------
(* Correctness *)

(* Every variable has its type.                                            *)
TypeOK ==
    /\ at \in [Actors -> Location]
    /\ kind \in [Actors -> {"none", "manual", "refresh"} \union Kinds]
    /\ step \in [Actors -> Step]
    /\ outcome \in [Actors -> Outcome]
    /\ lock \in Actors \union {NoActor}
    /\ cancelFn \in Actors \union {NoActor}
    /\ aborting \in SUBSET Actors
    /\ killed \in SUBSET Actors
    /\ jobMu \in Firings \union {NoActor}
    /\ report \in [Firings -> Report]
    /\ suspect \in SUBSET Firings
    /\ activeJob \in Actors \union {NoActor}
    /\ history \in [Actors -> [Step -> RowStatus]]
    /\ containers \in {"up", "down", "stuck"}
    /\ pending \in Report
    /\ failing \in BOOLEAN
    /\ announced \in [Actors -> SUBSET Event]
    /\ truth \in [Firings -> Report]
    /\ sick \in SUBSET Firings
    /\ cut \in SUBSET Firings
    /\ crashes \in 0..MaxCrashes

(* "Only one pipeline runs at a time, even if cron fires overlap"          *)
(* (scheduler.go:27).                                                      *)
OnePipelineAtATime ==
    \A x, y \in Firings :
        at[x] # "idle" /\ ~ Over(x) /\ at[y] # "idle" /\ ~ Over(y) => x = y

(* The maintenance pipeline from the pre-sync hook to the end of the sync. *)
AboutToSync(x) ==
    /\ kind[x] = "maintenance"
    /\ \/ at[x] \in {"hook", "containers"}
       \/ step[x] = "sync" /\ at[x] \in {"ready", "tracked", "running"}

(* The limits as they are documented: "Abort sync if more files deleted    *)
(* than this limit (0 = no limit)" (README.md:396), unless the ratio of    *)
(* additions overrides the breach (:569); "Abort sync if more files        *)
(* updated than this limit (-1 = disabled)" (:397), which nothing          *)
(* overrides.                                                              *)
DeletionsOverridden(r) == AddDelRatio > 0 /\ r.added >= AddDelRatio * r.removed
DeletionsAllowed(r) == MaxDeleted <= 0 \/ r.removed <= MaxDeleted \/ DeletionsOverridden(r)
UpdatesAllowed(r) == MaxUpdated < 0 \/ r.updated <= MaxUpdated

(* "Before any automated sync" the gates pass (README.md:565): on the way  *)
(* to a sync no disk failed the SMART check and the diff was within the    *)
(* documented limits, whatever other firings, requests and aborts did to   *)
(* the commands of the pipeline.  What the code leaves unguarded is        *)
(* excepted: a diff or smart that was cut short reads as nothing found     *)
(* (GatesAlwaysGuardSync), and where additions override a breach of the    *)
(* deletion limit no limit on updates is left (UpdatesAlwaysLimited).      *)
GatesGuardSync ==
    \A x \in Firings :
        AboutToSync(x) /\ x \notin cut =>
            /\ x \notin sick
            /\ DeletionsAllowed(truth[x])
            /\ \/ UpdatesAllowed(truth[x])
               \/ truth[x].removed > MaxDeleted /\ DeletionsOverridden(truth[x])

(* "Before any automated sync, four gates must pass" (README.md:565), of   *)
(* which the diff threshold gate "aborts if deleted or updated files       *)
(* exceed configured limits".                                              *)
GatesAlwaysGuardSync ==
    \A x \in Firings : AboutToSync(x) => DeletionsAllowed(truth[x])

(* "Aborts if deleted or updated files exceed configured limits.  The      *)
(* add_del_ratio can override a deletion breach" (README.md:569): it does  *)
(* not override a breach of the update limit.                              *)
UpdatesAlwaysLimited ==
    \A x \in Firings :
        AboutToSync(x) /\ x \notin cut => UpdatesAllowed(truth[x])

(* A row of the job history is "running" exactly while its step is under   *)
(* way, unless the agent died in it: no path through runStep and           *)
(* runCommand, a refusal by the engine included, forgets to complete it.   *)
HistoryFollowsJobs ==
    \A x \in Actors : at[x] # "dead" =>
        \A s \in Step :
            history[x][s] = "running" <=>
                step[x] = s /\ at[x] \in {"tracked", "running", "ended"}

(* The dashboard shows no job that is over: the active job is at a step of *)
(* its own.                                                                *)
NoStaleActiveJob ==
    activeJob # NoActor => at[activeJob] \in {"tracked", "running", "ended", "summary", "summarising"}

(* "Restore Docker containers after sync (regardless of sync outcome)"     *)
(* (pipeline.go): containers are down only while a pipeline is between     *)
(* stopping and restoring them, or because the agent died there.           *)
ContainersComeBack ==
    containers = "down" =>
        \/ \E x \in Firings : at[x] = "restore" \/ (AboutToSync(x) /\ step[x] = "sync")
                                \/ (step[x] = "sync" /\ at[x] = "ended")
        \/ crashes > 0

(* A pipeline that reports its completion has synced the array.            *)
CompletionMeansSynced ==
    \A x \in Firings :
        "maintenance_complete" \in announced[x] =>
            history[x]["sync"] \in {"success", "warning"} /\ history[x]["gate"] = "none"

(* A pipeline ends, whatever hangs: the timeouts are there "to prevent     *)
(* deadlocking the scheduler" (executor.go), so that no later firing is    *)
(* skipped forever.                                                        *)
SchedulerNotDeadlocked ==
    \A x \in Firings : jobMu = x ~> jobMu # x
=============================================================================
