------------------------------ MODULE BurninJobs ------------------------------
(***************************************************************************)
(* The burn-in agent: the HTTP handlers of internal/agent/api.go, the      *)
(* JobManager of internal/jobs/manager.go with one goroutine per job, the  *)
(* orchestrators it runs (burnin.go, preclear.go) phase by phase, and the  *)
(* job state file of persist.go, across crashes of the agent process.      *)
(*                                                                         *)
(* A slot is one POST /api/execute request and the job goroutine it        *)
(* becomes; several slots interleave at every lock the code takes.  Two    *)
(* slots may carry the same job ID, because an ID has second granularity.  *)
(***************************************************************************)
EXTENDS Naturals, FiniteSets

CONSTANTS
    Slots,      \* execute requests, each a job if it is admitted
    Devices,    \* canonical block device paths
    Commands,   \* the dispatchable commands this instance exercises
    MaxSecond,  \* bound on the clock that job IDs are made from
    MaxCrashes, \* bound on the crashes of the agent process
    NoSlot,     \* no managed job
    NoJob,      \* no job ID
    NoRecord    \* no persisted record

ASSUME CommandsAssumption == Commands \subseteq {"burnin", "preclear", "full"}
ASSUME BoundsAssumption == MaxSecond \in Nat /\ MaxCrashes \in Nat

VARIABLES
    pc,         \* how far the handler or job goroutine of a slot has come
    job,        \* the job ID generated for a slot
    pipe,       \* the orchestrator a running slot is in
    phase,      \* the phase of that orchestrator
    rec,        \* the JobRecord inside the managedJob of a slot
    cancelled,  \* slots whose context is cancelled
    alive,      \* slots with a live heartbeat and temperature poller
    jobs,       \* JobManager.jobs
    driveLocks, \* JobManager.driveLocks
    activeJobs, \* AgentAPI.activeJobs: whose cancel function an ID reaches
    aborting,   \* cancel functions a DELETE handler has looked up, not called
    states,     \* JobPersistence.states
    disk,       \* the job IDs that have a record in the job state file
    clock,      \* wall clock in seconds
    crashes     \* crashes so far

managerVars == <<jobs, driveLocks>>
apiVars == <<activeJobs, aborting>>
fileVars == <<states, disk>>
environmentVars == <<clock, crashes>>
vars == <<pc, job, pipe, phase, rec, cancelled, alive, jobs, driveLocks,
          activeJobs, aborting, states, disk, clock, crashes>>

-----------------------------------------------------------------------------
(* Types *)

JobID == [command : Commands, device : Devices, second : 0..MaxSecond]

Status == {"running", "completed", "failed", "cancelled"}
RecordPhase == {"PRE-FLIGHT", "BURNIN", "PRECLEAR", "COMPLETE"}
JobRecord == [status : Status, phase : RecordPhase,
              completedAt : BOOLEAN, burninPassed : BOOLEAN]

Phase == {"PRE-FLIGHT", "SMART_SHORT", "BADBLOCKS", "SMART_EXTENDED",
          "PARTITION", "FORMAT", "VERIFY", "COMPLETE"}

ASSUME NullsAssumption ==
    NoSlot \notin Slots /\ NoJob \notin JobID /\ NoRecord \notin JobRecord

(* A slot goes through these in order; "refused" and "dead" end it early.  *)
Stage == {"idle", "named", "admitted", "registered", "dispatched", "running",
          "finishing", "saved", "released", "done", "refused", "dead"}

NewRecordPending == [status |-> "pending", phase |-> "PRE-FLIGHT",
                     completedAt |-> FALSE, burninPassed |-> FALSE]
NewRecord == [status |-> "running", phase |-> "PRE-FLIGHT",
              completedAt |-> FALSE, burninPassed |-> FALSE]

-----------------------------------------------------------------------------
(* Helpers *)

Device(i) == job[i].device

(* The slots whose job owns its drive: from the critical section of        *)
(* StartJob that takes the drive lock to the one of finishJob that         *)
(* returns it.                                                             *)
HoldingStages == {"admitted", "registered", "dispatched", "running",
                  "finishing", "saved"}
Holding(i) == pc[i] \in HoldingStages

FirstPipe(command) == IF command = "preclear" THEN "preclear" ELSE "burnin"

(* Phases that overwrite the drive.                                        *)
Destructive == {"BADBLOCKS", "PARTITION", "FORMAT"}

NextPhase(p, ph) ==
    CASE ph = "PRE-FLIGHT" -> IF p = "burnin" THEN "SMART_SHORT" ELSE "PARTITION"
      [] ph = "SMART_SHORT" -> "BADBLOCKS"
      [] ph = "BADBLOCKS" -> "SMART_EXTENDED"
      [] ph = "PARTITION" -> "FORMAT"
      [] ph = "FORMAT" -> "VERIFY"
      [] OTHER -> "COMPLETE"

(* ctx.Err() of the context of a job.                                      *)
CtxErrIgnored(i) == FALSE
CtxErr(i) == i \in cancelled

(* Conflict detection of StartJob: is the drive of this request locked?    *)
LockedSameJob(i) == jobs[job[i]] # NoSlot
Locked(i) == driveLocks[Device(i)] # NoJob

(* The drive locks without the one of a finished job.                      *)
DriveLocksKept(i) == driveLocks
DriveLocksWithout(i) == [driveLocks EXCEPT ![Device(i)] = NoJob]

(* The assignments the job goroutine makes to its record.                  *)
WithStatus(r, s) == [r EXCEPT !.status = s]
WithPhase(r, ph) == [r EXCEPT !.phase = ph]
WithBurninPassed(r) == [r EXCEPT !.burninPassed = TRUE]
WithCompletedAt(r) == [r EXCEPT !.completedAt = TRUE]

(* The record finishJob persists.                                          *)
FinishedRecord(i) == WithPhase(WithCompletedAt(rec[i]), "COMPLETE")

(* saveState: the in-memory map always takes the record; the file is       *)
(* replaced by the whole map, or stays as it was when the write or the     *)
(* rename fails (the error is only logged).                                *)
SavedIDs == {id \in JobID : states'[id] # NoRecord}
SaveStateDropsFinished(id, record) ==
    /\ states' = [states EXCEPT ![id] =
                    IF record.completedAt THEN NoRecord ELSE record]
    /\ disk' \in {disk, SavedIDs}

SaveState(id, record) ==
    /\ states' = [states EXCEPT ![id] = record]
    /\ disk' \in {disk, SavedIDs}

-----------------------------------------------------------------------------
Init ==
    /\ pc = [i \in Slots |-> "idle"]
    /\ job = [i \in Slots |-> NoJob]
    /\ pipe = [i \in Slots |-> "burnin"]
    /\ phase = [i \in Slots |-> "PRE-FLIGHT"]
    /\ rec = [i \in Slots |-> NewRecord]
    /\ cancelled = {}
    /\ alive = {}
    /\ jobs = [id \in JobID |-> NoSlot]
    /\ driveLocks = [d \in Devices |-> NoJob]
    /\ activeJobs = [id \in JobID |-> NoSlot]
    /\ aborting = {}
    /\ states = [id \in JobID |-> NoRecord]
    /\ disk = {}
    /\ clock = 0
    /\ crashes = 0

-----------------------------------------------------------------------------
(* POST /api/execute: handleExecute and StartJob                           *)

(* StartJob up to generateJobID: the command is known, the drive resolves, *)
(* the ID is made of the command, the device and the current second.       *)
Submit(i, c, d) ==
    /\ pc[i] = "idle"
    /\ job' = [job EXCEPT ![i] = [command |-> c, device |-> d, second |-> clock]]
    /\ pc' = [pc EXCEPT ![i] = "named"]
    /\ UNCHANGED <<pipe, phase, rec, cancelled, alive, managerVars, apiVars,
                   fileVars, environmentVars>>

(* A bad signature, an unknown command, an empty target, or a target that  *)
(* does not resolve: answered with an error before any state is touched.   *)
Refuse(i) ==
    /\ pc[i] = "idle"
    /\ pc' = [pc EXCEPT ![i] = "refused"]
    /\ UNCHANGED <<job, pipe, phase, rec, cancelled, alive, managerVars,
                   apiVars, fileVars, environmentVars>>

(* StartJob under mu, drive free: the managed job is created and the drive *)
(* locked in one critical section.                                         *)
Admit(i) ==
    /\ pc[i] = "named"
    /\ ~ Locked(i)
    /\ rec' = [rec EXCEPT ![i] = NewRecord]
    /\ jobs' = [jobs EXCEPT ![job[i]] = i]
    /\ driveLocks' = [driveLocks EXCEPT ![Device(i)] = job[i]]
    /\ pc' = [pc EXCEPT ![i] = "admitted"]
    /\ UNCHANGED <<job, pipe, phase, cancelled, alive, apiVars, fileVars,
                   environmentVars>>

(* StartJob under mu, drive locked by another active job: 409 Conflict.    *)
Conflict(i) ==
    /\ pc[i] = "named"
    /\ Locked(i)
    /\ pc' = [pc EXCEPT ![i] = "refused"]
    /\ UNCHANGED <<job, pipe, phase, rec, cancelled, alive, managerVars,
                   apiVars, fileVars, environmentVars>>

(* lifecycle.RegisterJob, after mu is released.                            *)
RegisterJobOnce(i) ==
    /\ pc[i] = "admitted"
    /\ activeJobs' = [activeJobs EXCEPT ![job[i]] = IF @ = NoSlot THEN i ELSE @]
    /\ pc' = [pc EXCEPT ![i] = "registered"]
    /\ UNCHANGED <<job, pipe, phase, rec, cancelled, alive, managerVars,
                   aborting, fileVars, environmentVars>>

RegisterJob(i) ==
    /\ pc[i] = "admitted"
    /\ activeJobs' = [activeJobs EXCEPT ![job[i]] = i]
    /\ pc' = [pc EXCEPT ![i] = "registered"]
    /\ UNCHANGED <<job, pipe, phase, rec, cancelled, alive, managerVars,
                   aborting, fileVars, environmentVars>>

(* The first saveState, then the goroutine is started and 202 answered.    *)
Dispatch(i) ==
    /\ pc[i] = "registered"
    /\ SaveState(job[i], rec[i])
    /\ pc' = [pc EXCEPT ![i] = "dispatched"]
    /\ UNCHANGED <<job, pipe, phase, rec, cancelled, alive, managerVars,
                   apiVars, environmentVars>>

-----------------------------------------------------------------------------
(* The job goroutine: runJob                                               *)

(* runJob enters the orchestrator of its command; the full pipeline marks  *)
(* and saves its BURNIN phase first.                                       *)
BeginPipeline(i) ==
    /\ pc[i] = "dispatched"
    /\ pipe' = [pipe EXCEPT ![i] = FirstPipe(job[i].command)]
    /\ phase' = [phase EXCEPT ![i] = "PRE-FLIGHT"]
    /\ IF job[i].command = "full"
       THEN /\ rec' = [rec EXCEPT ![i] = WithPhase(rec[i], "BURNIN")]
            /\ SaveState(job[i], rec'[i])
       ELSE UNCHANGED <<rec, fileVars>>
    /\ pc' = [pc EXCEPT ![i] = "running"]
    /\ UNCHANGED <<job, cancelled, alive, managerVars, apiVars, environmentVars>>

(* PRE-FLIGHT has resolved the drive: heartbeat and temperature poller     *)
(* start.                                                                  *)
StartAliveHeartbeat(i) ==
    /\ pc[i] = "running"
    /\ phase[i] = "PRE-FLIGHT"
    /\ i \notin alive
    /\ alive' = alive \union {i}
    /\ UNCHANGED <<pc, job, pipe, phase, rec, cancelled, managerVars, apiVars,
                   fileVars, environmentVars>>

(* RunBurnin and RunPreclear return.  The deferred stops of RunBurnin are  *)
(* in place only once preflight has succeeded; those of RunPreclear as     *)
(* soon as the heartbeat runs.  The phase is local to the orchestrator.    *)
ReturnFromPipe(i) ==
    /\ alive' = IF pipe[i] = "burnin" /\ phase[i] = "PRE-FLIGHT"
                THEN alive ELSE alive \ {i}
    /\ phase' = [phase EXCEPT ![i] = "PRE-FLIGHT"]

(* A phase ends well and its closing ctx.Err() check finds no cancel.      *)
PhaseDone(i) ==
    /\ pc[i] = "running"
    /\ phase[i] # "COMPLETE"
    /\ phase[i] = "PRE-FLIGHT" => i \in alive
    /\ ~ CtxErr(i)
    /\ phase' = [phase EXCEPT ![i] = NextPhase(pipe[i], phase[i])]
    /\ UNCHANGED <<pc, job, pipe, rec, cancelled, alive, managerVars, apiVars,
                   fileVars, environmentVars>>

(* A phase returns an error: a tool failed, or the context is cancelled.   *)
(* The record says which, by ctx.Err().                                    *)
PhaseError(i) ==
    /\ pc[i] = "running"
    /\ phase[i] # "COMPLETE"
    /\ rec' = [rec EXCEPT ![i] =
                    WithStatus(rec[i], IF CtxErr(i) THEN "cancelled" ELSE "failed")]
    /\ pc' = [pc EXCEPT ![i] = "finishing"]
    /\ ReturnFromPipe(i)
    /\ UNCHANGED <<job, pipe, cancelled, managerVars, apiVars, fileVars,
                   environmentVars>>

(* The last pipeline of a command aggregates its verdict; no cancel is     *)
(* looked for any more.                                                    *)
Conclude(i, passed) ==
    /\ pc[i] = "running"
    /\ phase[i] = "COMPLETE"
    /\ ~ (job[i].command = "full" /\ pipe[i] = "burnin" /\ passed)
    /\ rec' = [rec EXCEPT ![i] =
                    WithStatus(rec[i], IF passed THEN "completed" ELSE "failed")]
    /\ pc' = [pc EXCEPT ![i] = "finishing"]
    /\ ReturnFromPipe(i)
    /\ UNCHANGED <<job, pipe, cancelled, managerVars, apiVars, fileVars,
                   environmentVars>>

(* The full pipeline between its halves: burn-in passed, so pre-clear      *)
(* starts, unless the job was cancelled in the meantime.                   *)
BurninPassed(i) ==
    /\ pc[i] = "running"
    /\ phase[i] = "COMPLETE"
    /\ job[i].command = "full" /\ pipe[i] = "burnin"
    /\ ReturnFromPipe(i)
    /\ IF CtxErr(i)
       THEN /\ rec' = [rec EXCEPT ![i] =
                            WithStatus(WithBurninPassed(rec[i]), "cancelled")]
            /\ pc' = [pc EXCEPT ![i] = "finishing"]
            /\ UNCHANGED <<pipe, fileVars>>
       ELSE /\ rec' = [rec EXCEPT ![i] =
                            WithPhase(WithBurninPassed(rec[i]), "PRECLEAR")]
            /\ SaveState(job[i], rec'[i])
            /\ pipe' = [pipe EXCEPT ![i] = "preclear"]
            /\ UNCHANGED pc
    /\ UNCHANGED <<job, cancelled, managerVars, apiVars, environmentVars>>

-----------------------------------------------------------------------------
(* finishJob                                                               *)

FinishSave(i) ==
    /\ pc[i] = "finishing"
    /\ rec' = [rec EXCEPT ![i] = FinishedRecord(i)]
    /\ SaveState(job[i], FinishedRecord(i))
    /\ pc' = [pc EXCEPT ![i] = "saved"]
    /\ UNCHANGED <<job, pipe, phase, cancelled, alive, managerVars, apiVars,
                   environmentVars>>

(* Under mu: the drive lock and the managed job go.                        *)
FinishRelease(i) ==
    /\ pc[i] = "saved"
    /\ driveLocks' = DriveLocksWithout(i)
    /\ jobs' = [jobs EXCEPT ![job[i]] = NoSlot]
    /\ pc' = [pc EXCEPT ![i] = "released"]
    /\ UNCHANGED <<job, pipe, phase, rec, cancelled, alive, apiVars, fileVars,
                   environmentVars>>

(* lifecycle.UnregisterJob, by ID, after mu is released.                   *)
UnregisterJob(i) ==
    /\ pc[i] = "released"
    /\ activeJobs' = [activeJobs EXCEPT ![job[i]] = NoSlot]
    /\ pc' = [pc EXCEPT ![i] = "done"]
    /\ UNCHANGED <<job, pipe, phase, rec, cancelled, alive, managerVars,
                   aborting, fileVars, environmentVars>>

-----------------------------------------------------------------------------
(* DELETE /api/jobs/{id}: handleAbortJob                                   *)

(* The cancel function is looked up under the API's lock; an unknown ID is *)
(* a 404 and changes nothing.                                              *)
AbortLookup(id) ==
    /\ activeJobs[id] # NoSlot
    /\ activeJobs[id] \notin aborting
    /\ aborting' = aborting \union {activeJobs[id]}
    /\ UNCHANGED <<pc, job, pipe, phase, rec, cancelled, alive, managerVars,
                   activeJobs, fileVars, environmentVars>>

(* ... and called after the lock is released.                              *)
AbortCancel(i) ==
    /\ i \in aborting
    /\ aborting' = aborting \ {i}
    /\ cancelled' = cancelled \union {i}
    /\ UNCHANGED <<pc, job, pipe, phase, rec, alive, managerVars, activeJobs,
                   fileVars, environmentVars>>

-----------------------------------------------------------------------------
(* Environment                                                             *)

(* The process dies (shutdown does not wait for jobs either) and starts    *)
(* again: NewJobPersistence, NewJobManager and NewAgentAPI begin empty, and*)
(* nothing reads the state file.                                           *)
CrashRestart ==
    /\ crashes < MaxCrashes
    /\ crashes' = crashes + 1
    /\ pc' = [i \in Slots |-> IF pc[i] = "idle" THEN "idle" ELSE "dead"]
    /\ job' = [i \in Slots |-> NoJob]
    /\ pipe' = [i \in Slots |-> "burnin"]
    /\ phase' = [i \in Slots |-> "PRE-FLIGHT"]
    /\ rec' = [i \in Slots |-> NewRecord]
    /\ cancelled' = {}
    /\ alive' = {}
    /\ jobs' = [id \in JobID |-> NoSlot]
    /\ driveLocks' = [d \in Devices |-> NoJob]
    /\ activeJobs' = [id \in JobID |-> NoSlot]
    /\ aborting' = {}
    /\ states' = [id \in JobID |-> NoRecord]
    /\ UNCHANGED <<disk, clock>>

Tick ==
    /\ clock < MaxSecond
    /\ clock' = clock + 1
    /\ UNCHANGED <<pc, job, pipe, phase, rec, cancelled, alive, managerVars,
                   apiVars, fileVars, crashes>>

-----------------------------------------------------------------------------
(* What a slot does on its own once it is submitted.                       *)
SlotStep(i) ==
    \/ Admit(i) \/ Conflict(i) \/ RegisterJob(i) \/ Dispatch(i)
    \/ BeginPipeline(i) \/ StartAliveHeartbeat(i)
    \/ PhaseDone(i) \/ PhaseError(i)
    \/ \E passed \in BOOLEAN : Conclude(i, passed)
    \/ BurninPassed(i)
    \/ FinishSave(i) \/ FinishRelease(i) \/ UnregisterJob(i)

Next ==
    \/ \E i \in Slots, c \in Commands, d \in Devices : Submit(i, c, d)
    \/ \E i \in Slots : Refuse(i)
    \/ \E i \in Slots : SlotStep(i)
    \/ \E id \in JobID : AbortLookup(id)
    \/ \E i \in Slots : AbortCancel(i)
    \/ CrashRestart
    \/ Tick

Spec == Init /\ [][Next]_vars

(* Goroutines are scheduled, and the disk tools a phase runs end (SIGKILL  *)
(* ends them after a cancel).  Nothing obliges clients or crashes.         *)
Fairness ==
    /\ \A i \in Slots : WF_vars(SlotStep(i))
    /\ \A i \in Slots : WF_vars(AbortCancel(i))

FairSpec == Spec /\ Fairness

-----------------------------------------------------------------------------
(* Correctness *)

(* Every variable has its type; no record is ever "pending", the status    *)
(* manager.go declares and never assigns.                                  *)
TypeOK ==
    /\ pc \in [Slots -> Stage]
    /\ job \in [Slots -> JobID \union {NoJob}]
    /\ pipe \in [Slots -> {"burnin", "preclear"}]
    /\ phase \in [Slots -> Phase]
    /\ rec \in [Slots -> JobRecord]
    /\ cancelled \in SUBSET Slots
    /\ alive \in SUBSET Slots
    /\ jobs \in [JobID -> Slots \union {NoSlot}]
    /\ driveLocks \in [Devices -> JobID \union {NoJob}]
    /\ activeJobs \in [JobID -> Slots \union {NoSlot}]
    /\ aborting \in SUBSET Slots
    /\ states \in [JobID -> JobRecord \union {NoRecord}]
    /\ disk \in SUBSET JobID
    /\ clock \in 0..MaxSecond
    /\ crashes \in 0..MaxCrashes

(* StartJob's conflict detection: no two jobs own the same drive at once,  *)
(* whatever their commands and IDs, so badblocks never overwrites a drive  *)
(* another job is partitioning.                                            *)
OneJobPerDrive ==
    \A i, k \in Slots :
        Holding(i) /\ Holding(k) /\ Device(i) = Device(k) => i = k

(* driveLocks, jobs and the running goroutines agree: a drive is locked    *)
(* exactly while a job owns it, under that job's ID, and the ID leads to   *)
(* that job.  In particular no path through runJob leaks a drive lock.     *)
LocksMatchJobs ==
    /\ \A i \in Slots : Holding(i) =>
            driveLocks[Device(i)] = job[i] /\ jobs[job[i]] = i
    /\ \A d \in Devices : driveLocks[d] # NoJob =>
            \E i \in Slots : Holding(i) /\ job[i] = driveLocks[d] /\ Device(i) = d

(* GetJobStatus: the active record first, then the persisted one.          *)
JobStatusOf(id) == IF jobs[id] # NoSlot THEN rec[jobs[id]] ELSE states[id]

(* A poll of GET /api/jobs/{id} for a job this process admitted always     *)
(* finds it: finishJob saves the record before it drops the job, so there  *)
(* is no moment at which the job is in neither place (the progress overlay *)
(* treats a 404 as the end of the job).                                    *)
StatusAlwaysKnown ==
    \A i \in Slots :
        pc[i] \notin {"idle", "named", "refused", "dead"} =>
            JobStatusOf(job[i]) # NoRecord

(* A registered job can be aborted over the API until it is finished,      *)
(* except when an earlier job with the same ID unregistered after it had   *)
(* registered: UnregisterJob deletes by ID.                                *)
AbortReachesJob ==
    \A i \in Slots :
        Holding(i) /\ pc[i] # "admitted" =>
            \/ activeJobs[job[i]] = i
            \/ \E k \in Slots \ {i} : job[k] = job[i] /\ pc[k] = "done"

(* RegisterJob "tracks an active job's cancel function so it can be        *)
(* aborted" (api.go): every job that runs can be.                          *)
RunningJobsAbortable ==
    \A i \in Slots : pc[i] = "running" => activeJobs[job[i]] = i

(* A cancelled job never enters another phase, nor the second half of the  *)
(* full pipeline, and it is reported as completed only if the cancel came  *)
(* after the last check.                                                   *)
CancelStopsJob ==
    [][\A i \in Slots :
        i \in cancelled /\ pc[i] = "running" =>
            \/ pc'[i] = "running" /\ UNCHANGED <<phase[i], pipe[i]>>
            \/ pc'[i] = "finishing" /\ rec'[i].status = "cancelled"
            \/ pc'[i] = "finishing" /\ phase[i] = "COMPLETE"
            \/ pc'[i] = "dead"]_vars

(* The job state file is for crash recovery (persist.go): a save never     *)
(* drops a record that the file holds.                                     *)
HistorySurvivesRestart ==
    [][disk \subseteq disk']_vars

(* A locked drive is eventually free again, whatever happens to the job.   *)
DriveEventuallyFree ==
    \A d \in Devices : driveLocks[d] # NoJob ~> driveLocks[d] = NoJob

(* The drive locks implement an exclusive reservation of drives.           *)
Reservation == INSTANCE DriveReservation WITH
    Owners <- Slots,
    Drives <- Devices,
    NoOwner <- NoSlot,
    owner <- [d \in Devices |-> IF driveLocks[d] = NoJob THEN NoSlot
                                ELSE jobs[driveLocks[d]]]
ImplementsReservation == Reservation!Spec
=============================================================================
