--------------------------- MODULE BurninJobsProofs ---------------------------
(***************************************************************************)
(* What TLAPS proves of the burn-in agent for any number of requests,      *)
(* drives, seconds and crashes.                                            *)
(***************************************************************************)
EXTENDS BurninJobs, TLAPS

USE NullsAssumption, BoundsAssumption, CommandsAssumption

-----------------------------------------------------------------------------
(* Types *)

LEMMA NewRecordType == NewRecord \in JobRecord
  BY DEF NewRecord, JobRecord, Status, RecordPhase

LEMMA NextPhaseType == \A p \in {"burnin", "preclear"}, ph \in Phase :
                            NextPhase(p, ph) \in Phase
  BY DEF NextPhase, Phase

(* saveState keeps the persisted state well typed.                         *)
LEMMA SaveStateType ==
  ASSUME states \in [JobID -> JobRecord \union {NoRecord}], disk \in SUBSET JobID,
         NEW id \in JobID, NEW r \in JobRecord, SaveState(id, r)
  PROVE  /\ states' \in [JobID -> JobRecord \union {NoRecord}]
         /\ disk' \in SUBSET JobID
  BY DEF SaveState, SavedIDs

(* What the job goroutine assigns to a record keeps it well typed.         *)
LEMMA RecordFields ==
  ASSUME NEW r \in JobRecord
  PROVE  /\ \A s \in Status : WithStatus(r, s) \in JobRecord
         /\ \A ph \in RecordPhase : WithPhase(r, ph) \in JobRecord
         /\ WithBurninPassed(r) \in JobRecord
         /\ WithCompletedAt(r) \in JobRecord
<1>1. ASSUME NEW s \in Status PROVE WithStatus(r, s) \in JobRecord
  BY DEF JobRecord, WithStatus
<1>2. ASSUME NEW ph \in RecordPhase PROVE WithPhase(r, ph) \in JobRecord
  BY DEF JobRecord, WithPhase
<1>3. WithBurninPassed(r) \in JobRecord
  BY DEF JobRecord, WithBurninPassed
<1>4. WithCompletedAt(r) \in JobRecord
  BY DEF JobRecord, WithCompletedAt
<1>5. QED
  BY <1>1, <1>2, <1>3, <1>4

(* A slot past "idle" carries a job ID unless a crash took it.             *)
Named(i) == pc[i] \notin {"idle", "refused", "dead"} => job[i] \in JobID

TypeInv == TypeOK /\ \A i \in Slots : Named(i)

LEMMA TypeInit == Init => TypeInv
  BY NewRecordType DEF Init, TypeInv, TypeOK, Named, Stage, Phase

LEMMA TypeStep == TypeInv /\ [Next]_vars => TypeInv'
<1> SUFFICES ASSUME TypeInv, [Next]_vars PROVE TypeInv'
  OBVIOUS
<1> USE DEF TypeInv, TypeOK, Named, Stage
<1>1. ASSUME NEW i \in Slots, NEW c \in Commands, NEW d \in Devices, Submit(i, c, d)
      PROVE  TypeInv'
  BY <1>1 DEF Submit, JobID, managerVars, apiVars, fileVars, environmentVars
<1>2. ASSUME NEW i \in Slots, Refuse(i) PROVE TypeInv'
  BY <1>2 DEF Refuse, managerVars, apiVars, fileVars, environmentVars
<1>3. ASSUME NEW i \in Slots, Admit(i) PROVE TypeInv'
  <2>1. Device(i) \in Devices /\ job[i] \in JobID
    BY <1>3 DEF Admit, Device, JobID
  <2>2. QED
    BY <1>3, <2>1, NewRecordType DEF Admit, apiVars, fileVars, environmentVars
<1>4. ASSUME NEW i \in Slots, Conflict(i) PROVE TypeInv'
  BY <1>4 DEF Conflict, managerVars, apiVars, fileVars, environmentVars
<1>5. ASSUME NEW i \in Slots, RegisterJob(i) PROVE TypeInv'
  BY <1>5 DEF RegisterJob, managerVars, fileVars, environmentVars
<1>6. ASSUME NEW i \in Slots, Dispatch(i) PROVE TypeInv'
  <2>1. job[i] \in JobID /\ rec[i] \in JobRecord
    BY <1>6 DEF Dispatch
  <2>2. states' \in [JobID -> JobRecord \union {NoRecord}] /\ disk' \in SUBSET JobID
    BY <1>6, <2>1, SaveStateType DEF Dispatch
  <2>3. QED
    BY <1>6, <2>2 DEF Dispatch, managerVars, apiVars, environmentVars
<1>7. ASSUME NEW i \in Slots, BeginPipeline(i) PROVE TypeInv'
  <2>1. job[i] \in JobID
    BY <1>7 DEF BeginPipeline
  <2>2. rec' \in [Slots -> JobRecord]
    <3>1. WithPhase(rec[i], "BURNIN") \in JobRecord
      BY RecordFields DEF RecordPhase
    <3>2. CASE job[i].command = "full"
      BY <1>7, <3>1, <3>2 DEF BeginPipeline
    <3>3. CASE job[i].command # "full"
      BY <1>7, <3>3 DEF BeginPipeline
    <3>4. QED
      BY <3>2, <3>3
  <2>3. states' \in [JobID -> JobRecord \union {NoRecord}] /\ disk' \in SUBSET JobID
    BY <1>7, <2>1, <2>2, SaveStateType DEF BeginPipeline, fileVars
  <2>4. QED
    BY <1>7, <2>2, <2>3
       DEF BeginPipeline, FirstPipe, Phase, managerVars, apiVars, environmentVars
<1>8. ASSUME NEW i \in Slots, StartAliveHeartbeat(i) PROVE TypeInv'
  BY <1>8 DEF StartAliveHeartbeat, managerVars, apiVars, fileVars, environmentVars
<1>9. ASSUME NEW i \in Slots, PhaseDone(i) PROVE TypeInv'
  <2>1. NextPhase(pipe[i], phase[i]) \in Phase
    BY NextPhaseType
  <2>2. QED
    BY <1>9, <2>1 DEF PhaseDone, managerVars, apiVars, fileVars, environmentVars
<1>10. ASSUME NEW i \in Slots, PhaseError(i) PROVE TypeInv'
  <2>1. rec' \in [Slots -> JobRecord]
    <3>1. /\ WithStatus(rec[i], "cancelled") \in JobRecord
          /\ WithStatus(rec[i], "failed") \in JobRecord
      BY RecordFields DEF Status
    <3>2. QED
      BY <1>10, <3>1 DEF PhaseError
  <2>2. QED
    BY <1>10, <2>1
       DEF PhaseError, ReturnFromPipe, Phase, managerVars, apiVars, fileVars,
           environmentVars
<1>11. ASSUME NEW i \in Slots, NEW passed \in BOOLEAN, Conclude(i, passed)
       PROVE  TypeInv'
  <2>1. rec' \in [Slots -> JobRecord]
    <3>1. /\ WithStatus(rec[i], "completed") \in JobRecord
          /\ WithStatus(rec[i], "failed") \in JobRecord
      BY RecordFields DEF Status
    <3>2. QED
      BY <1>11, <3>1 DEF Conclude
  <2>2. QED
    BY <1>11, <2>1
       DEF Conclude, ReturnFromPipe, Phase, managerVars, apiVars, fileVars,
           environmentVars
<1>12. ASSUME NEW i \in Slots, BurninPassed(i) PROVE TypeInv'
  <2>1. job[i] \in JobID
    BY <1>12 DEF BurninPassed
  <2>2. rec' \in [Slots -> JobRecord]
    <3>1. /\ WithStatus(WithBurninPassed(rec[i]), "cancelled") \in JobRecord
          /\ WithPhase(WithBurninPassed(rec[i]), "PRECLEAR") \in JobRecord
      BY RecordFields DEF Status, RecordPhase
    <3>2. CASE CtxErr(i)
      BY <1>12, <3>1, <3>2 DEF BurninPassed
    <3>3. CASE ~ CtxErr(i)
      BY <1>12, <3>1, <3>3 DEF BurninPassed
    <3>4. QED
      BY <3>2, <3>3
  <2>3. states' \in [JobID -> JobRecord \union {NoRecord}] /\ disk' \in SUBSET JobID
    BY <1>12, <2>1, <2>2, SaveStateType DEF BurninPassed, fileVars
  <2>4. QED
    BY <1>12, <2>2, <2>3
       DEF BurninPassed, ReturnFromPipe, Phase, managerVars, apiVars, environmentVars
<1>13. ASSUME NEW i \in Slots, FinishSave(i) PROVE TypeInv'
  <2>1. job[i] \in JobID
    BY <1>13 DEF FinishSave
  <2>2. FinishedRecord(i) \in JobRecord
    BY RecordFields DEF FinishedRecord, RecordPhase
  <2>3. states' \in [JobID -> JobRecord \union {NoRecord}] /\ disk' \in SUBSET JobID
    BY <1>13, <2>1, <2>2, SaveStateType DEF FinishSave
  <2>4. QED
    BY <1>13, <2>2, <2>3 DEF FinishSave, managerVars, apiVars, environmentVars
<1>14. ASSUME NEW i \in Slots, FinishRelease(i) PROVE TypeInv'
  BY <1>14 DEF FinishRelease, DriveLocksWithout, apiVars, fileVars, environmentVars
<1>15. ASSUME NEW i \in Slots, UnregisterJob(i) PROVE TypeInv'
  BY <1>15 DEF UnregisterJob, managerVars, fileVars, environmentVars
<1>16. ASSUME NEW id \in JobID, AbortLookup(id) PROVE TypeInv'
  BY <1>16 DEF AbortLookup, managerVars, fileVars, environmentVars
<1>17. ASSUME NEW i \in Slots, AbortCancel(i) PROVE TypeInv'
  BY <1>17 DEF AbortCancel, managerVars, fileVars, environmentVars
<1>18. CASE CrashRestart
  <2>1. /\ pc' \in [Slots -> {"idle", "dead"}]
        /\ pipe' \in [Slots -> {"burnin", "preclear"}]
        /\ phase' \in [Slots -> Phase]
    BY <1>18 DEF CrashRestart, Phase
  <2>2. /\ job' \in [Slots -> JobID \union {NoJob}]
        /\ rec' \in [Slots -> JobRecord]
        /\ states' \in [JobID -> JobRecord \union {NoRecord}]
    BY <1>18, NewRecordType DEF CrashRestart
  <2>3. /\ jobs' \in [JobID -> Slots \union {NoSlot}]
        /\ driveLocks' \in [Devices -> JobID \union {NoJob}]
        /\ activeJobs' \in [JobID -> Slots \union {NoSlot}]
    BY <1>18 DEF CrashRestart
  <2>4. /\ cancelled' = {} /\ alive' = {} /\ aborting' = {}
        /\ crashes' \in 0 .. MaxCrashes /\ UNCHANGED <<disk, clock>>
    BY <1>18 DEF CrashRestart
  <2>5. QED
    BY <2>1, <2>2, <2>3, <2>4
<1>19. CASE Tick
  BY <1>19 DEF Tick, managerVars, apiVars, fileVars
<1>20. CASE UNCHANGED vars
  BY <1>20 DEF vars
<1>21. QED
  BY <1>1, <1>2, <1>3, <1>4, <1>5, <1>6, <1>7, <1>8, <1>9, <1>10, <1>11, <1>12,
     <1>13, <1>14, <1>15, <1>16, <1>17, <1>18, <1>19, <1>20 DEF Next, SlotStep

LEMMA TypeInvariant == Spec => []TypeInv
  BY TypeInit, TypeStep, PTL DEF Spec

(* No reachable state of the agent is ill typed; in particular a job       *)
(* record is always running or in one of its three final states.           *)
THEOREM TypeCorrect == Spec => []TypeOK
<1>1. TypeInv => TypeOK
  BY DEF TypeInv
<1>2. QED
  BY <1>1, TypeInvariant, PTL

-----------------------------------------------------------------------------
(* The drive locks *)

(* What one step can do to the stages, IDs, drive locks and managed jobs:  *)
(* a slot gets its ID, takes the lock of its free drive, returns it, or    *)
(* moves between two stages on the same side of the lock.                  *)
TakesLock(i) ==
    /\ pc[i] = "named"
    /\ driveLocks[Device(i)] = NoJob
    /\ pc' = [pc EXCEPT ![i] = "admitted"]
    /\ jobs' = [jobs EXCEPT ![job[i]] = i]
    /\ driveLocks' = [driveLocks EXCEPT ![Device(i)] = job[i]]
    /\ job' = job

ReturnsLock(i) ==
    /\ pc[i] = "saved"
    /\ pc' = [pc EXCEPT ![i] = "released"]
    /\ jobs' = [jobs EXCEPT ![job[i]] = NoSlot]
    /\ driveLocks' = [driveLocks EXCEPT ![Device(i)] = NoJob]
    /\ job' = job

KeepsLock(i) ==
    /\ UNCHANGED <<jobs, driveLocks>>
    /\ \/ /\ pc[i] = "idle"
          /\ \E id \in JobID : job' = [job EXCEPT ![i] = id]
          /\ pc' = [pc EXCEPT ![i] = "named"]
       \/ /\ job' = job
          /\ \E to \in Stage :
                /\ to \in HoldingStages <=> pc[i] \in HoldingStages
                /\ pc' = [pc EXCEPT ![i] = to]

LoseAll ==
    /\ \A i \in Slots : pc'[i] \in {"idle", "dead"}
    /\ jobs' = [id \in JobID |-> NoSlot]
    /\ driveLocks' = [d \in Devices |-> NoJob]

LEMMA LockStep ==
  ASSUME TypeInv, [Next]_vars
  PROVE  \/ \E i \in Slots : TakesLock(i) \/ ReturnsLock(i) \/ KeepsLock(i)
         \/ LoseAll
         \/ UNCHANGED <<pc, job, jobs, driveLocks>>
<1> USE DEF TypeInv, TypeOK, Named
<1>1. ASSUME NEW i \in Slots, NEW c \in Commands, NEW d \in Devices, Submit(i, c, d)
      PROVE  KeepsLock(i)
  BY <1>1 DEF Submit, KeepsLock, JobID, managerVars
<1>2. ASSUME NEW i \in Slots, Admit(i) PROVE TakesLock(i)
  BY <1>2 DEF Admit, TakesLock, Locked
<1>3. ASSUME NEW i \in Slots, FinishRelease(i) PROVE ReturnsLock(i)
  BY <1>3 DEF FinishRelease, ReturnsLock, DriveLocksWithout
<1>4. ASSUME NEW i \in Slots,
             Refuse(i) \/ Conflict(i) \/ RegisterJob(i) \/ Dispatch(i) \/ UnregisterJob(i)
      PROVE  KeepsLock(i)
  BY <1>4 DEF Refuse, Conflict, RegisterJob, Dispatch, UnregisterJob, KeepsLock,
              HoldingStages, Stage, managerVars
<1>5. ASSUME NEW i \in Slots,
             BeginPipeline(i) \/ StartAliveHeartbeat(i) \/ PhaseDone(i)
      PROVE  KeepsLock(i) \/ UNCHANGED <<pc, job, jobs, driveLocks>>
  BY <1>5 DEF BeginPipeline, StartAliveHeartbeat, PhaseDone, KeepsLock,
              HoldingStages, Stage, managerVars
<1>6. ASSUME NEW i \in Slots,
             PhaseError(i) \/ (\E passed \in BOOLEAN : Conclude(i, passed))
      PROVE  KeepsLock(i)
  BY <1>6 DEF PhaseError, Conclude, KeepsLock, HoldingStages, Stage, managerVars
<1>7. ASSUME NEW i \in Slots, BurninPassed(i)
      PROVE  KeepsLock(i) \/ UNCHANGED <<pc, job, jobs, driveLocks>>
  BY <1>7 DEF BurninPassed, KeepsLock, HoldingStages, Stage, managerVars
<1>8. ASSUME NEW i \in Slots, FinishSave(i) PROVE KeepsLock(i)
  BY <1>8 DEF FinishSave, KeepsLock, HoldingStages, Stage, managerVars
<1>9. ASSUME NEW id \in JobID, AbortLookup(id)
      PROVE  UNCHANGED <<pc, job, jobs, driveLocks>>
  BY <1>9 DEF AbortLookup, managerVars
<1>10. ASSUME NEW i \in Slots, AbortCancel(i)
       PROVE  UNCHANGED <<pc, job, jobs, driveLocks>>
  BY <1>10 DEF AbortCancel, managerVars
<1>11. CASE CrashRestart
  BY <1>11 DEF CrashRestart, LoseAll
<1>12. CASE Tick
  BY <1>12 DEF Tick, managerVars
<1>13. CASE UNCHANGED vars
  BY <1>13 DEF vars
<1>14. QED
  BY <1>1, <1>2, <1>3, <1>4, <1>5, <1>6, <1>7, <1>8, <1>9, <1>10, <1>11, <1>12,
     <1>13 DEF Next, SlotStep

(* Two jobs that both own the drive named by their lock are the same job.  *)
LEMMA LocksExclude ==
  ASSUME LocksMatchJobs PROVE OneJobPerDrive
  BY DEF LocksMatchJobs, OneJobPerDrive

LEMMA LocksInit == Init => LocksMatchJobs
  BY DEF Init, LocksMatchJobs, Holding, HoldingStages

LEMMA LocksNext == TypeInv /\ LocksMatchJobs /\ [Next]_vars => LocksMatchJobs'
<1> SUFFICES ASSUME TypeInv, LocksMatchJobs, [Next]_vars PROVE LocksMatchJobs'
  OBVIOUS
<1> OneJobPerDrive
  BY LocksExclude
<1>0. \A i \in Slots : Holding(i) \/ pc[i] = "named" =>
          /\ job[i] \in JobID /\ Device(i) \in Devices
  BY DEF TypeInv, TypeOK, Named, Holding, HoldingStages, JobID, Device
<1>1. ASSUME NEW i \in Slots, TakesLock(i) PROVE LocksMatchJobs'
  <2>1. \A k \in Slots : Holding(k)' <=> k = i \/ Holding(k)
    BY <1>1 DEF TakesLock, TypeInv, TypeOK, Holding, HoldingStages
  <2>2. \A k \in Slots \ {i} : Holding(k) => Device(k) # Device(i) /\ job[k] # job[i]
    BY <1>1, <1>0 DEF TakesLock, LocksMatchJobs, Device
  <2>3. \A k \in Slots : Holding(k)' =>
            driveLocks'[Device(k)'] = job'[k] /\ jobs'[job'[k]] = k
    BY <1>1, <1>0, <2>1, <2>2 DEF TakesLock, LocksMatchJobs, TypeInv, TypeOK, Device
  <2>4. \A d \in Devices : driveLocks'[d] # NoJob =>
            \E k \in Slots : Holding(k)' /\ job'[k] = driveLocks'[d] /\ Device(k)' = d
    BY <1>1, <1>0, <2>1 DEF TakesLock, LocksMatchJobs, TypeInv, TypeOK, Device
  <2>5. QED
    BY <2>3, <2>4 DEF LocksMatchJobs
<1>2. ASSUME NEW i \in Slots, ReturnsLock(i) PROVE LocksMatchJobs'
  <2>0. Holding(i)
    BY <1>2 DEF ReturnsLock, Holding, HoldingStages
  <2>1. \A k \in Slots : Holding(k)' <=> k # i /\ Holding(k)
    BY <1>2 DEF ReturnsLock, TypeInv, TypeOK, Holding, HoldingStages
  <2>2. \A k \in Slots \ {i} : Holding(k) => Device(k) # Device(i) /\ job[k] # job[i]
    BY <2>0 DEF OneJobPerDrive, Device
  <2>3. \A k \in Slots : Holding(k)' =>
            driveLocks'[Device(k)'] = job'[k] /\ jobs'[job'[k]] = k
    BY <1>2, <1>0, <2>0, <2>1, <2>2 DEF ReturnsLock, LocksMatchJobs, TypeInv, TypeOK, Device
  <2>4. \A d \in Devices : driveLocks'[d] # NoJob =>
            \E k \in Slots : Holding(k)' /\ job'[k] = driveLocks'[d] /\ Device(k)' = d
    BY <1>2, <1>0, <2>0, <2>1 DEF ReturnsLock, LocksMatchJobs, TypeInv, TypeOK, Device
  <2>5. QED
    BY <2>3, <2>4 DEF LocksMatchJobs
<1>3. ASSUME NEW i \in Slots, KeepsLock(i) PROVE LocksMatchJobs'
  <2>1. \A k \in Slots : Holding(k)' <=> Holding(k)
    BY <1>3 DEF KeepsLock, TypeInv, TypeOK, Holding, HoldingStages, Stage
  <2>2. \A k \in Slots : Holding(k) => job'[k] = job[k]
    BY <1>3 DEF KeepsLock, TypeInv, TypeOK, Holding, HoldingStages
  <2>3. QED
    BY <1>3, <2>1, <2>2 DEF KeepsLock, LocksMatchJobs, Device
<1>4. CASE LoseAll
  BY <1>4, <1>0 DEF LoseAll, LocksMatchJobs, Holding, HoldingStages, TypeInv, TypeOK
<1>5. CASE UNCHANGED <<pc, job, jobs, driveLocks>>
  BY <1>5 DEF LocksMatchJobs, Holding, Device
<1>6. QED
  BY <1>1, <1>2, <1>3, <1>4, <1>5, LockStep

(* The lock table, the job table and the running goroutines always agree:  *)
(* finishJob returns exactly the lock its job took, and no path leaks one. *)
THEOREM LocksCorrect == Spec => []LocksMatchJobs
<1>1. Init => TypeInv /\ LocksMatchJobs
  BY TypeInit, LocksInit
<1>2. TypeInv /\ LocksMatchJobs /\ [Next]_vars => (TypeInv /\ LocksMatchJobs)'
  BY TypeStep, LocksNext
<1>3. QED
  BY <1>1, <1>2, PTL DEF Spec

(* No two jobs ever own the same drive, for any number of requests.        *)
THEOREM DriveExclusion == Spec => []OneJobPerDrive
  BY LocksCorrect, LocksExclude, PTL

-----------------------------------------------------------------------------
(* The drive locks implement DriveReservation                              *)

(* The slot a drive is reserved by: the refinement mapping.                *)
OwnerOf == [d \in Devices |-> IF driveLocks[d] = NoJob THEN NoSlot
                              ELSE jobs[driveLocks[d]]]

(* A drive's owner is the slot whose job holds it.                         *)
LEMMA OwnerHolds ==
  ASSUME TypeInv, LocksMatchJobs
  PROVE  /\ \A d \in Devices, i \in Slots :
                OwnerOf[d] = i <=> Holding(i) /\ Device(i) = d
         /\ \A d \in Devices : OwnerOf[d] = NoSlot <=> driveLocks[d] = NoJob
<1>1. ASSUME NEW d \in Devices, driveLocks[d] # NoJob
      PROVE  \E i \in Slots : Holding(i) /\ Device(i) = d /\ OwnerOf[d] = i
  BY <1>1 DEF LocksMatchJobs, OwnerOf
<1>2. ASSUME NEW i \in Slots, Holding(i)
      PROVE  Device(i) \in Devices /\ driveLocks[Device(i)] # NoJob /\ OwnerOf[Device(i)] = i
  BY <1>2 DEF LocksMatchJobs, OwnerOf, TypeInv, TypeOK, Named, Holding, HoldingStages,
              JobID, Device
<1>3. \A d \in Devices : driveLocks[d] = NoJob => OwnerOf[d] = NoSlot
  BY DEF OwnerOf
<1>4. QED
  BY <1>1, <1>2, <1>3

LEMMA ReservationInit == Init => Reservation!Init
  BY DEF Init, Reservation!Init

LEMMA ReservationStep ==
  TypeInv /\ LocksMatchJobs /\ TypeInv' /\ LocksMatchJobs' /\ [Next]_vars
      => [Reservation!Next]_OwnerOf
<1> SUFFICES ASSUME TypeInv, LocksMatchJobs, TypeInv', LocksMatchJobs', [Next]_vars
             PROVE  Reservation!Next \/ OwnerOf' = OwnerOf
  OBVIOUS
<1>1. ASSUME NEW i \in Slots, NEW d \in Devices, d = Device(i), TakesLock(i)
     PROVE  Reservation!Reserve(i, d)
  <2>1. Device(i) \in Devices /\ job[i] \in JobID /\ ~ Holding(i)
    BY <1>1 DEF TakesLock, TypeInv, TypeOK, Named, Holding, HoldingStages, JobID, Device
  <2>2. OwnerOf[Device(i)] = NoSlot /\ \A e \in Devices : OwnerOf[e] # i
    BY <1>1, <2>1, OwnerHolds DEF TakesLock
  <2>3. ASSUME NEW e \in Devices, e # Device(i) PROVE OwnerOf'[e] = OwnerOf[e]
    <3>1. driveLocks'[e] = driveLocks[e]
      BY <1>1, <2>1, <2>3 DEF TakesLock, TypeInv, TypeOK
    <3>2. CASE driveLocks[e] = NoJob
      BY <3>1, <3>2 DEF OwnerOf
    <3>3. CASE driveLocks[e] # NoJob
      <4>1. driveLocks[e] \in JobID /\ driveLocks[e] # job[i]
        BY <2>3, <3>3 DEF LocksMatchJobs, Device, TypeInv, TypeOK
      <4>2. jobs'[driveLocks[e]] = jobs[driveLocks[e]]
        BY <1>1, <4>1 DEF TakesLock, TypeInv, TypeOK
      <4>3. QED
        BY <3>1, <4>2 DEF OwnerOf
    <3>4. QED
      BY <3>2, <3>3
  <2>4. OwnerOf'[Device(i)] = i
    BY <1>1, <2>1 DEF TakesLock, OwnerOf, TypeInv, TypeOK
  <2>5. OwnerOf' = [OwnerOf EXCEPT ![Device(i)] = i]
    BY <2>1, <2>3, <2>4 DEF OwnerOf
  <2>6. QED
    BY <1>1, <2>2, <2>5 DEF Reservation!Reserve, OwnerOf
<1>2. ASSUME NEW i \in Slots, NEW d \in Devices, d = Device(i), ReturnsLock(i)
     PROVE  Reservation!Return(i, d)
  <2>1. Device(i) \in Devices /\ job[i] \in JobID /\ Holding(i)
    BY <1>2 DEF ReturnsLock, TypeInv, TypeOK, Named, Holding, HoldingStages, JobID, Device
  <2>2. OwnerOf[Device(i)] = i
    BY <2>1, OwnerHolds
  <2>3. ASSUME NEW e \in Devices, e # Device(i) PROVE OwnerOf'[e] = OwnerOf[e]
    <3>1. driveLocks'[e] = driveLocks[e]
      BY <1>2, <2>1, <2>3 DEF ReturnsLock, TypeInv, TypeOK
    <3>2. CASE driveLocks[e] = NoJob
      BY <3>1, <3>2 DEF OwnerOf
    <3>3. CASE driveLocks[e] # NoJob
      <4>1. driveLocks[e] \in JobID /\ driveLocks[e] # job[i]
        BY <2>3, <3>3 DEF LocksMatchJobs, Device, TypeInv, TypeOK
      <4>2. jobs'[driveLocks[e]] = jobs[driveLocks[e]]
        BY <1>2, <4>1 DEF ReturnsLock, TypeInv, TypeOK
      <4>3. QED
        BY <3>1, <4>2 DEF OwnerOf
    <3>4. QED
      BY <3>2, <3>3
  <2>4. OwnerOf'[Device(i)] = NoSlot
    BY <1>2, <2>1 DEF ReturnsLock, OwnerOf, TypeInv, TypeOK
  <2>5. OwnerOf' = [OwnerOf EXCEPT ![Device(i)] = NoSlot]
    BY <2>1, <2>3, <2>4 DEF OwnerOf
  <2>6. QED
    BY <1>2, <2>2, <2>5 DEF Reservation!Return, OwnerOf
<1>3. ASSUME NEW i \in Slots, KeepsLock(i) PROVE OwnerOf' = OwnerOf
  BY <1>3 DEF KeepsLock, OwnerOf
<1>4. CASE LoseAll
  <2>1. Reservation!Restart
    BY <1>4 DEF LoseAll, OwnerOf, Reservation!Restart
  <2>2. QED
    BY <2>1 DEF Reservation!Next
<1>5. CASE UNCHANGED <<pc, job, jobs, driveLocks>>
  BY <1>5 DEF OwnerOf
<1>6. ASSUME NEW i \in Slots, TakesLock(i) \/ ReturnsLock(i) PROVE Reservation!Next
  <2>1. PICK d \in Devices : d = Device(i)
    BY <1>6 DEF TakesLock, ReturnsLock, TypeInv, TypeOK, Named, JobID, Device
  <2>2. Reservation!Reserve(i, d) \/ Reservation!Return(i, d)
    BY <1>1, <1>2, <1>6, <2>1
  <2>3. QED
    BY <2>2 DEF Reservation!Next
<1>7. QED
  BY <1>3, <1>4, <1>5, <1>6, LockStep

(* Every behaviour of the agent is one of an exclusive reservation table:  *)
(* StartJob reserves, finishJob returns, a restart clears, nothing else.   *)
THEOREM LocksImplementReservation == Spec => ImplementsReservation
<1>1. Init => TypeInv /\ LocksMatchJobs
  BY TypeInit, LocksInit
<1>2. TypeInv /\ LocksMatchJobs /\ [Next]_vars => (TypeInv /\ LocksMatchJobs)'
  BY TypeStep, LocksNext
<1>3. TypeInv /\ LocksMatchJobs /\ (TypeInv /\ LocksMatchJobs)' /\ [Next]_vars
          => [Reservation!Next]_OwnerOf
  BY ReservationStep
<1>4. QED
  BY <1>1, <1>2, <1>3, ReservationInit, PTL
     DEF Spec, ImplementsReservation, Reservation!Spec, OwnerOf

-----------------------------------------------------------------------------
(* The status of a job                                                     *)

(* finishJob has saved the record by the time it drops the job.            *)
SavedStays ==
    \A i \in Slots :
        pc[i] \in {"saved", "released", "done"} => states[job[i]] # NoRecord

StatusInv == TypeInv /\ LocksMatchJobs /\ SavedStays

(* Nothing but the end of the process takes a record out of the map that   *)
(* GetJobStatus falls back on.                                             *)
LEMMA RecordsStay ==
  ASSUME TypeInv, [Next]_vars, ~ CrashRestart
  PROVE  \A id \in JobID : states[id] # NoRecord => states'[id] # NoRecord
<1> USE DEF TypeInv, TypeOK, Named
<1>1. ASSUME NEW i \in Slots, NEW r \in JobRecord, SaveState(job[i], r)
      PROVE  \A id \in JobID : states[id] # NoRecord => states'[id] # NoRecord
  BY <1>1 DEF SaveState
<1>2. ASSUME NEW i \in Slots, Dispatch(i)
      PROVE  \A id \in JobID : states[id] # NoRecord => states'[id] # NoRecord
  BY <1>1, <1>2 DEF Dispatch
<1>3. ASSUME NEW i \in Slots, BeginPipeline(i)
      PROVE  \A id \in JobID : states[id] # NoRecord => states'[id] # NoRecord
  <2>1. rec'[i] \in JobRecord
    BY <1>3, TypeStep
  <2>2. QED
    BY <1>1, <1>3, <2>1 DEF BeginPipeline, fileVars
<1>4. ASSUME NEW i \in Slots, BurninPassed(i)
      PROVE  \A id \in JobID : states[id] # NoRecord => states'[id] # NoRecord
  <2>1. rec'[i] \in JobRecord
    BY <1>4, TypeStep
  <2>2. QED
    BY <1>1, <1>4, <2>1 DEF BurninPassed, fileVars
<1>5. ASSUME NEW i \in Slots, FinishSave(i)
      PROVE  \A id \in JobID : states[id] # NoRecord => states'[id] # NoRecord
  <2>1. FinishedRecord(i) \in JobRecord
    BY RecordFields DEF FinishedRecord, RecordPhase
  <2>2. QED
    BY <1>1, <1>5, <2>1 DEF FinishSave
<1>6. ASSUME UNCHANGED fileVars
      PROVE  \A id \in JobID : states[id] # NoRecord => states'[id] # NoRecord
  BY <1>6 DEF fileVars
<1>7. ASSUME NEW i \in Slots,
             Refuse(i) \/ Admit(i) \/ Conflict(i) \/ RegisterJob(i)
             \/ StartAliveHeartbeat(i) \/ PhaseDone(i) \/ PhaseError(i)
             \/ (\E passed \in BOOLEAN : Conclude(i, passed))
             \/ (\E c \in Commands, d \in Devices : Submit(i, c, d))
             \/ FinishRelease(i) \/ UnregisterJob(i) \/ AbortCancel(i)
      PROVE  UNCHANGED fileVars
  BY <1>7 DEF Refuse, Admit, Conflict, RegisterJob, StartAliveHeartbeat, PhaseDone,
              PhaseError, Conclude, Submit, FinishRelease, UnregisterJob, AbortCancel,
              fileVars
<1>8. ASSUME (\E id \in JobID : AbortLookup(id)) \/ Tick \/ UNCHANGED vars
      PROVE  UNCHANGED fileVars
  BY <1>8 DEF AbortLookup, Tick, vars, fileVars
<1>9. QED
  BY <1>2, <1>3, <1>4, <1>5, <1>6, <1>7, <1>8 DEF Next, SlotStep

(* A slot is among the finishing stages only if finishJob has saved its    *)
(* record in this step, or it was among them before.                       *)
LEMMA SavedStep ==
  ASSUME TypeInv, [Next]_vars, NEW i \in Slots,
         pc'[i] \in {"saved", "released", "done"}
  PROVE  /\ ~ CrashRestart
         /\ job'[i] = job[i] /\ job[i] \in JobID
         /\ pc[i] \in {"saved", "released", "done"} \/ states'[job[i]] # NoRecord
<1> USE DEF TypeInv, TypeOK, Named, Stage
<1>1. ~ CrashRestart
  BY DEF CrashRestart
<1>2. CASE FinishSave(i)
  <2>1. FinishedRecord(i) \in JobRecord /\ job[i] \in JobID
    BY <1>2, RecordFields DEF FinishSave, FinishedRecord, RecordPhase
  <2>2. QED
    BY <1>1, <1>2, <2>1 DEF FinishSave, SaveState
<1>3. CASE UNCHANGED <<pc, job>>
  BY <1>1, <1>3
<1>5. ASSUME NEW k \in Slots, NEW c \in Commands, NEW d \in Devices, Submit(k, c, d)
      PROVE  pc[i] \in {"saved", "released", "done"} /\ job'[i] = job[i] /\ job[i] \in JobID
  BY <1>5 DEF Submit
<1>6. ASSUME NEW k \in Slots,
             Refuse(k) \/ Admit(k) \/ Conflict(k) \/ RegisterJob(k) \/ Dispatch(k)
             \/ BeginPipeline(k) \/ PhaseError(k)
             \/ (\E passed \in BOOLEAN : Conclude(k, passed))
      PROVE  pc[i] \in {"saved", "released", "done"} /\ job'[i] = job[i] /\ job[i] \in JobID
  BY <1>6 DEF Refuse, Admit, Conflict, RegisterJob, Dispatch, BeginPipeline, PhaseError,
              Conclude
<1>7. ASSUME NEW k \in Slots,
             StartAliveHeartbeat(k) \/ PhaseDone(k) \/ BurninPassed(k) \/ AbortCancel(k)
      PROVE  pc[i] \in {"saved", "released", "done"} /\ job'[i] = job[i] /\ job[i] \in JobID
  BY <1>7 DEF StartAliveHeartbeat, PhaseDone, BurninPassed, AbortCancel
<1>8. ASSUME NEW k \in Slots, FinishSave(k), k # i
      PROVE  pc[i] \in {"saved", "released", "done"} /\ job'[i] = job[i] /\ job[i] \in JobID
  BY <1>8 DEF FinishSave
<1>9. ASSUME NEW k \in Slots, FinishRelease(k) \/ UnregisterJob(k)
      PROVE  pc[i] \in {"saved", "released", "done"} /\ job'[i] = job[i] /\ job[i] \in JobID
  BY <1>9 DEF FinishRelease, UnregisterJob
<1>10. ASSUME (\E id \in JobID : AbortLookup(id)) \/ Tick \/ UNCHANGED vars
       PROVE  UNCHANGED <<pc, job>>
  BY <1>10 DEF AbortLookup, Tick, vars
<1>11. QED
  BY <1>1, <1>2, <1>3, <1>5, <1>6, <1>7, <1>8, <1>9, <1>10 DEF Next, SlotStep

LEMMA StatusStep == StatusInv /\ [Next]_vars => StatusInv'
<1> SUFFICES ASSUME StatusInv, [Next]_vars PROVE SavedStays'
  BY TypeStep, LocksNext DEF StatusInv
<1> SUFFICES ASSUME NEW i \in Slots, pc'[i] \in {"saved", "released", "done"}
             PROVE  states'[job'[i]] # NoRecord
  BY DEF SavedStays
<1>1. QED
  BY SavedStep, RecordsStay DEF StatusInv, SavedStays

(* A poll for a job this process has admitted finds its record, in the job *)
(* table or among the saved ones, whatever else happens: finishJob saves   *)
(* before it drops the job.                                                *)
THEOREM StatusKnown == Spec => []StatusAlwaysKnown
<1>1. Init => StatusInv
  BY TypeInit, LocksInit DEF StatusInv, SavedStays, Init
<1>2. StatusInv => StatusAlwaysKnown
  <2> SUFFICES ASSUME StatusInv, NEW i \in Slots,
                      pc[i] \notin {"idle", "named", "refused", "dead"}
               PROVE  JobStatusOf(job[i]) # NoRecord
    BY DEF StatusAlwaysKnown
  <2> USE DEF StatusInv, TypeInv, TypeOK, Named, Stage
  <2>1. CASE jobs[job[i]] # NoSlot
    BY <2>1 DEF JobStatusOf
  <2>2. CASE jobs[job[i]] = NoSlot
    <3>1. ~ Holding(i)
      BY <2>2 DEF LocksMatchJobs
    <3>2. pc[i] \in {"released", "done"}
      BY <3>1 DEF Holding, HoldingStages
    <3>3. QED
      BY <2>2, <3>2 DEF SavedStays, JobStatusOf
  <2>3. QED
    BY <2>1, <2>2
<1>3. QED
  BY <1>1, <1>2, StatusStep, PTL DEF Spec

-----------------------------------------------------------------------------
(* Aborting a job                                                          *)

(* A step other than those on the table of cancel functions leaves the     *)
(* finished slots, and those that can be aborted already, where they are.  *)
LEMMA AbortableBefore ==
  ASSUME TypeInv, [Next]_vars, ~ CrashRestart,
         \A k \in Slots : ~ RegisterJob(k) /\ ~ UnregisterJob(k)
  PROVE  /\ activeJobs' = activeJobs
         /\ \A i \in Slots :
               Holding(i)' /\ pc'[i] # "admitted" =>
                   Holding(i) /\ pc[i] # "admitted" /\ job'[i] = job[i]
         /\ \A k \in Slots : pc[k] = "done" => pc'[k] = "done" /\ job'[k] = job[k]
<1> USE DEF TypeInv, TypeOK, Holding, HoldingStages
<1> DEFINE Goal == /\ activeJobs' = activeJobs
                   /\ \A i \in Slots :
                         pc'[i] \in HoldingStages /\ pc'[i] # "admitted" =>
                             Holding(i) /\ pc[i] # "admitted" /\ job'[i] = job[i]
                   /\ \A k \in Slots : pc[k] = "done" => pc'[k] = "done" /\ job'[k] = job[k]
<1>1. ASSUME NEW k \in Slots, NEW c \in Commands, NEW d \in Devices, Submit(k, c, d)
      PROVE  Goal
  BY <1>1 DEF Submit, apiVars
<1>2. ASSUME NEW k \in Slots, Refuse(k) \/ Admit(k) \/ Conflict(k) \/ FinishRelease(k)
      PROVE  Goal
  BY <1>2 DEF Refuse, Admit, Conflict, FinishRelease, apiVars
<1>3. ASSUME NEW k \in Slots, Dispatch(k) \/ BeginPipeline(k) \/ FinishSave(k)
      PROVE  Goal
  BY <1>3 DEF Dispatch, BeginPipeline, FinishSave, apiVars
<1>4. ASSUME NEW k \in Slots,
             PhaseError(k) \/ (\E passed \in BOOLEAN : Conclude(k, passed))
      PROVE  Goal
  BY <1>4 DEF PhaseError, Conclude, apiVars
<1>5. ASSUME NEW k \in Slots, BurninPassed(k)
      PROVE  Goal
  BY <1>5 DEF BurninPassed, apiVars
<1>6. ASSUME NEW k \in Slots, StartAliveHeartbeat(k) \/ PhaseDone(k) \/ AbortCancel(k)
      PROVE  Goal
  BY <1>6 DEF StartAliveHeartbeat, PhaseDone, AbortCancel, apiVars
<1>7. ASSUME (\E id \in JobID : AbortLookup(id)) \/ Tick \/ UNCHANGED vars
      PROVE  Goal
  BY <1>7 DEF AbortLookup, Tick, vars, apiVars
<1>8. Goal
  BY <1>1, <1>2, <1>3, <1>4, <1>5, <1>6, <1>7 DEF Next, SlotStep
<1>9. QED
  BY <1>8

AbortInv == TypeInv /\ LocksMatchJobs /\ AbortReachesJob

LEMMA AbortStep == AbortInv /\ [Next]_vars => AbortInv'
<1> SUFFICES ASSUME AbortInv, [Next]_vars PROVE AbortReachesJob'
  BY TypeStep, LocksNext DEF AbortInv
<1> SUFFICES ASSUME NEW i \in Slots, Holding(i)', pc'[i] # "admitted"
             PROVE  \/ activeJobs'[job'[i]] = i
                    \/ \E k \in Slots \ {i} : job'[k] = job'[i] /\ pc'[k] = "done"
  BY DEF AbortReachesJob
<1> USE DEF AbortInv, TypeInv, TypeOK, Named
<1>1. ASSUME NEW k \in Slots, RegisterJob(k)
      PROVE  \/ activeJobs'[job'[i]] = i
             \/ \E n \in Slots \ {i} : job'[n] = job'[i] /\ pc'[n] = "done"
  <2>1. Holding(k) /\ job[k] \in JobID /\ job' = job
    BY <1>1 DEF RegisterJob, Holding, HoldingStages
  <2>2. CASE k = i
    BY <1>1, <2>1, <2>2 DEF RegisterJob
  <2>3. CASE k # i
    <3>1. Holding(i) /\ pc[i] # "admitted"
      BY <1>1, <2>3 DEF RegisterJob, Holding, HoldingStages
    <3>2. job[k] # job[i]
      BY <2>1, <2>3, <3>1, LocksExclude DEF OneJobPerDrive, Device
    <3>3. activeJobs'[job'[i]] = activeJobs[job[i]]
      BY <1>1, <2>1, <3>2, <3>1 DEF RegisterJob
    <3>4. \A n \in Slots : pc[n] = "done" => pc'[n] = "done"
      BY <1>1 DEF RegisterJob
    <3>5. QED
      BY <2>1, <3>1, <3>3, <3>4 DEF AbortReachesJob
  <2>4. QED
    BY <2>2, <2>3
<1>2. ASSUME NEW k \in Slots, UnregisterJob(k)
      PROVE  \/ activeJobs'[job'[i]] = i
             \/ \E n \in Slots \ {i} : job'[n] = job'[i] /\ pc'[n] = "done"
  <2>1. k # i /\ job' = job /\ pc'[k] = "done" /\ Holding(i) /\ pc[i] # "admitted"
    BY <1>2 DEF UnregisterJob, Holding, HoldingStages
  <2>2. CASE job[k] = job[i]
    BY <2>1, <2>2
  <2>3. CASE job[k] # job[i]
    <3>1. activeJobs'[job'[i]] = activeJobs[job[i]]
      BY <1>2, <2>1, <2>3 DEF UnregisterJob, Holding, HoldingStages
    <3>2. \A n \in Slots : pc[n] = "done" => pc'[n] = "done"
      BY <1>2 DEF UnregisterJob
    <3>3. QED
      BY <2>1, <3>1, <3>2 DEF AbortReachesJob
  <2>4. QED
    BY <2>2, <2>3
<1>3. CASE CrashRestart
  BY <1>3 DEF CrashRestart, Holding, HoldingStages
<1>4. CASE ~ CrashRestart /\ \A k \in Slots : ~ RegisterJob(k) /\ ~ UnregisterJob(k)
  BY <1>4, AbortableBefore DEF AbortReachesJob
<1>5. QED
  BY <1>1, <1>2, <1>3, <1>4

(* From its registration to its end a job can be aborted over the API, but *)
(* for a job before it with the same ID that has unregistered since.       *)
THEOREM AbortsReachJobs == Spec => []AbortReachesJob
<1>1. Init => AbortInv
  BY TypeInit, LocksInit DEF AbortInv, AbortReachesJob, Init, Holding, HoldingStages
<1>2. AbortInv => AbortReachesJob
  BY DEF AbortInv
<1>3. QED
  BY <1>1, <1>2, AbortStep, PTL DEF Spec

(* A cancelled job that runs stays in its phase and pipeline until it      *)
(* ends as cancelled, or with its verdict if it had only that to give.     *)
StopsWhenCancelled(i) ==
    i \in cancelled /\ pc[i] = "running" =>
        \/ pc'[i] = "running" /\ UNCHANGED <<phase[i], pipe[i]>>
        \/ pc'[i] = "finishing" /\ rec'[i].status = "cancelled"
        \/ pc'[i] = "finishing" /\ phase[i] = "COMPLETE"
        \/ pc'[i] = "dead"

LEMMA CancelStep ==
  ASSUME TypeInv, [Next]_vars, NEW i \in Slots PROVE StopsWhenCancelled(i)
<1> SUFFICES ASSUME i \in cancelled, pc[i] = "running"
             PROVE  \/ pc'[i] = "running" /\ phase'[i] = phase[i] /\ pipe'[i] = pipe[i]
                    \/ pc'[i] = "finishing" /\ rec'[i].status = "cancelled"
                    \/ pc'[i] = "finishing" /\ phase[i] = "COMPLETE"
                    \/ pc'[i] = "dead"
  BY DEF StopsWhenCancelled
<1> DEFINE Stays == pc'[i] = "running" /\ phase'[i] = phase[i] /\ pipe'[i] = pipe[i]
<1> USE DEF TypeInv, TypeOK
<1>1. ASSUME NEW k \in Slots, NEW c \in Commands, NEW d \in Devices, Submit(k, c, d)
      PROVE  Stays
  BY <1>1 DEF Submit
<1>2. ASSUME NEW k \in Slots,
             Refuse(k) \/ Admit(k) \/ Conflict(k) \/ RegisterJob(k) \/ Dispatch(k)
      PROVE  Stays
  BY <1>2 DEF Refuse, Admit, Conflict, RegisterJob, Dispatch
<1>3. ASSUME NEW k \in Slots, BeginPipeline(k) PROVE Stays
  BY <1>3 DEF BeginPipeline
<1>4. ASSUME NEW k \in Slots,
             FinishSave(k) \/ FinishRelease(k) \/ UnregisterJob(k)
             \/ StartAliveHeartbeat(k) \/ AbortCancel(k)
      PROVE  Stays
  BY <1>4 DEF FinishSave, FinishRelease, UnregisterJob, StartAliveHeartbeat, AbortCancel
<1>5. ASSUME NEW k \in Slots, PhaseDone(k) PROVE Stays
  BY <1>5 DEF PhaseDone, CtxErr
<1>6. ASSUME NEW k \in Slots, PhaseError(k)
      PROVE  Stays \/ (pc'[i] = "finishing" /\ rec'[i].status = "cancelled")
  <2>1. CASE k = i
    <3>1. WithStatus(rec[i], "cancelled").status = "cancelled"
      BY DEF WithStatus, JobRecord
    <3>2. QED
      BY <1>6, <2>1, <3>1 DEF PhaseError, CtxErr
  <2>2. CASE k # i
    BY <1>6, <2>2 DEF PhaseError, ReturnFromPipe
  <2>3. QED
    BY <2>1, <2>2
<1>7. ASSUME NEW k \in Slots, NEW passed \in BOOLEAN, Conclude(k, passed)
      PROVE  Stays \/ (pc'[i] = "finishing" /\ phase[i] = "COMPLETE")
  BY <1>7 DEF Conclude, ReturnFromPipe
<1>8. ASSUME NEW k \in Slots, BurninPassed(k)
      PROVE  Stays \/ (pc'[i] = "finishing" /\ phase[i] = "COMPLETE")
  BY <1>8 DEF BurninPassed, ReturnFromPipe, CtxErr
<1>9. ASSUME (\E id \in JobID : AbortLookup(id)) \/ Tick \/ UNCHANGED vars PROVE Stays
  BY <1>9 DEF AbortLookup, Tick, vars
<1>10. CASE CrashRestart
  BY <1>10 DEF CrashRestart
<1>11. QED
  BY <1>1, <1>2, <1>3, <1>4, <1>5, <1>6, <1>7, <1>8, <1>9, <1>10 DEF Next, SlotStep

(* After a cancel no further phase of a job begins, destructive or not,    *)
(* and neither does the second half of the full pipeline.                  *)
THEOREM CancelsStopJobs == Spec => CancelStopsJob
<1>1. TypeInv /\ [Next]_vars => [\A i \in Slots : StopsWhenCancelled(i)]_vars
  BY CancelStep
<1>2. QED
  BY <1>1, TypeInit, TypeStep, PTL DEF Spec, CancelStopsJob, StopsWhenCancelled
=============================================================================
