------------------------- MODULE SnapraidAgentProofs -------------------------
(***************************************************************************)
(* Proofs about SnapraidAgent for any number of firings, requests, changes *)
(* and crashes.                                                            *)
(*                                                                         *)
(* Most of what makes the agent correct is local to an actor: PlaceOK says *)
(* which command it can be at, RowsOK what its rows in the history show,   *)
(* SyncedOK what a pipeline past its sync has done, ReportsOK what the     *)
(* gates have seen. An action moves one actor and leaves the others as     *)
(* they are. What the actors share is in JobMuInv, ActiveInv and           *)
(* ContainersComeBack.                                                     *)
(***************************************************************************)
EXTENDS SnapraidAgent, TLAPS

\* The commands of a schedule, and the pieces of a pipeline between two commands.
Commands == {"touch", "diff", "smart", "sync", "scrub", "fix", "status"}
CommandsOf(k) ==
    CASE k = "maintenance" -> Commands \ {"status"}
      [] k = "scrub_only" -> {"scrub", "fix"}
      [] k = "status_refresh" -> {"status"}
      [] OTHER -> Commands

InCommand(x) == at[x] \in {"ready", "tracked", "running", "ended"}
InSummary(x) == at[x] \in {"summary", "summarising"}
Away(x) == at[x] = "idle" \/ Over(x)

\* Who is where: of what kind an actor is, and at which command.
PlaceOK(x) ==
    /\ at[x] # "idle" => IF x \in Firings THEN kind[x] \in Kinds ELSE kind[x] \in {"manual", "refresh"}
    /\ Away(x) => step[x] = "none"
    /\ at[x] = "probing" => kind[x] = "manual" /\ step[x] \in Commands
    /\ InCommand(x) => kind[x] # "refresh" /\ step[x] \in CommandsOf(kind[x])
    /\ at[x] \in {"config", "gates", "hook", "containers", "restore"} =>
           kind[x] = "maintenance" /\ step[x] = "none"
    /\ InSummary(x) => \/ kind[x] = "maintenance" /\ step[x] \in {"none", "gate"}
                       \/ kind[x] = "manual" /\ step[x] \in {"sync", "scrub"}
                       \/ kind[x] = "refresh" /\ step[x] = "none"

RowsOK(x) ==
    at[x] # "dead" =>
        \A s \in Step :
            history[x][s] = "running" <=> step[x] = s /\ at[x] \in {"tracked", "running", "ended"}

\* A pipeline past its sync has synced, and no gate has failed it, unless it says so.
SyncedOK(x) ==
    /\ kind[x] = "maintenance" =>
           /\ InCommand(x) /\ step[x] \in {"scrub", "fix"} => SyncDone(x)
           /\ InSummary(x) /\ step[x] = "none" => SyncDone(x)
    /\ history[x]["gate"] # "none" => Over(x) \/ (InSummary(x) /\ step[x] = "gate")
    /\ "maintenance_complete" \in announced[x] => Over(x) /\ SyncDone(x) /\ history[x]["gate"] = "none"

\* What the reports of a firing say is the truth, unless one was cut short; the gates that
\* it has passed still pass.
ReportsOK(x) ==
    /\ x \notin cut => report[x] = truth[x] /\ (x \in suspect <=> x \in sick)
    /\ AboutToSync(x) => CheckSMART(x) /\ CheckDiffThresholds(report[x])

Local(x) == PlaceOK(x) /\ RowsOK(x) /\ SyncedOK(x) /\ (x \in Firings => ReportsOK(x))

ActorInv == \A x \in Actors : Local(x)

\* The mutex of the scheduler is held by the one firing that is under way.
JobMuInv == \A x \in Firings : ~ Away(x) <=> jobMu = x

\* The active job is a job of its own that is under way.
ActiveInv ==
    activeJob # NoActor =>
        \/ at[activeJob] \in {"tracked", "running", "ended"}
        \/ InSummary(activeJob) /\ kind[activeJob] = "manual"

Inv == TypeOK /\ ActorInv /\ JobMuInv /\ ActiveInv /\ ContainersComeBack

(***************************************************************************)
(* The types.                                                              *)
(***************************************************************************)

Frozen(x) == /\ report'[x] = report[x] /\ truth'[x] = truth[x]
             /\ (x \in suspect' <=> x \in suspect) /\ (x \in sick' <=> x \in sick)
             /\ (x \in cut' <=> x \in cut)

ReportTypes ==
    /\ report \in [Firings -> Report] /\ truth \in [Firings -> Report]
    /\ suspect \in SUBSET Firings /\ sick \in SUBSET Firings /\ cut \in SUBSET Firings

LEMMA NoChangesIsReport == NoChanges \in Report
BY DEF NoChanges, Report

\* What a goroutine that returns leaves.
LEMMA LeaveFacts ==
    ASSUME TypeOK, NEW x \in Actors, Leave(x)
    PROVE  /\ at' = [at EXCEPT ![x] = "done"] /\ step' = [step EXCEPT ![x] = "none"]
           /\ jobMu' = IF jobMu = x THEN NoActor ELSE jobMu
           /\ ReportTypes'
           /\ \A y \in Firings \ {x} : Frozen(y)
           /\ x \in Firings => /\ report'[x] = truth'[x]
                               /\ x \notin suspect' /\ x \notin sick'
<1>1. /\ at' = [at EXCEPT ![x] = "done"] /\ step' = [step EXCEPT ![x] = "none"]
      /\ jobMu' = IF jobMu = x THEN NoActor ELSE jobMu
  BY DEF Leave, Goto
<1>2. CASE x \in Firings
  BY <1>1, <1>2, NoChangesIsReport DEF Leave, TypeOK, ReportTypes, Frozen
<1>3. CASE x \notin Firings
  BY <1>1, <1>3 DEF Leave, TypeOK, ReportTypes, Frozen, reportVars
<1>4. QED
  BY <1>2, <1>3

LEMMA LeaveTypes ==
    ASSUME TypeOK, NEW x \in Actors, Leave(x)
    PROVE  /\ at' \in [Actors -> Location] /\ step' \in [Actors -> Step]
           /\ jobMu' \in Firings \union {NoActor}
           /\ ReportTypes'
BY LeaveFacts DEF TypeOK, Location, Step

\* What the end of a command reads into the reports.
LEMMA ReadFacts ==
    ASSUME TypeOK, NEW x \in Actors, NEW o \in Outcome, ReadReport(x, o)
    PROVE  /\ ReportTypes'
           /\ \A y \in Firings \ {x} : Frozen(y)
           /\ step[x] \notin {"diff", "smart"} => \A y \in Firings : Frozen(y)
           /\ x \in Firings /\ ReportsOK(x) /\ x \notin cut' =>
                  report'[x] = truth'[x] /\ (x \in suspect' <=> x \in sick')
<1>0. ReportTypes /\ pending \in Report
  BY DEF TypeOK, ReportTypes
<1>1. CASE x \in Firings /\ step[x] = "diff" /\ o # "execError"
  <2>1. /\ \E r \in ReadDiff(o) : report' = [report EXCEPT ![x] = r]
        /\ truth' = [truth EXCEPT ![x] = pending]
        /\ cut' = IF CutShort(o) THEN cut \union {x} ELSE cut
        /\ UNCHANGED <<suspect, sick>>
    BY <1>1 DEF ReadReport
  <2>2. PICK r \in ReadDiff(o) : report' = [report EXCEPT ![x] = r]
    BY <2>1
  <2>3. r \in Report /\ (~ CutShort(o) => r = pending)
    BY <1>0, <2>2, NoChangesIsReport DEF ReadDiff
  <2>4. ReportTypes'
    BY <1>0, <1>1, <2>1, <2>2, <2>3 DEF ReportTypes
  <2>5. \A y \in Firings \ {x} : Frozen(y)
    BY <1>0, <2>1, <2>2 DEF Frozen, ReportTypes
  <2>6. ReportsOK(x) /\ x \notin cut' => report'[x] = truth'[x] /\ (x \in suspect' <=> x \in sick')
    BY <1>0, <1>1, <2>1, <2>2, <2>3 DEF ReportsOK, ReportTypes
  <2>7. QED
    BY <1>1, <2>4, <2>5, <2>6
<1>2. CASE x \in Firings /\ step[x] = "smart" /\ o # "execError"
  <2>1. /\ \E bad \in ReadSmart(o) : suspect' = IF bad THEN suspect \union {x} ELSE suspect
        /\ sick' = IF failing THEN sick \union {x} ELSE sick
        /\ cut' = IF CutShort(o) THEN cut \union {x} ELSE cut
        /\ UNCHANGED <<report, truth>>
    BY <1>2 DEF ReadReport
  <2>2. PICK bad \in ReadSmart(o) : suspect' = IF bad THEN suspect \union {x} ELSE suspect
    BY <2>1
  <2>3. ~ CutShort(o) => bad = failing
    BY <2>2 DEF ReadSmart
  <2>4. suspect' \in SUBSET Firings /\ sick' \in SUBSET Firings /\ cut' \in SUBSET Firings
    BY <1>0, <1>2, <2>1, <2>2 DEF ReportTypes
  <2>5. ReportTypes'
    BY <1>0, <2>1, <2>4 DEF ReportTypes
  <2>6. \A y \in Firings \ {x} : Frozen(y)
    BY <1>0, <2>1, <2>2 DEF Frozen
  <2>7. ReportsOK(x) /\ x \notin cut' => report'[x] = truth'[x] /\ (x \in suspect' <=> x \in sick')
    BY <2>1, <2>2, <2>3 DEF ReportsOK
  <2>8. QED
    BY <1>2, <2>5, <2>6, <2>7
<1>3. CASE ~ (x \in Firings /\ step[x] \in {"diff", "smart"} /\ o # "execError")
  <2>1. UNCHANGED reportVars
    BY <1>3 DEF ReadReport
  <2>2. QED
    BY <1>0, <2>1 DEF reportVars, ReportTypes, Frozen, ReportsOK
<1>4. QED
  BY <1>1, <1>2, <1>3

LEMMA InitTypes == Init => TypeOK
<1> SUFFICES ASSUME Init PROVE TypeOK
  OBVIOUS
<1>1. /\ at \in [Actors -> Location] /\ step \in [Actors -> Step] /\ outcome \in [Actors -> Outcome]
      /\ kind \in [Actors -> {"none", "manual", "refresh"} \union Kinds]
      /\ announced \in [Actors -> SUBSET Event]
  BY DEF Init, Location, Step, Outcome
<1>2. history \in [Actors -> [Step -> RowStatus]]
  BY DEF Init, RowStatus
<1>3. ReportTypes /\ pending \in Report
  BY NoChangesIsReport DEF Init, ReportTypes
<1>4. crashes \in 0 .. MaxCrashes
  BY CrashesAssumption DEF Init
<1>5. failing \in BOOLEAN
  BY Zenon DEF Init
<1>6. QED
  BY <1>1, <1>2, <1>3, <1>4, <1>5 DEF Init, TypeOK, ReportTypes

LEMMA EndStatusKnown ==
    ASSUME NEW x PROVE EndStatus(x) \in RowStatus \ {"none", "running"}
BY DEF EndStatus, RowStatus

\* What the end of a step does to the rows.
LEMMA CompleteFacts ==
    ASSUME TypeOK, NEW x \in Actors, CompleteJob(x)
    PROVE  /\ history' \in [Actors -> [Step -> RowStatus]]
           /\ history'[x][step[x]] = EndStatus(x)
           /\ \A s \in Step \ {step[x]} : history'[x][s] = history[x][s]
           /\ \A y \in Actors \ {x} : history'[y] = history[y]
<1>1. EndStatus(x) \in RowStatus /\ step[x] \in Step /\ history[x] \in [Step -> RowStatus]
  BY EndStatusKnown DEF TypeOK
<1> HIDE DEF EndStatus
<1>2. QED
  BY <1>1 DEF CompleteJob, TypeOK

\* What a gate that fails does to the rows.
LEMMA GateFailureFacts ==
    ASSUME TypeOK, NEW x \in Actors, RecordGateFailure(x)
    PROVE  /\ history' \in [Actors -> [Step -> RowStatus]]
           /\ history'[x]["gate"] = "aborted"
           /\ \A s \in Step \ {"gate"} : history'[x][s] = history[x][s]
           /\ \A y \in Actors \ {x} : history'[y] = history[y]
<1>1. "aborted" \in RowStatus /\ "gate" \in Step /\ history[x] \in [Step -> RowStatus]
  BY DEF TypeOK, RowStatus, Step
<1>2. QED
  BY <1>1 DEF RecordGateFailure, TypeOK

LEMMA StepEventsKnown == ASSUME NEW x PROVE StepEvents(x) \subseteq {"job_complete", "job_failed"}
BY DEF StepEvents

EngineTypes == /\ lock \in Actors \union {NoActor} /\ cancelFn \in Actors \union {NoActor}
               /\ aborting \in SUBSET Actors /\ killed \in SUBSET Actors

LEMMA LockTypes ==
    ASSUME TypeOK, NEW x \in Actors, TakeLock(x) \/ ReturnLock(x) \/ UNCHANGED engineVars
    PROVE  EngineTypes'
BY DEF TypeOK, TakeLock, ReturnLock, EngineTypes, engineVars

LEMMA GotoTypes ==
    ASSUME TypeOK, NEW x \in Actors, NEW place \in Location, NEW s \in Step, Goto(x, place, s)
    PROVE  at' \in [Actors -> Location] /\ step' \in [Actors -> Step]
BY DEF TypeOK, Goto

LEMMA SettingStays ==
    ASSUME TypeOK, UNCHANGED <<containers, diskVars, crashes>>
    PROVE  /\ containers' \in {"up", "down", "stuck"} /\ pending' \in Report
           /\ failing' \in BOOLEAN /\ crashes' \in 0 .. MaxCrashes
BY DEF TypeOK, diskVars

LEMMA TypeStep == TypeOK /\ [Next]_vars => TypeOK'
<1> SUFFICES ASSUME TypeOK, [Next]_vars PROVE TypeOK'
  OBVIOUS
<1>1. ASSUME NEW x \in Firings, NEW k \in Kinds, Fire(x, k) PROVE TypeOK'
  <2>1. x \in Actors
    BY DEF Actors
  <2>2. /\ at' \in [Actors -> Location] /\ step' \in [Actors -> Step]
        /\ jobMu' \in Firings \union {NoActor}
    BY <1>1, <2>1 DEF Fire, Goto, TypeOK, Kinds, Location, Step
  <2>3. /\ kind' \in [Actors -> {"none", "manual", "refresh"} \union Kinds]
        /\ announced' \in [Actors -> SUBSET Event]
    <3>1. kind' \in [Actors -> {"none", "manual", "refresh"} \union Kinds]
      BY <1>1, <2>1 DEF Fire, TypeOK
    <3>2. CASE JobMuFree
      <4>1. PICK events \in {{}, {"maintenance_started"}, {"scrub_started"}} : Announce(x, events)
        BY <1>1, <3>2 DEF Fire, Kinds
      <4>2. announced' \in [Actors -> SUBSET Event]
        BY <2>1, <4>1 DEF Announce, TypeOK, Event
      <4>3. QED
        BY <3>1, <4>2
    <3>3. CASE ~ JobMuFree
      BY <1>1, <3>1, <3>3 DEF Fire, TypeOK
    <3>4. QED
      BY <3>2, <3>3
  <2>4. UNCHANGED <<outcome, engineVars, reportVars, boardVars, containers, diskVars, crashes>>
    BY <1>1 DEF Fire
  <2>5. QED
    BY <2>2, <2>3, <2>4 DEF TypeOK, engineVars, reportVars, boardVars, diskVars
<1>2. ASSUME NEW x \in Requests, NEW verb \in Verbs \ {"refresh"}, Probe(x, verb) PROVE TypeOK'
  <2>1. x \in Actors /\ verb \in Step
    BY VerbsAssumption DEF Actors, Step
  <2>2. /\ at' \in [Actors -> Location] /\ step' \in [Actors -> Step]
        /\ lock' \in Actors \union {NoActor}
        /\ kind' \in [Actors -> {"none", "manual", "refresh"} \union Kinds]
    BY <1>2, <2>1 DEF Probe, Goto, TypeOK, Location, Step
  <2>3. UNCHANGED <<outcome, cancelFn, aborting, killed, jobMu, reportVars, boardVars, containers,
                    diskVars, announced, crashes>>
    BY <1>2 DEF Probe
  <2>4. QED
    BY <2>2, <2>3 DEF TypeOK, reportVars, boardVars, diskVars
<1>3. ASSUME NEW x \in Requests, StartRefresh(x) PROVE TypeOK'
  <2>1. /\ at' \in [Actors -> Location] /\ step' \in [Actors -> Step]
        /\ kind' \in [Actors -> {"none", "manual", "refresh"} \union Kinds]
    BY <1>3 DEF StartRefresh, Goto, TypeOK, Location, Step, Actors
  <2>2. UNCHANGED <<outcome, engineVars, jobMu, reportVars, boardVars, containers, diskVars,
                    announced, crashes>>
    BY <1>3 DEF StartRefresh
  <2>3. QED
    BY <2>1, <2>2 DEF TypeOK, engineVars, reportVars, boardVars, diskVars
<1>4. ASSUME NEW x \in Actors, Accept(x) \/ StartCommand(x) \/ RefuseCommand(x) \/ StartSummary(x)
      PROVE  TypeOK'
  <2>1. /\ at' \in [Actors -> Location] /\ step' \in [Actors -> Step]
        /\ outcome' \in [Actors -> Outcome]
    BY <1>4 DEF Accept, StartCommand, RefuseCommand, StartSummary, Goto, TypeOK, Location, Outcome
  <2>2. EngineTypes'
    BY <1>4 DEF Accept, StartCommand, RefuseCommand, StartSummary, TakeLock, TypeOK, EngineTypes,
                engineVars
  <2>3. UNCHANGED <<kind, jobMu, reportVars, boardVars, containers, diskVars, announced, crashes>>
    BY <1>4 DEF Accept, StartCommand, RefuseCommand, StartSummary
  <2>4. QED
    BY <2>1, <2>2, <2>3 DEF TypeOK, EngineTypes, reportVars, boardVars, diskVars
<1>5. ASSUME NEW x \in Actors, BeginStep(x) PROVE TypeOK'
  <2>1. /\ at' \in [Actors -> Location] /\ step' \in [Actors -> Step]
    BY <1>5 DEF BeginStep, Goto, TypeOK, Location
  <2>2. history' \in [Actors -> [Step -> RowStatus]] /\ activeJob' \in Actors \union {NoActor}
    BY <1>5 DEF BeginStep, TrackJob, TypeOK, RowStatus
  <2>3. UNCHANGED <<kind, outcome, engineVars, jobMu, reportVars, containers, diskVars, announced,
                    crashes>>
    BY <1>5 DEF BeginStep
  <2>4. QED
    BY <2>1, <2>2, <2>3 DEF TypeOK, engineVars, reportVars, diskVars
<1>6. ASSUME NEW x \in Actors, NEW o \in Outcome, EndCommand(x, o) PROVE TypeOK'
  <2>1. /\ at' \in [Actors -> Location] /\ step' \in [Actors -> Step]
        /\ outcome' \in [Actors -> Outcome]
    BY <1>6 DEF EndCommand, Goto, TypeOK, Location
  <2>2. EngineTypes'
    BY <1>6, LockTypes DEF EndCommand
  <2>3. ReportTypes'
    BY <1>6, ReadFacts DEF EndCommand
  <2>4. pending' \in Report
    BY <1>6, NoChangesIsReport DEF EndCommand, TypeOK
  <2>5. UNCHANGED <<kind, jobMu, boardVars, containers, failing, announced, crashes>>
    BY <1>6 DEF EndCommand
  <2>6. QED
    BY <2>1, <2>2, <2>3, <2>4, <2>5 DEF TypeOK, EngineTypes, ReportTypes, boardVars
<1>7. ASSUME NEW x \in Actors, FinishMaintenanceStep(x) \/ FinishScheduledStep(x) PROVE TypeOK'
  <2>1. PICK last \in {{}, {"scrub_complete"}, {"status_refresh_complete"}} : FinishStep(x, last)
    BY <1>7 DEF FinishMaintenanceStep, FinishScheduledStep
  <2>2. /\ at' \in [Actors -> Location] /\ step' \in [Actors -> Step]
        /\ jobMu' \in Firings \union {NoActor} /\ ReportTypes'
    <3>1. CASE Leave(x)
      BY <3>1, LeaveTypes
    <3>2. CASE ~ Leave(x)
      <4>1. \E place \in {"ready", "gates", "restore", "summary"}, s \in Step : GoOn(x, place, s)
        BY <1>7, <3>2 DEF FinishMaintenanceStep, FinishScheduledStep, Step
      <4>2. QED
        BY <4>1 DEF GoOn, Goto, TypeOK, Location, ReportTypes, reportVars
    <3>3. QED
      BY <3>1, <3>2
  <2>3. history' \in [Actors -> [Step -> RowStatus]]
    BY <2>1, CompleteFacts DEF FinishStep
  <2>4. outcome' \in [Actors -> Outcome] /\ activeJob' \in Actors \union {NoActor}
    BY <2>1 DEF FinishStep, ClearJob, TypeOK, Outcome
  <2>5. announced' \in [Actors -> SUBSET Event]
    BY <2>1, StepEventsKnown DEF FinishStep, Announce, TypeOK, Event
  <2>6. UNCHANGED <<kind, engineVars, containers, diskVars, crashes>>
    BY <2>1 DEF FinishStep
  <2>7. QED
    BY <2>2, <2>3, <2>4, <2>5, <2>6 DEF TypeOK, ReportTypes, engineVars, diskVars
<1>8. ASSUME NEW x \in Actors, FinishManual(x) PROVE TypeOK'
  <2>1. /\ at' \in [Actors -> Location] /\ step' \in [Actors -> Step]
        /\ jobMu' \in Firings \union {NoActor} /\ ReportTypes'
    <3>1. CASE Leave(x)
      BY <3>1, LeaveTypes
    <3>2. CASE ~ Leave(x)
      <4>1. GoOn(x, "summary", step[x])
        BY <1>8, <3>2 DEF FinishManual
      <4>2. QED
        BY <4>1 DEF GoOn, Goto, TypeOK, Location, ReportTypes, reportVars
    <3>3. QED
      BY <3>1, <3>2
  <2>2. history' \in [Actors -> [Step -> RowStatus]]
    BY <1>8, CompleteFacts DEF FinishManual
  <2>3. /\ outcome' \in [Actors -> Outcome] /\ activeJob' \in Actors \union {NoActor}
        /\ announced' \in [Actors -> SUBSET Event]
    BY <1>8 DEF FinishManual, ClearJob, Announce, TypeOK, Outcome, Event
  <2>4. UNCHANGED <<kind, engineVars, containers, diskVars, crashes>>
    BY <1>8 DEF FinishManual
  <2>5. QED
    BY <2>1, <2>2, <2>3, <2>4 DEF TypeOK, ReportTypes, engineVars, diskVars
<1>9. ASSUME NEW x \in Actors,
             SafetyGates(x) \/ \E passed \in BOOLEAN : ConfigGate(x, passed)
      PROVE  TypeOK'
  <2>1. /\ at' \in [Actors -> Location] /\ step' \in [Actors -> Step]
        /\ history' \in [Actors -> [Step -> RowStatus]]
    <3>1. at' \in [Actors -> Location] /\ step' \in [Actors -> Step]
      BY <1>9 DEF ConfigGate, SafetyGates, Goto, TypeOK, Location, Step
    <3>2. RecordGateFailure(x) \/ UNCHANGED history
      BY <1>9 DEF ConfigGate, SafetyGates
    <3>3. QED
      BY <3>1, <3>2, GateFailureFacts DEF TypeOK
  <2>2. UNCHANGED <<kind, outcome, engineVars, jobMu, reportVars, activeJob, containers, diskVars,
                    announced, crashes>>
    BY <1>9 DEF ConfigGate, SafetyGates
  <2>3. QED
    BY <2>1, <2>2 DEF TypeOK, engineVars, reportVars, diskVars
<1>10. ASSUME NEW x \in Actors, NEW passed \in BOOLEAN, PreSyncHook(x, passed) PROVE TypeOK'
  <2>1. /\ at' \in [Actors -> Location] /\ step' \in [Actors -> Step]
        /\ jobMu' \in Firings \union {NoActor} /\ ReportTypes'
        /\ history' \in [Actors -> [Step -> RowStatus]]
        /\ announced' \in [Actors -> SUBSET Event]
    <3>1. CASE passed
      BY <1>10, <3>1 DEF PreSyncHook, GoOn, Goto, TypeOK, Location, Step, ReportTypes, reportVars
    <3>2. CASE ~ passed
      <4>1. Leave(x) /\ RecordGateFailure(x) /\ Announce(x, {"gate_failed"})
        BY <1>10, <3>2 DEF PreSyncHook
      <4>2. announced' \in [Actors -> SUBSET Event]
        BY <4>1 DEF Announce, TypeOK, Event
      <4>3. QED
        BY <4>1, <4>2, LeaveTypes, GateFailureFacts
    <3>3. QED
      BY <3>1, <3>2
  <2>2. UNCHANGED <<kind, outcome, engineVars, activeJob, containers, diskVars, crashes>>
    BY <1>10 DEF PreSyncHook
  <2>3. QED
    BY <2>1, <2>2 DEF TypeOK, ReportTypes, engineVars, diskVars
<1>11. ASSUME NEW x \in Actors, StopContainers(x) PROVE TypeOK'
  <2>1. /\ at' \in [Actors -> Location] /\ step' \in [Actors -> Step]
        /\ containers' \in {"up", "down", "stuck"}
    BY <1>11 DEF StopContainers, Goto, TypeOK, Location, Step
  <2>2. UNCHANGED <<kind, outcome, engineVars, jobMu, reportVars, boardVars, diskVars, announced,
                    crashes>>
    BY <1>11 DEF StopContainers
  <2>3. QED
    BY <2>1, <2>2 DEF TypeOK, engineVars, reportVars, boardVars, diskVars
<1>12. ASSUME NEW x \in Actors, NEW restored \in BOOLEAN, RestoreContainers(x, restored)
       PROVE  TypeOK'
  <2>1. /\ at' \in [Actors -> Location] /\ step' \in [Actors -> Step]
        /\ jobMu' \in Firings \union {NoActor} /\ ReportTypes'
    <3>1. CASE SyncDone(x)
      BY <1>12, <3>1
         DEF RestoreContainers, GoOn, Goto, TypeOK, Location, Step, ReportTypes, reportVars
    <3>2. CASE ~ SyncDone(x)
      BY <1>12, <3>2, LeaveTypes DEF RestoreContainers
    <3>3. QED
      BY <3>1, <3>2
  <2>2. /\ UNCHANGED <<kind, outcome, engineVars, boardVars, diskVars, announced, crashes>>
        /\ containers' \in {"up", "down", "stuck"}
    BY <1>12 DEF RestoreContainers
  <2>3. QED
    BY <2>1, <2>2 DEF TypeOK, ReportTypes, engineVars, boardVars, diskVars
<1>13. ASSUME NEW x \in Actors, EndSummary(x) \/ SkipSummary(x) PROVE TypeOK'
  <2>1. AfterSummary(x) /\ Leave(x)
    BY <1>13 DEF EndSummary, SkipSummary, AfterSummary
  <2>2. EngineTypes'
    BY <1>13, LockTypes DEF EndSummary, SkipSummary
  <2>3. activeJob' \in Actors \union {NoActor} /\ announced' \in [Actors -> SUBSET Event]
    BY <2>1 DEF AfterSummary, ClearJob, Announce, TypeOK, Event
  <2>4. UNCHANGED <<kind, outcome, history, containers, diskVars, crashes>>
    BY <2>1 DEF AfterSummary
  <2>5. QED
    BY <2>1, <2>2, <2>3, <2>4, LeaveTypes DEF TypeOK, EngineTypes, ReportTypes, diskVars
<1>14. ASSUME AbortLookup \/ \E x \in Actors : AbortCancel(x) \/ Timeout(x) PROVE TypeOK'
  <2>1. EngineTypes'
    BY <1>14 DEF AbortLookup, AbortCancel, Timeout, TypeOK, EngineTypes
  <2>2. UNCHANGED <<actorVars, jobMu, reportVars, boardVars, containers, diskVars, announced,
                    crashes>>
    BY <1>14 DEF AbortLookup, AbortCancel, Timeout
  <2>3. QED
    BY <2>1, <2>2 DEF TypeOK, EngineTypes, actorVars, reportVars, boardVars, diskVars
<1>15. ASSUME DiskFails \/ \E r \in Reports : ChangeFiles(r) PROVE TypeOK'
  <2>1. pending' \in Report
    BY <1>15, ReportsAssumption DEF DiskFails, ChangeFiles, TypeOK
  <2>2. failing' \in BOOLEAN
    <3>1. CASE DiskFails
      BY <3>1, Zenon DEF DiskFails
    <3>2. CASE \E r \in Reports : ChangeFiles(r)
      BY <3>2 DEF ChangeFiles, TypeOK
    <3>3. QED
      BY <1>15, <3>1, <3>2
  <2>3. UNCHANGED <<actorVars, engineVars, jobMu, reportVars, boardVars, containers, announced,
                    crashes>>
    BY <1>15 DEF DiskFails, ChangeFiles
  <2>4. QED
    BY <2>1, <2>2, <2>3 DEF TypeOK, actorVars, engineVars, reportVars, boardVars
<1>16. CASE CrashRestart
  <2>1. /\ at' \in [Actors -> Location] /\ step' \in [Actors -> Step]
        /\ outcome' \in [Actors -> Outcome] /\ EngineTypes'
    BY <1>16 DEF CrashRestart, EngineTypes, TypeOK, Location, Step, Outcome
  <2>2. ReportTypes' /\ jobMu' \in Firings \union {NoActor}
    BY <1>16, NoChangesIsReport DEF CrashRestart, ReportTypes
  <2>3. crashes' \in 0 .. MaxCrashes /\ activeJob' \in Actors \union {NoActor}
    BY <1>16, CrashesAssumption DEF CrashRestart, TypeOK
  <2>4. UNCHANGED <<kind, history, containers, diskVars, announced>>
    BY <1>16 DEF CrashRestart
  <2>5. QED
    BY <2>1, <2>2, <2>3, <2>4 DEF TypeOK, EngineTypes, ReportTypes, diskVars
<1>17. CASE UNCHANGED vars
  BY <1>17 DEF vars, TypeOK, actorVars, engineVars, reportVars, boardVars, diskVars
<1>18. ASSUME NEW x \in Actors, Proceed(x) PROVE TypeOK'
  BY <1>18, <1>4, <1>5, <1>6, <1>7, <1>8, <1>9, <1>10, <1>11, <1>12, <1>13 DEF Proceed
<1>19. QED
  BY <1>1, <1>2, <1>3, <1>6, <1>13, <1>14, <1>15, <1>16, <1>17, <1>18 DEF Next

(***************************************************************************)
(* What an action does to the actor that it moves, and to the others.      *)
(***************************************************************************)

Kept(x) == /\ kind'[x] = kind[x] /\ history'[x] = history[x] /\ announced'[x] = announced[x]
           /\ x \in Firings => Frozen(x)

Untouched(x) == at'[x] = at[x] /\ step'[x] = step[x] /\ Kept(x)

ActiveAt(x) == \/ at[x] \in {"tracked", "running", "ended"}
               \/ InSummary(x) /\ kind[x] = "manual"

\* The containers are down on behalf of x.
DownFor(x) == \/ at[x] = "restore"
              \/ AboutToSync(x) /\ step[x] = "sync"
              \/ step[x] = "sync" /\ at[x] = "ended"

Effects(x) ==
    /\ \A y \in Actors \ {x} : Untouched(y)
    /\ Local(x)'
    /\ ~ Away(x)
    /\ \/ ~ Away(x)' /\ jobMu' = jobMu
       \/ Away(x)' /\ jobMu' = IF jobMu = x THEN NoActor ELSE jobMu
    /\ \/ activeJob' = NoActor
       \/ activeJob' = activeJob /\ (ActiveAt(x) => ActiveAt(x)')
       \/ activeJob' = x /\ ActiveAt(x)'
    /\ \/ containers' = containers /\ (x \in Firings /\ DownFor(x) => DownFor(x)')
       \/ containers' = "down" /\ x \in Firings /\ DownFor(x)'
       \/ containers' # "down"

LEMMA UntouchedStays ==
    ASSUME NEW x, Untouched(x)
    PROVE  /\ Local(x) => Local(x)'
           /\ Away(x)' = Away(x)
           /\ ActiveAt(x) => ActiveAt(x)'
           /\ DownFor(x) => DownFor(x)'
<1>1. /\ at'[x] = at[x] /\ step'[x] = step[x] /\ kind'[x] = kind[x] /\ history'[x] = history[x]
      /\ announced'[x] = announced[x] /\ (x \in Firings => Frozen(x))
  BY DEF Untouched, Kept
<1>2. /\ Away(x)' = Away(x) /\ Over(x)' = Over(x) /\ InSummary(x)' = InSummary(x)
      /\ InCommand(x)' = InCommand(x) /\ AboutToSync(x)' = AboutToSync(x)
  BY <1>1 DEF Away, Over, InSummary, InCommand, AboutToSync
<1>3. PlaceOK(x) => PlaceOK(x)'
  BY <1>1, <1>2 DEF PlaceOK
<1>4. RowsOK(x) => RowsOK(x)'
  BY <1>1 DEF RowsOK
<1>5. SyncedOK(x) => SyncedOK(x)'
  BY <1>1, <1>2 DEF SyncedOK, SyncDone
<1>6. x \in Firings => (ReportsOK(x) => ReportsOK(x)')
  BY <1>1, <1>2 DEF ReportsOK, CheckSMART, Frozen
<1>7. /\ ActiveAt(x) => ActiveAt(x)'
      /\ DownFor(x) => DownFor(x)'
  BY <1>1, <1>2 DEF ActiveAt, DownFor
<1>8. QED
  BY <1>2, <1>3, <1>4, <1>5, <1>6, <1>7 DEF Local

LEMMA LocalParts ==
    ASSUME NEW x, PlaceOK(x)', RowsOK(x)', SyncedOK(x)', x \in Firings => ReportsOK(x)'
    PROVE  Local(x)'
BY DEF Local

\* What is known of an actor before it moves.
LEMMA LocalFacts ==
    ASSUME ActorInv, NEW x \in Actors
    PROVE  PlaceOK(x) /\ RowsOK(x) /\ SyncedOK(x) /\ (x \in Firings => ReportsOK(x))
BY DEF ActorInv, Local

\* An actor outside the steps before a sync has nothing to show for its reports but that they
\* are true.
LEMMA ReportsFrozen ==
    ASSUME NEW x \in Firings, ReportsOK(x), Frozen(x), AboutToSync(x)' => AboutToSync(x)
    PROVE  ReportsOK(x)'
BY DEF ReportsOK, Frozen, CheckSMART

LEMMA ReportsAway ==
    ASSUME NEW x \in Firings, report'[x] = truth'[x], x \notin suspect', x \notin sick',
           ~ AboutToSync(x)'
    PROVE  ReportsOK(x)'
BY DEF ReportsOK

\* The rows of an actor that enters no command and leaves none.
LEMMA RowsKept ==
    ASSUME NEW x, RowsOK(x), history'[x] = history[x], at[x] # "dead",
           \/ /\ at[x] \notin {"tracked", "running", "ended"}
              /\ at'[x] \notin {"tracked", "running", "ended"}
           \/ /\ at[x] \in {"tracked", "running", "ended"} /\ step'[x] = step[x]
              /\ at'[x] \in {"tracked", "running", "ended"}
    PROVE  RowsOK(x)'
BY DEF RowsOK

LEMMA AcceptEffects == ASSUME TypeOK, ActorInv, NEW x \in Actors, Accept(x) PROVE Effects(x)
<1>1. /\ at[x] = "probing" /\ at'[x] = "ready" /\ step'[x] = step[x] /\ Kept(x)
      /\ \A y \in Actors \ {x} : Untouched(y)
      /\ UNCHANGED <<jobMu, activeJob, containers>>
  BY DEF Accept, Goto, TypeOK, Kept, Untouched, Frozen, reportVars, boardVars
<1>2. PlaceOK(x) /\ RowsOK(x) /\ SyncedOK(x) /\ (x \in Firings => ReportsOK(x))
  BY LocalFacts
<1>3. kind[x] = "manual" /\ kind'[x] = "manual" /\ x \notin Firings /\ step[x] \in Commands
  BY <1>1, <1>2 DEF PlaceOK, Kinds, Kept, Away, Over
<1>4. PlaceOK(x)'
  BY <1>1, <1>3 DEF PlaceOK, Away, Over, InCommand, InSummary, CommandsOf
<1>5. RowsOK(x)'
  BY <1>1, <1>2, RowsKept DEF Kept
<1>6. SyncedOK(x)'
  BY <1>1, <1>2, <1>3 DEF SyncedOK, Kept, InSummary, InCommand, Over, SyncDone
<1>7. Local(x)'
  BY <1>3, <1>4, <1>5, <1>6, LocalParts
<1>8. QED
  BY <1>1, <1>3, <1>7 DEF Effects, Away, Over, ActiveAt, InSummary

LEMMA BeginEffects == ASSUME TypeOK, ActorInv, NEW x \in Actors, BeginStep(x) PROVE Effects(x)
<1>1. /\ at[x] = "ready" /\ at'[x] = "tracked" /\ step'[x] = step[x] /\ kind'[x] = kind[x]
      /\ announced'[x] = announced[x] /\ (x \in Firings => Frozen(x))
      /\ UNCHANGED <<jobMu, containers>> /\ activeJob' = x
  BY DEF BeginStep, TrackJob, Goto, TypeOK, Frozen, reportVars
<1>2. PlaceOK(x) /\ RowsOK(x) /\ SyncedOK(x) /\ (x \in Firings => ReportsOK(x))
  BY LocalFacts
<1>3. step[x] \in Commands
  BY <1>1, <1>2 DEF PlaceOK, InCommand, CommandsOf, Commands
<1>4. /\ history'[x][step[x]] = "running"
      /\ \A s \in Step \ {step[x]} : history'[x][s] = history[x][s]
      /\ \A y \in Actors \ {x} : history'[y] = history[y]
  <2>1. step[x] \in Step /\ history[x] \in [Step -> RowStatus]
    BY DEF TypeOK
  <2>2. QED
    BY <2>1 DEF BeginStep, TypeOK
<1>5. \A y \in Actors \ {x} : Untouched(y)
  BY <1>4 DEF BeginStep, Goto, TypeOK, Kept, Untouched, Frozen, reportVars
<1>6. PlaceOK(x)'
  BY <1>1, <1>2 DEF PlaceOK, Away, Over, InCommand, InSummary
<1>7. RowsOK(x)'
  BY <1>1, <1>2, <1>4 DEF RowsOK
<1>8. SyncedOK(x)'
  <2>1. history'[x]["gate"] = history[x]["gate"]
    BY <1>3, <1>4 DEF Commands, Step
  <2>2. step[x] \in {"scrub", "fix"} => history'[x]["sync"] = history[x]["sync"]
    BY <1>4 DEF Step
  <2>3. QED
    BY <1>1, <1>2, <2>1, <2>2 DEF SyncedOK, InSummary, InCommand, Over, SyncDone
<1>9. x \in Firings => ReportsOK(x)'
  BY <1>1, <1>2, ReportsFrozen DEF AboutToSync
<1>10. Local(x)'
  BY <1>6, <1>7, <1>8, <1>9, LocalParts
<1>11. QED
  BY <1>1, <1>5, <1>10 DEF Effects, Away, Over, ActiveAt, DownFor, AboutToSync

LEMMA StartEffects ==
    ASSUME TypeOK, ActorInv, NEW x \in Actors, StartCommand(x) \/ RefuseCommand(x) PROVE Effects(x)
<1>1. /\ at[x] = "tracked" /\ at'[x] \in {"running", "ended"} /\ step'[x] = step[x] /\ Kept(x)
      /\ \A y \in Actors \ {x} : Untouched(y)
      /\ UNCHANGED <<jobMu, activeJob, containers>>
  BY DEF StartCommand, RefuseCommand, Goto, TypeOK, Kept, Untouched, Frozen, reportVars, boardVars
<1>2. PlaceOK(x) /\ RowsOK(x) /\ SyncedOK(x) /\ (x \in Firings => ReportsOK(x))
  BY LocalFacts
<1>3. PlaceOK(x)'
  BY <1>1, <1>2 DEF PlaceOK, Away, Over, InCommand, InSummary, Kept
<1>4. RowsOK(x)'
  BY <1>1, <1>2, RowsKept DEF Kept
<1>5. SyncedOK(x)'
  BY <1>1, <1>2 DEF SyncedOK, Kept, InSummary, InCommand, Over, SyncDone
<1>6. x \in Firings => ReportsOK(x)'
  BY <1>1, <1>2, ReportsFrozen DEF AboutToSync, Kept
<1>7. Local(x)'
  BY <1>3, <1>4, <1>5, <1>6, LocalParts
<1>8. QED
  BY <1>1, <1>7 DEF Effects, Away, Over, ActiveAt, DownFor, AboutToSync, Kept

LEMMA EndEffects ==
    ASSUME TypeOK, ActorInv, NEW x \in Actors, NEW o \in Outcome, EndCommand(x, o) PROVE Effects(x)
<1>1. /\ at[x] = "running" /\ at'[x] = "ended" /\ step'[x] = step[x] /\ kind'[x] = kind[x]
      /\ history'[x] = history[x] /\ announced'[x] = announced[x]
      /\ UNCHANGED <<jobMu, activeJob, containers, history, kind, announced>>
      /\ ReadReport(x, o)
  BY DEF EndCommand, Goto, TypeOK, boardVars
<1>2. PlaceOK(x) /\ RowsOK(x) /\ SyncedOK(x) /\ (x \in Firings => ReportsOK(x))
  BY LocalFacts
<1>3. \A y \in Firings \ {x} : Frozen(y)
  BY <1>1, ReadFacts
<1>4. \A y \in Actors \ {x} : Untouched(y)
  BY <1>1, <1>3 DEF EndCommand, Goto, TypeOK, Kept, Untouched
<1>5. PlaceOK(x)'
  BY <1>1, <1>2 DEF PlaceOK, Away, Over, InCommand, InSummary
<1>6. RowsOK(x)'
  BY <1>1, <1>2, RowsKept
<1>7. SyncedOK(x)'
  BY <1>1, <1>2 DEF SyncedOK, InSummary, InCommand, Over, SyncDone
<1>8. ASSUME x \in Firings PROVE ReportsOK(x)'
  <2>1. x \notin cut' => report'[x] = truth'[x] /\ (x \in suspect' <=> x \in sick')
    BY <1>1, <1>2, <1>8, ReadFacts
  <2>2. ~ AboutToSync(x)'
    BY <1>1 DEF AboutToSync
  <2>3. QED
    BY <2>1, <2>2 DEF ReportsOK
<1>9. Local(x)'
  BY <1>5, <1>6, <1>7, <1>8, LocalParts
<1>10. QED
  BY <1>1, <1>4, <1>9 DEF Effects, Away, Over, ActiveAt, DownFor, AboutToSync

LEMMA FinishFacts ==
    ASSUME TypeOK, ActorInv, NEW x \in Actors, NEW last, FinishStep(x, last)
    PROVE  /\ at[x] = "ended" /\ step[x] \in Commands
           /\ UNCHANGED <<kind, containers>> /\ activeJob' = NoActor
           /\ history'[x][step[x]] \in RowStatus \ {"none", "running"}
           /\ \A s \in Step \ {step[x]} : history'[x][s] = history[x][s]
           /\ \A y \in Actors \ {x} : history'[y] = history[y] /\ announced'[y] = announced[y]
           /\ "maintenance_complete" \notin last =>
                  ("maintenance_complete" \in announced'[x] <=> "maintenance_complete" \in announced[x])
           /\ history'[x]["gate"] = "none" /\ "maintenance_complete" \notin announced[x]
<1>1. at[x] = "ended" /\ CompleteJob(x) /\ ClearJob /\ UNCHANGED <<kind, containers>>
  BY DEF FinishStep
<1>2. PlaceOK(x) /\ SyncedOK(x)
  BY LocalFacts
<1>3. step[x] \in Commands
  BY <1>1, <1>2 DEF PlaceOK, InCommand, CommandsOf, Commands
<1>4. /\ history'[x][step[x]] \in RowStatus \ {"none", "running"}
      /\ \A s \in Step \ {step[x]} : history'[x][s] = history[x][s]
      /\ \A y \in Actors \ {x} : history'[y] = history[y]
  BY <1>1, CompleteFacts, EndStatusKnown
<1>5. announced' = [announced EXCEPT ![x] = @ \union (StepEvents(x) \union last)]
  BY DEF FinishStep, Announce
<1>6. /\ \A y \in Actors \ {x} : announced'[y] = announced[y]
      /\ announced'[x] = announced[x] \union (StepEvents(x) \union last)
  BY <1>5 DEF TypeOK
<1>7. "maintenance_complete" \notin StepEvents(x)
  BY StepEventsKnown
<1>8. history[x]["gate"] = "none" /\ "maintenance_complete" \notin announced[x]
  BY <1>1, <1>2 DEF SyncedOK, Over, InSummary
<1>9. history'[x]["gate"] = history[x]["gate"]
  BY <1>3, <1>4 DEF Commands, Step
<1>10. QED
  BY <1>1, <1>3, <1>4, <1>6, <1>7, <1>8, <1>9 DEF ClearJob

LEMMA GoOnFacts ==
    ASSUME TypeOK, NEW x \in Actors, NEW place, NEW s, GoOn(x, place, s)
    PROVE  /\ at'[x] = place /\ step'[x] = s /\ jobMu' = jobMu
           /\ \A y \in Actors \ {x} : at'[y] = at[y] /\ step'[y] = step[y]
           /\ \A y \in Firings : Frozen(y)
BY DEF GoOn, Goto, TypeOK, Frozen, reportVars

\* A goroutine that returns; the rows are those of a completed command.
LEMMA LeaveLocal ==
    ASSUME TypeOK, NEW x \in Actors, Leave(x), PlaceOK(x), at[x] # "idle", kind'[x] = kind[x],
           \A s \in Step : history'[x][s] # "running",
           "maintenance_complete" \in announced'[x] => SyncDone(x)' /\ history'[x]["gate"] = "none"
    PROVE  Local(x)'
<1>1. /\ at'[x] = "done" /\ step'[x] = "none"
      /\ x \in Firings => report'[x] = truth'[x] /\ x \notin suspect' /\ x \notin sick'
  BY LeaveFacts DEF TypeOK
<1>2. PlaceOK(x)'
  BY <1>1 DEF PlaceOK, Away, Over, InCommand, InSummary
<1>3. RowsOK(x)'
  BY <1>1 DEF RowsOK
<1>4. SyncedOK(x)'
  BY <1>1 DEF SyncedOK, InSummary, InCommand, Over
<1>5. x \in Firings => ReportsOK(x)'
  BY <1>1, ReportsAway DEF AboutToSync
<1>6. QED
  BY <1>2, <1>3, <1>4, <1>5, LocalParts

LEMMA FinishRows ==
    ASSUME TypeOK, ActorInv, NEW x \in Actors, NEW last, FinishStep(x, last)
    PROVE  \A s \in Step : history'[x][s] # "running"
<1>1. \A s \in Step \ {step[x]} : history'[x][s] = history[x][s] /\ history[x][s] # "running"
  BY FinishFacts, LocalFacts DEF RowsOK
<1>2. QED
  BY <1>1, FinishFacts

LEMMA MaintenanceEffects ==
    ASSUME TypeOK, ActorInv, NEW x \in Actors, FinishMaintenanceStep(x) PROVE Effects(x)
<1>1. kind[x] = "maintenance" /\ FinishStep(x, {})
  BY DEF FinishMaintenanceStep
<1>2. PlaceOK(x) /\ RowsOK(x) /\ SyncedOK(x) /\ (x \in Firings => ReportsOK(x))
  BY LocalFacts
<1>3. /\ at[x] = "ended" /\ step[x] \in Commands
      /\ UNCHANGED <<kind, containers>> /\ activeJob' = NoActor
      /\ \A s \in Step \ {step[x]} : history'[x][s] = history[x][s]
      /\ \A y \in Actors \ {x} : history'[y] = history[y] /\ announced'[y] = announced[y]
      /\ "maintenance_complete" \notin announced'[x] /\ history'[x]["gate"] = "none"
  BY <1>1, FinishFacts
<1>4. \A s \in Step : history'[x][s] # "running"
  BY <1>1, FinishRows
<1>5. CASE Leave(x)
  <2>0. step[x] \in {"touch", "diff", "smart"}
    <3>1. at'[x] = "done"
      BY <1>5, LeaveFacts DEF TypeOK
    <3>2. ~ \E place \in {"ready", "gates", "restore", "summary"}, s \in Step : GoOn(x, place, s)
      BY <3>1, GoOnFacts
    <3>3. QED
      BY <3>2 DEF FinishMaintenanceStep, Step
  <2>1. Local(x)'
    BY <1>2, <1>3, <1>4, <1>5, LeaveLocal
  <2>2. \A y \in Actors \ {x} : Untouched(y)
    BY <1>3, <1>5, LeaveFacts DEF Untouched, Kept, TypeOK
  <2>3. at'[x] = "done" /\ jobMu' = IF jobMu = x THEN NoActor ELSE jobMu
    BY <1>5, LeaveFacts DEF TypeOK
  <2>4. ~ DownFor(x)
    BY <1>3, <2>0 DEF DownFor, AboutToSync
  <2>5. QED
    BY <1>3, <2>1, <2>2, <2>3, <2>4 DEF Effects, Away, Over
<1>6. CASE ~ Leave(x)
  <2>1. PICK place \in {"ready", "gates", "restore", "summary"}, s \in Step :
           /\ GoOn(x, place, s)
           /\ \/ place = "ready" /\ s \in {"diff", "smart"} /\ step[x] \in {"touch", "diff"}
              \/ place = "gates" /\ s = "none" /\ step[x] = "smart"
              \/ place = "restore" /\ s = "none" /\ step[x] = "sync"
              \/ place = "ready" /\ s = "fix" /\ step[x] = "scrub"
              \/ place = "summary" /\ s = "none" /\ step[x] \in {"scrub", "fix"}
    BY <1>6 DEF FinishMaintenanceStep, FixNeeded, Step
  <2>2. /\ at'[x] = place /\ step'[x] = s /\ jobMu' = jobMu /\ kind'[x] = kind[x]
        /\ \A y \in Actors \ {x} : at'[y] = at[y] /\ step'[y] = step[y]
        /\ \A y \in Firings : Frozen(y)
    BY <1>3, <2>1, GoOnFacts
  <2>3. \A y \in Actors \ {x} : Untouched(y)
    BY <1>3, <2>2 DEF Untouched, Kept
  <2>4. PlaceOK(x)'
    BY <1>1, <1>2, <1>3, <2>1, <2>2
       DEF PlaceOK, Away, Over, InCommand, InSummary, CommandsOf, Commands
  <2>5. RowsOK(x)'
    BY <1>4, <2>1, <2>2 DEF RowsOK
  <2>6. SyncedOK(x)'
    <3>1. step[x] \in {"scrub", "fix"} => SyncDone(x)'
      <4>1. "sync" \in Step
        BY DEF Step
      <4>2. QED
        BY <1>1, <1>2, <1>3, <4>1 DEF SyncedOK, SyncDone, InCommand
    <3>2. QED
      BY <1>3, <2>1, <2>2, <3>1 DEF SyncedOK, InSummary, InCommand, Over
  <2>7. x \in Firings => ReportsOK(x)'
    BY <1>2, <2>1, <2>2, ReportsFrozen DEF AboutToSync
  <2>8. Local(x)'
    BY <2>4, <2>5, <2>6, <2>7, LocalParts
  <2>9. DownFor(x) => DownFor(x)'
    BY <1>3, <2>1, <2>2 DEF DownFor, AboutToSync
  <2>10. QED
    BY <1>3, <2>1, <2>2, <2>3, <2>8, <2>9 DEF Effects, Away, Over
<1>7. QED
  BY <1>5, <1>6

LEMMA ScheduledEffects ==
    ASSUME TypeOK, ActorInv, NEW x \in Actors, FinishScheduledStep(x) PROVE Effects(x)
<1>1. PICK last \in {{}, {"scrub_complete"}, {"status_refresh_complete"}} :
         FinishStep(x, last) /\ kind[x] \in {"scrub_only", "status_refresh"}
  BY DEF FinishScheduledStep
<1>2. PlaceOK(x) /\ RowsOK(x) /\ SyncedOK(x) /\ (x \in Firings => ReportsOK(x))
  BY LocalFacts
<1>3. /\ at[x] = "ended" /\ step[x] \in Commands
      /\ UNCHANGED <<kind, containers>> /\ activeJob' = NoActor
      /\ \A s \in Step \ {step[x]} : history'[x][s] = history[x][s]
      /\ \A y \in Actors \ {x} : history'[y] = history[y] /\ announced'[y] = announced[y]
      /\ "maintenance_complete" \notin announced'[x] /\ history'[x]["gate"] = "none"
  BY <1>1, FinishFacts
<1>4. \A s \in Step : history'[x][s] # "running"
  BY <1>1, FinishRows
<1>5. ~ DownFor(x)
  BY <1>1, <1>2, <1>3 DEF DownFor, AboutToSync, PlaceOK, InCommand, CommandsOf
<1>6. CASE Leave(x)
  <2>1. Local(x)'
    BY <1>2, <1>3, <1>4, <1>6, LeaveLocal
  <2>2. \A y \in Actors \ {x} : Untouched(y)
    BY <1>3, <1>6, LeaveFacts DEF Untouched, Kept, TypeOK
  <2>3. at'[x] = "done" /\ jobMu' = IF jobMu = x THEN NoActor ELSE jobMu
    BY <1>6, LeaveFacts DEF TypeOK
  <2>4. QED
    BY <1>3, <1>5, <2>1, <2>2, <2>3 DEF Effects, Away, Over
<1>7. CASE ~ Leave(x)
  <2>1. GoOn(x, "ready", "fix") /\ kind[x] = "scrub_only"
    BY <1>7 DEF FinishScheduledStep
  <2>2. /\ at'[x] = "ready" /\ step'[x] = "fix" /\ jobMu' = jobMu /\ kind'[x] = kind[x]
        /\ \A y \in Actors \ {x} : at'[y] = at[y] /\ step'[y] = step[y]
        /\ \A y \in Firings : Frozen(y)
    BY <1>3, <2>1, GoOnFacts
  <2>3. \A y \in Actors \ {x} : Untouched(y)
    BY <1>3, <2>2 DEF Untouched, Kept
  <2>4. PlaceOK(x)'
    BY <1>2, <1>3, <2>1, <2>2 DEF PlaceOK, Away, Over, InCommand, InSummary, CommandsOf
  <2>5. RowsOK(x)'
    BY <1>4, <2>2 DEF RowsOK
  <2>6. SyncedOK(x)'
    BY <1>3, <2>1, <2>2 DEF SyncedOK, InSummary, InCommand, Over
  <2>7. x \in Firings => ReportsOK(x)'
    BY <1>2, <2>2, ReportsFrozen DEF AboutToSync
  <2>8. Local(x)'
    BY <2>4, <2>5, <2>6, <2>7, LocalParts
  <2>9. QED
    BY <1>3, <1>5, <2>2, <2>3, <2>8 DEF Effects, Away, Over
<1>8. QED
  BY <1>6, <1>7

LEMMA ManualEffects ==
    ASSUME TypeOK, ActorInv, NEW x \in Actors, FinishManual(x) PROVE Effects(x)
<1>1. at[x] = "ended" /\ kind[x] = "manual" /\ CompleteJob(x) /\ UNCHANGED <<kind, containers>>
  BY DEF FinishManual
<1>2. PlaceOK(x) /\ RowsOK(x) /\ SyncedOK(x)
  BY LocalFacts
<1>3. x \notin Firings /\ step[x] \in Commands
  BY <1>1, <1>2 DEF PlaceOK, Kinds, InCommand, CommandsOf
<1>4. /\ history'[x][step[x]] \in RowStatus \ {"none", "running"}
      /\ \A s \in Step \ {step[x]} : history'[x][s] = history[x][s]
      /\ \A y \in Actors \ {x} : history'[y] = history[y]
  BY <1>1, CompleteFacts, EndStatusKnown
<1>5. \A s \in Step : history'[x][s] # "running"
  BY <1>1, <1>2, <1>4 DEF RowsOK
<1>6. history'[x]["gate"] = "none"
  BY <1>1, <1>2, <1>3, <1>4 DEF SyncedOK, Over, InSummary, Commands, Step
<1>7. /\ \A y \in Actors \ {x} : announced'[y] = announced[y]
      /\ "maintenance_complete" \notin announced'[x]
  <2>1. "maintenance_complete" \notin announced[x]
    BY <1>1, <1>2 DEF SyncedOK, Over
  <2>2. QED
    BY <2>1 DEF FinishManual, Announce, TypeOK
<1>8. CASE Leave(x)
  <2>1. Local(x)'
    BY <1>1, <1>2, <1>5, <1>7, <1>8, LeaveLocal
  <2>2. \A y \in Actors \ {x} : Untouched(y)
    BY <1>1, <1>4, <1>7, <1>8, LeaveFacts DEF Untouched, Kept, TypeOK
  <2>3. at'[x] = "done" /\ jobMu' = IF jobMu = x THEN NoActor ELSE jobMu
    BY <1>8, LeaveFacts DEF TypeOK
  <2>4. activeJob' = NoActor
    <3>1. ~ GoOn(x, "summary", step[x])
      BY <2>3, GoOnFacts
    <3>2. QED
      BY <3>1 DEF FinishManual, ClearJob
  <2>5. QED
    BY <1>1, <1>3, <2>1, <2>2, <2>3, <2>4 DEF Effects, Away, Over
<1>9. CASE ~ Leave(x)
  <2>1. GoOn(x, "summary", step[x]) /\ step[x] \in {"sync", "scrub"} /\ UNCHANGED activeJob
    BY <1>9 DEF FinishManual
  <2>2. /\ at'[x] = "summary" /\ step'[x] = step[x] /\ jobMu' = jobMu /\ kind'[x] = kind[x]
        /\ \A y \in Actors \ {x} : at'[y] = at[y] /\ step'[y] = step[y]
        /\ \A y \in Firings : Frozen(y)
    BY <1>1, <2>1, GoOnFacts
  <2>3. \A y \in Actors \ {x} : Untouched(y)
    BY <1>1, <1>4, <1>7, <2>2 DEF Untouched, Kept
  <2>4. PlaceOK(x)'
    BY <1>1, <1>3, <2>1, <2>2 DEF PlaceOK, Away, Over, InCommand, InSummary
  <2>5. RowsOK(x)'
    BY <1>5, <2>2 DEF RowsOK
  <2>6. SyncedOK(x)'
    BY <1>1, <1>6, <1>7, <2>2 DEF SyncedOK, InSummary, InCommand, Over
  <2>7. Local(x)'
    BY <1>3, <2>4, <2>5, <2>6, LocalParts
  <2>8. QED
    BY <1>1, <1>3, <2>1, <2>2, <2>3, <2>7 DEF Effects, Away, Over, ActiveAt, InSummary
<1>10. QED
  BY <1>8, <1>9

LEMMA ConfigEffects ==
    ASSUME TypeOK, ActorInv, NEW x \in Actors, NEW passed, ConfigGate(x, passed) PROVE Effects(x)
<1>1. /\ at[x] = "config" /\ kind'[x] = kind[x] /\ announced'[x] = announced[x]
      /\ (x \in Firings => Frozen(x)) /\ UNCHANGED <<jobMu, activeJob, containers>>
      /\ \/ at'[x] = "ready" /\ step'[x] = "touch" /\ history' = history
         \/ at'[x] = "summary" /\ step'[x] = "gate" /\ RecordGateFailure(x)
  BY DEF ConfigGate, Goto, TypeOK, Frozen, reportVars
<1>2. PlaceOK(x) /\ RowsOK(x) /\ SyncedOK(x) /\ (x \in Firings => ReportsOK(x))
  BY LocalFacts
<1>3. kind[x] = "maintenance" /\ step[x] = "none"
  BY <1>1, <1>2 DEF PlaceOK
<1>4. \A y \in Actors \ {x} : Untouched(y)
  <2>1. \A y \in Actors \ {x} : history'[y] = history[y]
    BY <1>1, GateFailureFacts
  <2>2. QED
    BY <2>1 DEF ConfigGate, Goto, TypeOK, Untouched, Kept, Frozen, reportVars
<1>5. PlaceOK(x)'
  BY <1>1, <1>2, <1>3 DEF PlaceOK, Away, Over, InCommand, InSummary, CommandsOf, Commands
<1>6. \A s \in Step : history'[x][s] # "running"
  <2>1. \A s \in Step : history[x][s] # "running"
    BY <1>1, <1>2 DEF RowsOK
  <2>2. QED
    BY <1>1, <2>1, GateFailureFacts DEF Step
<1>7. RowsOK(x)'
  BY <1>1, <1>6 DEF RowsOK
<1>8. SyncedOK(x)'
  BY <1>1, <1>2, <1>3 DEF SyncedOK, InSummary, InCommand, Over
<1>9. x \in Firings => ReportsOK(x)'
  BY <1>1, <1>2, ReportsFrozen DEF AboutToSync
<1>10. Local(x)'
  BY <1>5, <1>7, <1>8, <1>9, LocalParts
<1>11. QED
  BY <1>1, <1>4, <1>10 DEF Effects, Away, Over, ActiveAt, InSummary, DownFor, AboutToSync

LEMMA GatesEffects == ASSUME TypeOK, ActorInv, NEW x \in Actors, SafetyGates(x) PROVE Effects(x)
<1>1. /\ at[x] = "gates" /\ kind'[x] = kind[x] /\ announced'[x] = announced[x]
      /\ (x \in Firings => Frozen(x)) /\ UNCHANGED <<jobMu, activeJob, containers>>
      /\ \/ /\ CheckSMART(x) /\ CheckDiffThresholds(report[x])
            /\ at'[x] = "hook" /\ step'[x] = "none" /\ history' = history
         \/ at'[x] = "summary" /\ step'[x] = "gate" /\ RecordGateFailure(x)
  BY DEF SafetyGates, Goto, TypeOK, Frozen, reportVars
<1>2. PlaceOK(x) /\ RowsOK(x) /\ SyncedOK(x) /\ (x \in Firings => ReportsOK(x))
  BY LocalFacts
<1>3. kind[x] = "maintenance" /\ step[x] = "none"
  BY <1>1, <1>2 DEF PlaceOK
<1>4. \A y \in Actors \ {x} : Untouched(y)
  <2>1. \A y \in Actors \ {x} : history'[y] = history[y]
    BY <1>1, GateFailureFacts
  <2>2. QED
    BY <2>1 DEF SafetyGates, Goto, TypeOK, Untouched, Kept, Frozen, reportVars
<1>5. PlaceOK(x)'
  BY <1>1, <1>2, <1>3 DEF PlaceOK, Away, Over, InCommand, InSummary, CommandsOf, Commands
<1>6. \A s \in Step : history'[x][s] # "running"
  <2>1. \A s \in Step : history[x][s] # "running"
    BY <1>1, <1>2 DEF RowsOK
  <2>2. QED
    BY <1>1, <2>1, GateFailureFacts DEF Step
<1>7. RowsOK(x)'
  BY <1>1, <1>6 DEF RowsOK
<1>8. SyncedOK(x)'
  BY <1>1, <1>2, <1>3 DEF SyncedOK, InSummary, InCommand, Over
<1>9. x \in Firings => ReportsOK(x)'
  BY <1>1, <1>2 DEF ReportsOK, Frozen, CheckSMART, AboutToSync
<1>10. Local(x)'
  BY <1>5, <1>7, <1>8, <1>9, LocalParts
<1>11. QED
  BY <1>1, <1>4, <1>10 DEF Effects, Away, Over, ActiveAt, InSummary, DownFor, AboutToSync

LEMMA HookEffects ==
    ASSUME TypeOK, ActorInv, NEW x \in Actors, NEW passed, PreSyncHook(x, passed) PROVE Effects(x)
<1>1. /\ at[x] = "hook" /\ UNCHANGED <<kind, activeJob, containers>>
      /\ \/ GoOn(x, "containers", "none") /\ UNCHANGED <<history, announced>>
         \/ Leave(x) /\ RecordGateFailure(x) /\ Announce(x, {"gate_failed"})
  BY DEF PreSyncHook
<1>2. PlaceOK(x) /\ RowsOK(x) /\ SyncedOK(x) /\ (x \in Firings => ReportsOK(x))
  BY LocalFacts
<1>3. kind[x] = "maintenance" /\ step[x] = "none"
  BY <1>1, <1>2 DEF PlaceOK
<1>4. CASE GoOn(x, "containers", "none") /\ UNCHANGED <<history, announced>>
  <2>1. /\ at'[x] = "containers" /\ step'[x] = "none" /\ jobMu' = jobMu
        /\ \A y \in Actors \ {x} : at'[y] = at[y] /\ step'[y] = step[y]
        /\ \A y \in Firings : Frozen(y)
    BY <1>4, GoOnFacts
  <2>2. \A y \in Actors \ {x} : Untouched(y)
    BY <1>1, <1>4, <2>1 DEF Untouched, Kept
  <2>3. PlaceOK(x)'
    BY <1>1, <1>2, <1>3, <2>1 DEF PlaceOK, Away, Over, InCommand, InSummary
  <2>4. RowsOK(x)'
    BY <1>1, <1>2, <1>4, <2>1, RowsKept
  <2>5. SyncedOK(x)'
    BY <1>1, <1>2, <1>4, <2>1 DEF SyncedOK, InSummary, InCommand, Over
  <2>6. x \in Firings => ReportsOK(x)'
    BY <1>1, <1>2, <1>3, <2>1, ReportsFrozen DEF AboutToSync
  <2>7. Local(x)'
    BY <2>3, <2>4, <2>5, <2>6, LocalParts
  <2>8. QED
    BY <1>1, <1>3, <2>1, <2>2, <2>7 DEF Effects, Away, Over, ActiveAt, InSummary, DownFor, AboutToSync
<1>5. CASE Leave(x) /\ RecordGateFailure(x) /\ Announce(x, {"gate_failed"})
  <2>1. /\ at'[x] = "done" /\ jobMu' = IF jobMu = x THEN NoActor ELSE jobMu
        /\ \A y \in Actors \ {x} : at'[y] = at[y] /\ step'[y] = step[y]
        /\ \A y \in Firings \ {x} : Frozen(y)
    BY <1>5, LeaveFacts DEF TypeOK
  <2>2. /\ \A y \in Actors \ {x} : announced'[y] = announced[y]
        /\ announced'[x] = announced[x] \union {"gate_failed"}
    BY <1>5 DEF Announce, TypeOK
  <2>3. \A y \in Actors \ {x} : history'[y] = history[y]
    BY <1>5, GateFailureFacts
  <2>4. \A y \in Actors \ {x} : Untouched(y)
    BY <1>1, <2>1, <2>2, <2>3 DEF Untouched, Kept
  <2>5. \A s \in Step : history'[x][s] # "running"
    <3>1. \A s \in Step : history[x][s] # "running"
      BY <1>1, <1>2 DEF RowsOK
    <3>2. QED
      BY <1>5, <3>1, GateFailureFacts DEF Step
  <2>6. "maintenance_complete" \notin announced'[x]
    BY <1>1, <1>2, <2>2 DEF SyncedOK, Over
  <2>7. Local(x)'
    BY <1>1, <1>2, <1>5, <2>5, <2>6, LeaveLocal
  <2>8. QED
    BY <1>1, <1>3, <2>1, <2>4, <2>7 DEF Effects, Away, Over, ActiveAt, InSummary, DownFor, AboutToSync
<1>6. QED
  BY <1>1, <1>4, <1>5

LEMMA StopEffects == ASSUME TypeOK, ActorInv, NEW x \in Actors, StopContainers(x) PROVE Effects(x)
<1>1. /\ at[x] = "containers" /\ at'[x] = "ready" /\ step'[x] = "sync" /\ Kept(x)
      /\ \A y \in Actors \ {x} : Untouched(y)
      /\ UNCHANGED <<jobMu, activeJob>> /\ containers' = "down"
  BY DEF StopContainers, Goto, TypeOK, Kept, Untouched, Frozen, reportVars, boardVars
<1>2. PlaceOK(x) /\ RowsOK(x) /\ SyncedOK(x) /\ (x \in Firings => ReportsOK(x))
  BY LocalFacts
<1>3. kind[x] = "maintenance" /\ kind'[x] = "maintenance" /\ x \in Firings
  BY <1>1, <1>2 DEF PlaceOK, Kinds, Kept
<1>4. PlaceOK(x)'
  BY <1>1, <1>2, <1>3 DEF PlaceOK, Away, Over, InCommand, InSummary, CommandsOf, Commands
<1>5. RowsOK(x)'
  BY <1>1, <1>2, RowsKept DEF Kept
<1>6. SyncedOK(x)'
  BY <1>1, <1>2 DEF SyncedOK, Kept, InSummary, InCommand, Over
<1>7. ReportsOK(x)'
  BY <1>1, <1>2, <1>3, ReportsFrozen DEF AboutToSync, Kept
<1>8. Local(x)'
  BY <1>4, <1>5, <1>6, <1>7, LocalParts
<1>9. QED
  BY <1>1, <1>3, <1>8 DEF Effects, Away, Over, ActiveAt, InSummary, DownFor, AboutToSync

LEMMA RestoreEffects ==
    ASSUME TypeOK, ActorInv, NEW x \in Actors, NEW restored, RestoreContainers(x, restored)
    PROVE  Effects(x)
<1>1. /\ at[x] = "restore" /\ UNCHANGED <<kind, activeJob, history, announced>>
      /\ containers' # "down"
      /\ IF SyncDone(x) THEN GoOn(x, "ready", "scrub") ELSE Leave(x)
  BY DEF RestoreContainers, boardVars
<1>2. PlaceOK(x) /\ RowsOK(x) /\ SyncedOK(x) /\ (x \in Firings => ReportsOK(x))
  BY LocalFacts
<1>3. kind[x] = "maintenance" /\ \A s \in Step : history[x][s] # "running"
  BY <1>1, <1>2 DEF PlaceOK, RowsOK
<1>4. CASE SyncDone(x)
  <2>1. /\ at'[x] = "ready" /\ step'[x] = "scrub" /\ jobMu' = jobMu
        /\ \A y \in Actors \ {x} : at'[y] = at[y] /\ step'[y] = step[y]
        /\ \A y \in Firings : Frozen(y)
    BY <1>1, <1>4, GoOnFacts
  <2>2. \A y \in Actors \ {x} : Untouched(y)
    BY <1>1, <2>1 DEF Untouched, Kept
  <2>3. PlaceOK(x)'
    BY <1>1, <1>2, <1>3, <2>1 DEF PlaceOK, Away, Over, InCommand, InSummary, CommandsOf, Commands
  <2>4. RowsOK(x)'
    BY <1>1, <1>2, <2>1, RowsKept
  <2>5. SyncedOK(x)'
    BY <1>1, <1>2, <1>4, <2>1 DEF SyncedOK, InSummary, InCommand, Over, SyncDone
  <2>6. x \in Firings => ReportsOK(x)'
    BY <1>2, <2>1, ReportsFrozen DEF AboutToSync
  <2>7. Local(x)'
    BY <2>3, <2>4, <2>5, <2>6, LocalParts
  <2>8. QED
    BY <1>1, <2>1, <2>2, <2>7 DEF Effects, Away, Over, ActiveAt, InSummary
<1>5. CASE ~ SyncDone(x)
  <2>1. /\ at'[x] = "done" /\ jobMu' = IF jobMu = x THEN NoActor ELSE jobMu
        /\ \A y \in Actors \ {x} : at'[y] = at[y] /\ step'[y] = step[y]
        /\ \A y \in Firings \ {x} : Frozen(y)
    BY <1>1, <1>5, LeaveFacts DEF TypeOK
  <2>2. \A y \in Actors \ {x} : Untouched(y)
    BY <1>1, <2>1 DEF Untouched, Kept
  <2>3. "maintenance_complete" \notin announced'[x]
    BY <1>1, <1>2 DEF SyncedOK, Over
  <2>4. Local(x)'
    BY <1>1, <1>2, <1>3, <1>5, <2>3, LeaveLocal
  <2>5. QED
    BY <1>1, <2>1, <2>2, <2>4 DEF Effects, Away, Over, ActiveAt, InSummary
<1>6. QED
  BY <1>4, <1>5

LEMMA StartSummaryEffects ==
    ASSUME TypeOK, ActorInv, NEW x \in Actors, StartSummary(x) PROVE Effects(x)
<1>1. /\ at[x] = "summary" /\ at'[x] = "summarising" /\ step'[x] = step[x] /\ Kept(x)
      /\ \A y \in Actors \ {x} : Untouched(y)
      /\ UNCHANGED <<jobMu, activeJob, containers>>
  BY DEF StartSummary, Goto, TypeOK, Kept, Untouched, Frozen, reportVars, boardVars
<1>2. PlaceOK(x) /\ RowsOK(x) /\ SyncedOK(x) /\ (x \in Firings => ReportsOK(x))
  BY LocalFacts
<1>3. PlaceOK(x)'
  BY <1>1, <1>2 DEF PlaceOK, Away, Over, InCommand, InSummary, Kept
<1>4. RowsOK(x)'
  BY <1>1, <1>2, RowsKept DEF Kept
<1>5. SyncedOK(x)'
  BY <1>1, <1>2 DEF SyncedOK, Kept, InSummary, InCommand, Over, SyncDone
<1>6. x \in Firings => ReportsOK(x)'
  BY <1>1, <1>2, ReportsFrozen DEF AboutToSync, Kept
<1>7. Local(x)'
  BY <1>3, <1>4, <1>5, <1>6, LocalParts
<1>8. QED
  BY <1>1, <1>7 DEF Effects, Away, Over, ActiveAt, InSummary, DownFor, AboutToSync, Kept

LEMMA SummaryEffects ==
    ASSUME TypeOK, ActorInv, NEW x \in Actors, EndSummary(x) \/ SkipSummary(x) PROVE Effects(x)
<1>1. /\ InSummary(x) /\ Leave(x) /\ UNCHANGED <<kind, history, containers>>
      /\ IF kind[x] = "manual" THEN activeJob' = NoActor ELSE activeJob' = activeJob
  <2>1. AfterSummary(x) /\ InSummary(x)
    <3>1. ASSUME EndSummary(x) PROVE at[x] \in {"summary", "summarising"}
      BY <3>1 DEF EndSummary
    <3>2. QED
      BY <3>1 DEF EndSummary, SkipSummary, InSummary
  <2>2. QED
    BY <2>1 DEF AfterSummary, ClearJob
<1>2. PlaceOK(x) /\ RowsOK(x) /\ SyncedOK(x) /\ (x \in Firings => ReportsOK(x))
  BY LocalFacts
<1>3. /\ at'[x] = "done" /\ jobMu' = IF jobMu = x THEN NoActor ELSE jobMu
      /\ \A y \in Actors \ {x} : at'[y] = at[y] /\ step'[y] = step[y]
      /\ \A y \in Firings \ {x} : Frozen(y)
  BY <1>1, LeaveFacts DEF TypeOK
<1>4. PICK events : /\ Announce(x, events)
                    /\ "maintenance_complete" \in events =>
                           kind[x] \notin {"manual", "refresh"} /\ step[x] # "gate"
  BY DEF EndSummary, SkipSummary, AfterSummary
<1>5. /\ \A y \in Actors \ {x} : announced'[y] = announced[y]
      /\ announced'[x] = announced[x] \union events
  BY <1>4 DEF Announce, TypeOK
<1>6. \A y \in Actors \ {x} : Untouched(y)
  BY <1>1, <1>3, <1>5 DEF Untouched, Kept
<1>7. \A s \in Step : history'[x][s] # "running"
  BY <1>1, <1>2 DEF InSummary, RowsOK
<1>8. "maintenance_complete" \in announced'[x] => SyncDone(x)' /\ history'[x]["gate"] = "none"
  <2>1. "maintenance_complete" \notin announced[x]
    BY <1>1, <1>2 DEF SyncedOK, Over, InSummary
  <2>2. kind[x] \notin {"manual", "refresh"} /\ step[x] # "gate" =>
            kind[x] = "maintenance" /\ step[x] = "none"
    BY <1>1, <1>2 DEF PlaceOK
  <2>3. kind[x] = "maintenance" /\ step[x] = "none" => SyncDone(x) /\ history[x]["gate"] = "none"
    BY <1>1, <1>2 DEF SyncedOK, Over, InSummary
  <2>4. QED
    BY <1>1, <1>4, <1>5, <2>1, <2>2, <2>3 DEF SyncDone
<1>9. Local(x)'
  BY <1>1, <1>2, <1>7, <1>8, LeaveLocal DEF InSummary
<1>10. QED
  BY <1>1, <1>3, <1>6, <1>9 DEF Effects, Away, Over, ActiveAt, InSummary, DownFor, AboutToSync

LEMMA ProceedEffects ==
    ASSUME TypeOK, ActorInv, NEW x \in Actors,
           Proceed(x) \/ EndSummary(x) \/ \E o \in Outcome : EndCommand(x, o)
    PROVE  Effects(x) /\ crashes' = crashes
<1>1. Effects(x)
  <2>1. CASE Accept(x) \/ BeginStep(x) \/ StartCommand(x) \/ RefuseCommand(x)
    BY <2>1, AcceptEffects, BeginEffects, StartEffects
  <2>2. CASE \E o \in Outcome : EndCommand(x, o)
    BY <2>2, EndEffects
  <2>3. CASE FinishMaintenanceStep(x) \/ FinishScheduledStep(x) \/ FinishManual(x)
    BY <2>3, MaintenanceEffects, ScheduledEffects, ManualEffects
  <2>4. CASE \/ \E passed \in BOOLEAN : ConfigGate(x, passed) \/ PreSyncHook(x, passed)
             \/ SafetyGates(x)
    BY <2>4, ConfigEffects, HookEffects, GatesEffects
  <2>5. CASE StopContainers(x) \/ \E restored \in BOOLEAN : RestoreContainers(x, restored)
    BY <2>5, StopEffects, RestoreEffects
  <2>6. CASE StartSummary(x) \/ SkipSummary(x) \/ EndSummary(x)
    BY <2>6, StartSummaryEffects, SummaryEffects
  <2>7. QED
    BY <2>1, <2>2, <2>3, <2>4, <2>5, <2>6 DEF Proceed
<1>2. crashes' = crashes
  BY DEF Proceed, Accept, BeginStep, StartCommand, RefuseCommand, EndCommand,
         FinishMaintenanceStep, FinishScheduledStep, FinishStep, FinishManual, ConfigGate,
         PreSyncHook, SafetyGates, StopContainers, RestoreContainers, StartSummary,
         SkipSummary, EndSummary, AfterSummary
<1>3. QED
  BY <1>1, <1>2

\* What the actors share, after one of them has moved.
LEMMA EffectsKeep ==
    ASSUME Inv, NEW x \in Actors, Effects(x), crashes' = crashes
    PROVE  ActorInv' /\ JobMuInv' /\ ActiveInv' /\ ContainersComeBack'
<1>1. \A y \in Actors \ {x} : /\ Local(y) => Local(y)'
                              /\ Away(y)' = Away(y)
                              /\ ActiveAt(y) => ActiveAt(y)'
                              /\ DownFor(y) => DownFor(y)'
  BY UntouchedStays DEF Effects
<1>2. Firings \subseteq Actors /\ NoActor \notin Actors
  BY ActorsAssumption DEF Actors
<1>3. ActorInv'
  BY <1>1 DEF Effects, Inv, ActorInv
<1>4. JobMuInv'
  BY <1>1, <1>2 DEF Effects, Inv, JobMuInv
<1>5. ActiveInv'
  <2>1. activeJob \in Actors \union {NoActor} /\ (activeJob # NoActor => ActiveAt(activeJob))
    BY DEF Inv, TypeOK, ActiveInv, ActiveAt
  <2>2. \A y \in Actors : activeJob' = y => ActiveAt(y)' \/ activeJob' = NoActor
    BY <1>1, <2>1 DEF Effects
  <2>3. activeJob' \in Actors \union {NoActor}
    BY <2>1 DEF Effects
  <2>4. QED
    BY <2>2, <2>3 DEF ActiveInv, ActiveAt, InSummary
<1>6. ContainersComeBack'
  <2>1. containers = "down" => (\E y \in Firings : DownFor(y)) \/ crashes > 0
    BY DEF Inv, ContainersComeBack, DownFor
  <2>2. containers' = "down" => (\E y \in Firings : DownFor(y)') \/ crashes > 0
    BY <1>1, <1>2, <2>1 DEF Effects
  <2>3. QED
    BY <2>2 DEF ContainersComeBack, DownFor
<1>7. QED
  BY <1>3, <1>4, <1>5, <1>6

(***************************************************************************)
(* How an actor starts, and what moves none.                               *)
(***************************************************************************)

\* An actor starts: nothing has happened on its behalf yet.
LEMMA StartsLocal ==
    ASSUME TypeOK, ActorInv, NEW x \in Actors, at[x] = "idle", PlaceOK(x)',
           at'[x] \in {"config", "ready", "skipped", "probing", "refused", "summary"},
           kind'[x] = "maintenance" => at'[x] \in {"config", "skipped"},
           history'[x] = history[x], x \in Firings => Frozen(x),
           "maintenance_complete" \in announced'[x] => "maintenance_complete" \in announced[x]
    PROVE  Local(x)'
<1>1. PlaceOK(x) /\ RowsOK(x) /\ SyncedOK(x) /\ (x \in Firings => ReportsOK(x))
  BY LocalFacts
<1>2. RowsOK(x)'
  BY <1>1, RowsKept
<1>3. SyncedOK(x)'
  BY <1>1 DEF SyncedOK, InSummary, InCommand, Over
<1>4. x \in Firings => ReportsOK(x)'
  BY <1>1, ReportsFrozen DEF AboutToSync
<1>5. QED
  BY <1>2, <1>3, <1>4, LocalParts

LEMMA FireStep ==
    ASSUME Inv, NEW x \in Firings, NEW k \in Kinds, Fire(x, k)
    PROVE  ActorInv' /\ JobMuInv' /\ ActiveInv' /\ ContainersComeBack'
<1>0. TypeOK /\ ActorInv /\ x \in Actors /\ NoActor \notin Actors /\ Firings \subseteq Actors
  BY ActorsAssumption DEF Inv, Actors
<1>1. /\ at[x] = "idle" /\ kind'[x] = k /\ UNCHANGED <<history, activeJob, containers, crashes>>
      /\ \A y \in Firings : Frozen(y)
  BY <1>0 DEF Fire, TypeOK, Frozen, reportVars, boardVars
<1>2. /\ \/ /\ jobMu = NoActor /\ jobMu' = x
            /\ \/ k = "maintenance" /\ at'[x] = "config" /\ step'[x] = "none"
               \/ k = "scrub_only" /\ at'[x] = "ready" /\ step'[x] = "scrub"
               \/ k = "status_refresh" /\ at'[x] = "ready" /\ step'[x] = "status"
         \/ at'[x] = "skipped" /\ step'[x] = "none" /\ jobMu' = jobMu
  BY <1>0 DEF Fire, JobMuFree, Goto, TypeOK, Kinds
<1>3. /\ \A y \in Actors \ {x} : announced'[y] = announced[y]
      /\ "maintenance_complete" \in announced'[x] => "maintenance_complete" \in announced[x]
  <2>1. CASE JobMuFree
    <3>1. PICK events \in {{}, {"maintenance_started"}, {"scrub_started"}} : Announce(x, events)
      BY <2>1 DEF Fire, Kinds
    <3>2. QED
      BY <1>0, <3>1 DEF Announce, TypeOK
  <2>2. CASE ~ JobMuFree
    BY <2>2 DEF Fire
  <2>3. QED
    BY <2>1, <2>2
<1>4. \A y \in Actors \ {x} : Untouched(y)
  <2>1. \E place \in Location, s \in Step : Goto(x, place, s)
    BY DEF Fire, Kinds, Location, Step
  <2>2. \A y \in Actors \ {x} : at'[y] = at[y] /\ step'[y] = step[y]
    BY <1>0, <2>1 DEF Goto, TypeOK
  <2>3. \A y \in Actors \ {x} : kind'[y] = kind[y]
    BY <1>0 DEF Fire, TypeOK
  <2>4. QED
    BY <1>1, <1>3, <2>2, <2>3 DEF Untouched, Kept
<1>5. PlaceOK(x)'
  BY <1>1, <1>2 DEF PlaceOK, Away, Over, InCommand, InSummary, CommandsOf, Kinds
<1>6. Local(x)'
  BY <1>0, <1>1, <1>2, <1>3, <1>5, StartsLocal
<1>7. \A y \in Actors \ {x} : /\ Local(y) => Local(y)'
                              /\ Away(y)' = Away(y)
                              /\ ActiveAt(y) => ActiveAt(y)'
                              /\ DownFor(y) => DownFor(y)'
  BY <1>4, UntouchedStays
<1>8. ActorInv'
  BY <1>0, <1>6, <1>7 DEF ActorInv
<1>9. JobMuInv'
  BY <1>0, <1>1, <1>2, <1>7 DEF Inv, JobMuInv, Away, Over
<1>10. ActiveInv'
  <2>1. activeJob # NoActor => activeJob \in Actors \ {x} /\ ActiveAt(activeJob)
    BY <1>0, <1>1 DEF Inv, TypeOK, ActiveInv, ActiveAt, InSummary
  <2>2. QED
    BY <1>1, <1>7, <2>1 DEF ActiveInv, ActiveAt, InSummary
<1>11. ContainersComeBack'
  <2>1. ~ DownFor(x)
    BY <1>1 DEF DownFor, AboutToSync
  <2>2. containers = "down" => (\E y \in Firings : DownFor(y)) \/ crashes > 0
    BY DEF Inv, ContainersComeBack, DownFor
  <2>3. containers' = "down" => (\E y \in Firings : DownFor(y)') \/ crashes' > 0
    BY <1>0, <1>1, <1>7, <2>1, <2>2
  <2>4. QED
    BY <2>3 DEF ContainersComeBack, DownFor
<1>12. QED
  BY <1>8, <1>9, <1>10, <1>11

LEMMA RequestStep ==
    ASSUME Inv, NEW x \in Requests,
           StartRefresh(x) \/ \E verb \in Verbs \ {"refresh"} : Probe(x, verb)
    PROVE  ActorInv' /\ JobMuInv' /\ ActiveInv' /\ ContainersComeBack'
<1>0. TypeOK /\ ActorInv /\ x \in Actors \ Firings /\ NoActor \notin Actors /\ Firings \subseteq Actors
  BY ActorsAssumption DEF Inv, Actors
<1>1. /\ at[x] = "idle" /\ UNCHANGED <<jobMu, history, announced, activeJob, containers, crashes>>
      /\ \A y \in Firings : Frozen(y)
  BY <1>0 DEF StartRefresh, Probe, Frozen, reportVars, boardVars
<1>2. \/ kind'[x] = "refresh" /\ at'[x] = "summary" /\ step'[x] = "none"
      \/ kind'[x] = "manual" /\ at'[x] = "refused" /\ step'[x] = "none"
      \/ kind'[x] = "manual" /\ at'[x] = "probing" /\ step'[x] \in Commands
  <2>1. Verbs \ {"refresh"} \subseteq Commands
    BY VerbsAssumption DEF Commands
  <2>2. QED
    BY <1>0, <2>1 DEF StartRefresh, Probe, Goto, TypeOK
<1>3. \A y \in Actors \ {x} : Untouched(y)
  BY <1>0, <1>1 DEF StartRefresh, Probe, Goto, TypeOK, Untouched, Kept
<1>4. PlaceOK(x)'
  BY <1>0, <1>2 DEF PlaceOK, Away, Over, InCommand, InSummary
<1>5. Local(x)'
  BY <1>0, <1>1, <1>2, <1>4, StartsLocal
<1>6. \A y \in Actors \ {x} : /\ Local(y) => Local(y)'
                              /\ Away(y)' = Away(y)
                              /\ ActiveAt(y) => ActiveAt(y)'
                              /\ DownFor(y) => DownFor(y)'
  BY <1>3, UntouchedStays
<1>7. ActorInv'
  BY <1>0, <1>5, <1>6 DEF ActorInv
<1>8. JobMuInv'
  BY <1>0, <1>1, <1>6 DEF Inv, JobMuInv
<1>9. ActiveInv'
  <2>1. activeJob # NoActor => activeJob \in Actors \ {x} /\ ActiveAt(activeJob)
    BY <1>0, <1>1 DEF Inv, TypeOK, ActiveInv, ActiveAt, InSummary
  <2>2. QED
    BY <1>1, <1>6, <2>1 DEF ActiveInv, ActiveAt, InSummary
<1>10. ContainersComeBack'
  <2>1. containers = "down" => (\E y \in Firings : DownFor(y)) \/ crashes > 0
    BY DEF Inv, ContainersComeBack, DownFor
  <2>2. containers' = "down" => (\E y \in Firings : DownFor(y)') \/ crashes' > 0
    BY <1>0, <1>1, <1>6, <2>1
  <2>3. QED
    BY <2>2 DEF ContainersComeBack, DownFor
<1>11. QED
  BY <1>7, <1>8, <1>9, <1>10

\* Aborts, timeouts and what happens on the disks move no actor.
LEMMA QuietStep ==
    ASSUME Inv,
           \/ AbortLookup
           \/ \E x \in Actors : AbortCancel(x) \/ Timeout(x)
           \/ \E r \in Reports : ChangeFiles(r)
           \/ DiskFails
           \/ UNCHANGED vars
    PROVE  ActorInv' /\ JobMuInv' /\ ActiveInv' /\ ContainersComeBack'
<1>1. UNCHANGED <<at, kind, step, history, announced, jobMu, activeJob, containers, crashes,
                  report, truth, suspect, sick, cut>>
  BY DEF AbortLookup, AbortCancel, Timeout, ChangeFiles, DiskFails, vars, actorVars, reportVars,
         boardVars
<1>2. \A y \in Actors : Untouched(y)
  BY <1>1 DEF Untouched, Kept, Frozen
<1>3. \A y \in Actors : /\ Local(y) => Local(y)'
                        /\ Away(y)' = Away(y)
                        /\ ActiveAt(y) => ActiveAt(y)'
                        /\ DownFor(y) => DownFor(y)'
  BY <1>2, UntouchedStays
<1>4. Firings \subseteq Actors
  BY DEF Actors
<1>5. ActorInv' /\ JobMuInv'
  BY <1>1, <1>3, <1>4 DEF Inv, ActorInv, JobMuInv
<1>6. ActiveInv'
  BY <1>1 DEF Inv, ActiveInv, InSummary
<1>7. ContainersComeBack'
  BY <1>1 DEF Inv, ContainersComeBack, AboutToSync
<1>8. QED
  BY <1>5, <1>6, <1>7

LEMMA CrashStep ==
    ASSUME Inv, CrashRestart PROVE ActorInv' /\ JobMuInv' /\ ActiveInv' /\ ContainersComeBack'
<1>1. /\ \A x \in Actors : step'[x] = "none" /\ at'[x] = IF Away(x) THEN at[x] ELSE "dead"
      /\ \A x \in Firings : report'[x] = NoChanges /\ truth'[x] = NoChanges
      /\ suspect' = {} /\ sick' = {} /\ jobMu' = NoActor /\ activeJob' = NoActor
      /\ UNCHANGED <<kind, history, announced>> /\ crashes' = crashes + 1 /\ crashes \in Nat
  BY CrashesAssumption DEF CrashRestart, Inv, TypeOK, Away
<1>2. ASSUME NEW x \in Actors PROVE Local(x)'
  <2>0. PlaceOK(x) /\ RowsOK(x) /\ SyncedOK(x)
    BY LocalFacts DEF Inv
  <2>1. at'[x] = "idle" \/ at'[x] \in {"skipped", "refused", "done", "dead"}
    BY <1>1 DEF Away, Over
  <2>2. PlaceOK(x)'
    BY <1>1, <2>0, <2>1 DEF PlaceOK, Away, Over, InCommand, InSummary
  <2>3. RowsOK(x)'
    BY <1>1, <2>0, <2>1 DEF RowsOK, Away, Over
  <2>4. SyncedOK(x)'
    BY <1>1, <2>0, <2>1 DEF SyncedOK, Away, Over, InCommand, InSummary, SyncDone
  <2>5. x \in Firings => ReportsOK(x)'
    BY <1>1, <2>1, ReportsAway DEF AboutToSync
  <2>6. QED
    BY <2>2, <2>3, <2>4, <2>5, LocalParts
<1>3. JobMuInv'
  <2>1. \A x \in Firings : x \in Actors /\ x # NoActor
    BY ActorsAssumption DEF Actors
  <2>2. \A x \in Actors : Away(x)'
    BY <1>1 DEF Away, Over
  <2>3. QED
    BY <1>1, <2>1, <2>2 DEF JobMuInv
<1>4. QED
  BY <1>1, <1>2, <1>3 DEF ActorInv, ActiveInv, ContainersComeBack

LEMMA InitInv == Init => Inv
<1> SUFFICES ASSUME Init PROVE Inv
  OBVIOUS
<1>1. ASSUME NEW x \in Actors PROVE Local(x)
  <2>1. /\ at[x] = "idle" /\ step[x] = "none" /\ announced[x] = {}
        /\ \A s \in Step : history[x][s] = "none"
        /\ "gate" \in Step
    BY DEF Init, Step
  <2>2. PlaceOK(x) /\ RowsOK(x) /\ SyncedOK(x)
    BY <2>1 DEF PlaceOK, RowsOK, SyncedOK, Away, Over, InCommand, InSummary
  <2>3. x \in Firings => ReportsOK(x)
    BY <2>1 DEF Init, ReportsOK, AboutToSync
  <2>4. QED
    BY <2>2, <2>3 DEF Local
<1>2. JobMuInv
  BY ActorsAssumption DEF Init, JobMuInv, Away, Actors
<1>3. QED
  BY <1>1, <1>2, InitTypes DEF Inv, ActorInv, Init, ActiveInv, ContainersComeBack

LEMMA InvStep == Inv /\ [Next]_vars => Inv'
<1> SUFFICES ASSUME Inv, [Next]_vars PROVE Inv'
  OBVIOUS
<1>0. TypeOK /\ ActorInv /\ TypeOK'
  BY TypeStep DEF Inv
<1>1. CASE \E x \in Firings, k \in Kinds : Fire(x, k)
  BY <1>0, <1>1, FireStep DEF Inv
<1>2. CASE \E x \in Requests : \/ \E verb \in Verbs \ {"refresh"} : Probe(x, verb)
                               \/ StartRefresh(x)
  BY <1>0, <1>2, RequestStep DEF Inv
<1>3. CASE \E x \in Actors : Proceed(x) \/ EndSummary(x) \/ \E o \in Outcome : EndCommand(x, o)
  BY <1>0, <1>3, ProceedEffects, EffectsKeep DEF Inv
<1>4. CASE \/ AbortLookup
           \/ \E x \in Actors : AbortCancel(x) \/ Timeout(x)
           \/ \E r \in Reports : ChangeFiles(r)
           \/ DiskFails
           \/ UNCHANGED vars
  BY <1>0, <1>4, QuietStep DEF Inv
<1>5. CASE CrashRestart
  BY <1>0, <1>5, CrashStep DEF Inv
<1>6. QED
  BY <1>1, <1>2, <1>3, <1>4, <1>5 DEF Next

LEMMA InvAlways == Spec => []Inv
BY InitInv, InvStep, PTL DEF Spec

(***************************************************************************)
(* The theorems.                                                           *)
(***************************************************************************)

\* The pipelines, the engine and the job history keep their types.
THEOREM AgentTypes == Spec => []TypeOK
<1>1. Inv => TypeOK
  BY DEF Inv
<1>2. QED
  BY <1>1, InvAlways, PTL

\* Cron firings that overlap never make two pipelines: jobMu is held from runScheduled to the
\* end of the pipeline, and a firing that does not get it is skipped.
THEOREM OnePipeline == Spec => []OnePipelineAtATime
<1>1. Inv => OnePipelineAtATime
  BY DEF Inv, JobMuInv, Away, OnePipelineAtATime
<1>2. QED
  BY <1>1, InvAlways, PTL

\* What passes CheckDiffThresholds keeps to the documented limits of the configuration,
\* whatever these are, but for the updates beside deletions that additions override.
LEMMA ThresholdsAreLimits ==
    ASSUME NEW r \in Report, CheckDiffThresholds(r)
    PROVE  /\ DeletionsAllowed(r)
           /\ UpdatesAllowed(r) \/ (r.removed > MaxDeleted /\ DeletionsOverridden(r))
<1>1. r.removed \in Nat /\ r.updated \in Nat /\ r.added \in Nat
  BY DEF Report
<1>2. CASE MaxDeleted >= 0 /\ r.removed > MaxDeleted
  BY <1>2 DEF CheckDiffThresholds, DeletionsAllowed, DeletionsOverridden
<1>3. CASE ~ (MaxDeleted >= 0 /\ r.removed > MaxDeleted)
  BY <1>1, <1>3, ThresholdsAssumption DEF CheckDiffThresholds, DeletionsAllowed, UpdatesAllowed
<1>4. QED
  BY <1>2, <1>3

\* The safety gates of RunMaintenance: no pipeline is on its way to a sync with a failing disk
\* or a diff over the documented limits, if its diff and its SMART check ended by themselves,
\* for all thresholds, whatever the files and disks did meanwhile; only where additions
\* override a breach of the deletion limit may the updates exceed theirs.
THEOREM GatesGuard == Spec => []GatesGuardSync
<1>1. Inv => GatesGuardSync
  <2> SUFFICES ASSUME Inv, NEW x \in Firings, AboutToSync(x), x \notin cut
               PROVE  /\ x \notin sick
                      /\ DeletionsAllowed(truth[x])
                      /\ \/ UpdatesAllowed(truth[x])
                         \/ truth[x].removed > MaxDeleted /\ DeletionsOverridden(truth[x])
    BY DEF GatesGuardSync
  <2>1. ReportsOK(x)
    BY LocalFacts DEF Inv, Actors
  <2>2. report[x] = truth[x] /\ x \notin sick /\ CheckDiffThresholds(report[x])
    BY <2>1 DEF ReportsOK, CheckSMART
  <2>3. truth[x] \in Report
    BY DEF Inv, TypeOK
  <2>4. QED
    BY <2>2, <2>3, ThresholdsAreLimits
<1>2. QED
  BY <1>1, InvAlways, PTL

\* Every path through runStep and runCommand, a refusal by the engine included, completes the
\* row of its step in the job history.
THEOREM HistoryFollows == Spec => []HistoryFollowsJobs
<1>1. Inv => HistoryFollowsJobs
  BY DEF Inv, ActorInv, Local, RowsOK, HistoryFollowsJobs
<1>2. QED
  BY <1>1, InvAlways, PTL

\* Pipelines, commands and status queries share one slot for the active job, and nevertheless
\* it never shows a job that is over.
THEOREM ActiveJobIsLive == Spec => []NoStaleActiveJob
<1>1. Inv => NoStaleActiveJob
  BY DEF Inv, ActiveInv, InSummary, NoStaleActiveJob
<1>2. QED
  BY <1>1, InvAlways, PTL

\* manageContainers: whatever becomes of the sync, containers stay down only if the agent
\* dies before it restores them.
THEOREM ContainersRestored == Spec => []ContainersComeBack
<1>1. Inv => ContainersComeBack
  BY DEF Inv
<1>2. QED
  BY <1>1, InvAlways, PTL

\* RunMaintenance announces maintenance_complete only after a sync that succeeded and with no
\* gate failed.
THEOREM CompletionSynced == Spec => []CompletionMeansSynced
<1>1. Inv => CompletionMeansSynced
  <2> SUFFICES ASSUME Inv, NEW x \in Firings PROVE SyncedOK(x) /\ x \in Actors
    BY DEF CompletionMeansSynced, SyncedOK, SyncDone
  <2>1. x \in Actors
    BY DEF Actors
  <2>2. QED
    BY <2>1, LocalFacts DEF Inv
<1>2. QED
  BY <1>1, InvAlways, PTL

=============================================================================
