------------------------------ MODULE SnapraidHub ------------------------------
(***************************************************************************)
(* The telemetry path from a SnapRAID agent to Vigil.  On the agent: the   *)
(* Collector of internal/agent/telemetry.go with its one slot for the      *)
(* active job and one for the last event, the two goroutines that write    *)
(* them (a manual command, server.go runCommand; a pipeline, pipeline.go), *)
(* and the forwarder, which posts one frame at a time.  On the hub: the    *)
(* Aggregator, whose ingest handlers run at once when the agent has given  *)
(* up on a post, the registry's view of the agent, and the liveness        *)
(* monitor of liveness.go.                                                 *)
(*                                                                         *)
(* A frame carries the active job and the last event; the SMART table it   *)
(* also carries, and the warnings made from it, are left out.  Jobs are    *)
(* numbered as they start and events as they are emitted.  The outcomes of *)
(* jobs are one type of event, good or bad, as are the start and the end   *)
(* of a maintenance; all failing gates report one message.  The upstream   *)
(* channel and the WebSocket behind Send are the module VigilLink: here a  *)
(* Send succeeds exactly while the link is up, and only the Sends of       *)
(* events leave a trace.                                                   *)
(***************************************************************************)
EXTENDS Integers

CONSTANTS
    MaxJobs,      \* bound on the jobs started
    MaxEvents,    \* bound on the events emitted
    MaxFaults,    \* bound on restarts, lost posts, link failures and deletions
    Handlers      \* the ingest handlers that may run at once on the hub

ASSUME BoundsAssumption == MaxJobs \in Nat /\ MaxEvents \in Nat /\ MaxFaults \in Nat
ASSUME HandlersAssumption == Handlers \subseteq Nat \ {0}

NoHandler == 0
Producers == {"command", "pipeline"}
Job == [n : 1..MaxJobs, by : Producers]
NoJob == [n |-> 0, by |-> "none"]
EventTypes == {"maintenance", "gate_failed", "outcome"}
Event == [id : 1..MaxEvents, type : EventTypes]
NoEvent == [id |-> 0, type |-> "none"]
Frame == [job : Job \cup {NoJob}, event : Event \cup {NoEvent}]
NoFrame == [job |-> NoJob, event |-> NoEvent]
Tracked == [job : Job, trigger : {"manual", "maintenance", ""}]
NoTracked == [job |-> NoJob, trigger |-> "none"]
Idle == [pc |-> "idle", frame |-> NoFrame]

(* The trigger a producer passes to TrackJob.                              *)
Trigger(j) == IF j.by = "command" THEN "manual" ELSE "maintenance"

VARIABLES
    agentUp,
    pc, own,     \* where each producer is, and the job it runs
    activeJob, lastEvent,          \* the Collector
    jobs, events,                         \* how many there have been
    waiting,     \* the handler the forwarder waits for
    handler,     \* the ingest handlers of the hub
    registered, fresh,                    \* the registry: present, seen within 2 minutes
    attached,    \* the aggregator has its TelemetryClient
    linkUp,      \* the WebSocket to Vigil is open
    latest, lastJob, lastEventID, lastGate,   \* the Aggregator
    agentOnline, \* the liveness monitor's last known state
    announced,   \* the event last sent to Vigil (history)
    clobbered,   \* a producer has written over the other's active job (history)
    overlapped,  \* two ingest handlers have run at once (history)
    faults

producers == <<agentUp, pc, own, clobbered>>
counts == <<jobs, events, faults>>
agentVars == <<producers, activeJob, lastEvent, jobs, events>>
registry == <<registered, fresh>>
upstream == <<attached, linkUp>>
history == <<announced, overlapped>>
aggregator == <<latest, lastJob, lastEventID, lastGate>>
hubVars == <<handler, registry, upstream, aggregator, agentOnline, history>>
vars == <<agentVars, waiting, hubVars, faults>>

Init ==
    /\ agentUp = TRUE
    /\ pc = [p \in Producers |-> "idle"]
    /\ own = [p \in Producers |-> NoJob]
    /\ activeJob = NoJob /\ lastEvent = NoEvent
    /\ jobs = 0 /\ events = 0 /\ faults = 0
    /\ waiting = NoHandler
    /\ handler = [h \in Handlers |-> Idle]
    /\ registered = TRUE /\ fresh = TRUE
    /\ attached = FALSE /\ linkUp = TRUE
    /\ latest = NoJob /\ lastJob = NoTracked /\ lastEventID = 0 /\ lastGate = FALSE
    /\ agentOnline = "unknown"
    /\ announced = 0 /\ clobbered = FALSE /\ overlapped = FALSE

Fault == faults < MaxFaults /\ faults' = faults + 1

-----------------------------------------------------------------------------
(* The agent.                                                              *)

(* The slot takes the event whether or not the last one has left.          *)
EmitEvent(type) ==
    IF events < MaxEvents
    THEN /\ events' = events + 1
         /\ lastEvent' = [id |-> events + 1, type |-> type]
    ELSE UNCHANGED <<events, lastEvent>>

PipelineStart ==
    /\ agentUp
    /\ pc["pipeline"] = "idle" /\ jobs < MaxJobs
    /\ pc' = [pc EXCEPT !["pipeline"] = "between"]
    /\ EmitEvent("maintenance")
    /\ UNCHANGED <<agentUp, own, activeJob, jobs, clobbered, waiting, hubVars, faults>>

TrackJob(p) ==
    /\ agentUp
    /\ pc[p] = IF p = "pipeline" THEN "between" ELSE "idle"
    /\ jobs < MaxJobs
    /\ jobs' = jobs + 1
    /\ own' = [own EXCEPT ![p] = [n |-> jobs + 1, by |-> p]]
    /\ activeJob' = own'[p]
    /\ clobbered' = (clobbered \/ activeJob # NoJob)
    /\ pc' = [pc EXCEPT ![p] = "running"]
    /\ UNCHANGED <<agentUp, lastEvent, events, waiting, hubVars, faults>>

(* The command returns, well or not, perhaps with a disk that fails, and   *)
(* the outcome is announced, unless a "pre-flight" step failed.            *)
CommandReturns(p) ==
    /\ pc[p] = "running"
    /\ pc' = [pc EXCEPT ![p] = "returned"]
    /\ \/ EmitEvent("outcome")
       \/ p = "pipeline" /\ UNCHANGED <<events, lastEvent>>
    /\ UNCHANGED <<agentUp, own, activeJob, jobs, clobbered, waiting, hubVars, faults>>

(* The deferred ClearJob clears whatever job is shown.                     *)
ClearJob(p) ==
    /\ pc[p] = "returned"
    /\ activeJob' = NoJob
    /\ clobbered' = (clobbered \/ activeJob \notin {own[p], NoJob})
    /\ own' = [own EXCEPT ![p] = NoJob]
    /\ pc' = [pc EXCEPT ![p] = IF p = "pipeline" THEN "between" ELSE "idle"]
    /\ UNCHANGED <<agentUp, lastEvent, jobs, events, waiting, hubVars, faults>>

(* A pipeline ends: complete, stopped by a gate, or by a step that failed. *)
PipelineEnd ==
    /\ pc["pipeline"] = "between"
    /\ pc' = [pc EXCEPT !["pipeline"] = "idle"]
    /\ \/ \E type \in {"maintenance", "gate_failed"} : EmitEvent(type)
       \/ UNCHANGED <<lastEvent, events>>
    /\ UNCHANGED <<agentUp, own, activeJob, jobs, clobbered, waiting, hubVars, faults>>

(* The ticker or the flush channel wakes the forwarder, so a frame may     *)
(* leave at any time: Build takes the event out of its slot.               *)
Build == [job |-> activeJob, event |-> lastEvent]

(* Mutants: the job is taken out with the event; the event stays.          *)
JobTakenOut == NoJob
EventKept == lastEvent

JobAfterBuild == activeJob
EventAfterBuild == NoEvent

Forward ==
    /\ agentUp /\ waiting = NoHandler
    /\ \E h \in Handlers :
        /\ handler[h] = Idle
        /\ handler' = [handler EXCEPT ![h] = [pc |-> "ingest", frame |-> Build]]
        /\ waiting' = h
    /\ overlapped' = (overlapped \/ \E h \in Handlers : handler[h] # Idle)
    /\ lastEvent' = EventAfterBuild /\ activeJob' = JobAfterBuild
    /\ UNCHANGED <<producers, counts, registry, upstream, aggregator, agentOnline, announced>>

(* The post does not reach the hub; the event it carried is gone.          *)
ForwardLost ==
    /\ Fault
    /\ agentUp /\ waiting = NoHandler
    /\ lastEvent' = EventAfterBuild /\ activeJob' = JobAfterBuild
    /\ UNCHANGED <<producers, jobs, events, waiting, hubVars>>

(* The connection breaks while a handler has the frame, which goes on.     *)
PostAbandoned ==
    /\ Fault
    /\ waiting # NoHandler
    /\ waiting' = NoHandler
    /\ UNCHANGED <<agentVars, hubVars>>

AgentStops ==
    /\ Fault
    /\ agentUp
    /\ agentUp' = FALSE
    /\ pc' = [p \in Producers |-> "idle"]
    /\ own' = [p \in Producers |-> NoJob]
    /\ activeJob' = NoJob /\ lastEvent' = NoEvent
    /\ waiting' = NoHandler
    /\ UNCHANGED <<jobs, events, clobbered, hubVars>>

(* A new process has an empty Collector and registers with the hub.        *)
AgentStarts ==
    /\ ~agentUp
    /\ agentUp' = TRUE
    /\ registered' = TRUE /\ fresh' = TRUE
    /\ UNCHANGED <<pc, own, clobbered, activeJob, lastEvent, counts, waiting, handler,
                   upstream, aggregator, agentOnline, history>>

-----------------------------------------------------------------------------
(* The hub's ingest handler (IngestAgentFrame), one action for each time   *)
(* it takes the aggregator's lock.                                         *)

At(h, label) == handler[h].pc = label

(* The handler goes on with what it still needs of its frame.              *)
Goto(h, label, frame) == handler' = [handler EXCEPT ![h] = [pc |-> label, frame |-> frame]]

(* The frame goes into the upstream channel, or is dropped when that is    *)
(* full; the answer reaches the forwarder if it still waits.               *)
Answer(h) ==
    /\ handler' = [handler EXCEPT ![h] = Idle]
    /\ waiting' = IF waiting = h THEN NoHandler ELSE waiting

(* Get: an unknown agent's frame is dropped; otherwise Touch and cache.    *)
Ingest(h) ==
    /\ At(h, "ingest")
    /\ IF registered
       THEN /\ fresh' = TRUE
            /\ latest' = handler[h].frame.job
            /\ IF attached THEN Goto(h, "job", handler[h].frame) /\ UNCHANGED waiting
                           ELSE Answer(h)
       ELSE Answer(h) /\ UNCHANGED <<fresh, latest>>
    /\ UNCHANGED <<agentVars, registered, upstream, lastJob, lastEventID, lastGate,
                   agentOnline, history, faults>>

(* Mutant: a job that has disappeared stays tracked.                       *)
TrackedForGood(j) ==
    IF j = NoJob THEN lastJob
    ELSE [job |-> j, trigger |-> IF lastJob = NoTracked THEN Trigger(j) ELSE ""]

(* evaluateJobTransition: the first frame with a job announces its start,  *)
(* the first without one its completion.  A job seen before is tracked     *)
(* anew, without its trigger.                                              *)
TrackedAfter(j) ==
    CASE j = NoJob -> NoTracked
      [] j # NoJob /\ lastJob = NoTracked -> [job |-> j, trigger |-> Trigger(j)]
      [] OTHER -> [job |-> j, trigger |-> ""]

EvaluateJobTransition(h) ==
    /\ At(h, "job")
    /\ lastJob' = TrackedAfter(handler[h].frame.job)
    /\ Goto(h, "event", [handler[h].frame EXCEPT !.job = NoJob])
    /\ UNCHANGED <<agentVars, waiting, registry, upstream, latest, lastEventID, lastGate,
                   agentOnline, history, faults>>

(* A repeated ID is dropped, and so is a gate failure that says what the   *)
(* last one said, unless a maintenance has started or ended in between.    *)
EvaluateAgentEvent(h) ==
    /\ At(h, "event")
    /\ LET e == handler[h].frame.event
           known == e = NoEvent \/ lastEventID = e.id
           repeated == e.type = "gate_failed" /\ lastGate
       IN /\ lastEventID' = IF known THEN lastEventID ELSE e.id
          /\ lastGate' = IF known \/ e.type = "outcome" THEN lastGate ELSE e.type = "gate_failed"
          /\ IF known \/ repeated THEN Answer(h)
             ELSE Goto(h, "send", handler[h].frame) /\ UNCHANGED waiting
    /\ UNCHANGED <<agentVars, registry, upstream, latest, lastJob,
                   agentOnline, history, faults>>

(* emitNotification: what Send refuses while the link is down is lost.     *)
EmitNotification(h) ==
    /\ At(h, "send")
    /\ announced' = IF linkUp THEN handler[h].frame.event.id ELSE announced
    /\ Answer(h)
    /\ UNCHANGED <<agentVars, registry, upstream, aggregator, agentOnline, overlapped, faults>>

-----------------------------------------------------------------------------
(* The hub's other goroutines, and what happens to it.                     *)

View == IF fresh THEN "online" ELSE "offline"

(* Vigil has accepted the registration: the aggregator gets its client and *)
(* the liveness monitor seeds its baseline, without a notice.              *)
SetTelemetryClient ==
    /\ ~attached
    /\ attached' = TRUE
    /\ agentOnline' = IF registered THEN View ELSE agentOnline
    /\ UNCHANGED <<agentVars, waiting, handler, registry, linkUp, aggregator, history, faults>>

CheckAgentLiveness ==
    /\ attached /\ registered
    /\ agentOnline' = View
    /\ UNCHANGED <<agentVars, waiting, handler, registry, upstream, aggregator, history, faults>>

(* Two minutes without a frame, four periods of a forwarder.               *)
Expire ==
    /\ fresh /\ ~agentUp
    /\ fresh' = FALSE
    /\ UNCHANGED <<agentVars, waiting, handler, registered, upstream, aggregator, agentOnline,
                   history, faults>>

DeleteAgent ==
    /\ Fault
    /\ registered
    /\ registered' = FALSE
    /\ UNCHANGED <<agentVars, waiting, handler, fresh, upstream, aggregator, agentOnline, history>>

LinkFails ==
    /\ Fault
    /\ attached /\ linkUp
    /\ linkUp' = FALSE
    /\ UNCHANGED <<agentVars, waiting, handler, registry, attached, aggregator, agentOnline, history>>

LinkReturns ==
    /\ ~linkUp
    /\ linkUp' = TRUE
    /\ UNCHANGED <<agentVars, waiting, handler, registry, attached, aggregator, agentOnline, history,
                   faults>>

(* A new hub process reads the registry, whose last-seen times are those   *)
(* of the registrations; all the Aggregator knew is gone.                  *)
HubRestart ==
    /\ Fault
    /\ handler' = [h \in Handlers |-> Idle]
    /\ waiting' = NoHandler
    /\ attached' = FALSE /\ linkUp' = TRUE /\ fresh' = FALSE
    /\ latest' = NoJob /\ lastJob' = NoTracked /\ lastEventID' = 0 /\ lastGate' = FALSE
    /\ agentOnline' = "unknown"
    /\ UNCHANGED <<agentVars, registered, history>>

AgentStep ==
    \/ PipelineStart \/ PipelineEnd \/ Forward \/ AgentStarts
    \/ \E p \in Producers : TrackJob(p) \/ CommandReturns(p) \/ ClearJob(p)

HandlerStep(h) ==
    \/ Ingest(h) \/ EvaluateJobTransition(h)
    \/ EvaluateAgentEvent(h) \/ EmitNotification(h)

HubStep ==
    \/ SetTelemetryClient \/ CheckAgentLiveness \/ Expire \/ LinkReturns
    \/ \E h \in Handlers : HandlerStep(h)

Failure ==
    \/ ForwardLost \/ PostAbandoned \/ AgentStops \/ DeleteAgent \/ LinkFails \/ HubRestart

Next == AgentStep \/ HubStep \/ Failure

Spec == Init /\ [][Next]_vars

(* The ticker keeps the forwarder going, net/http its handlers and the     *)
(* liveness ticker the monitor; time passes; Vigil accepts the hub.        *)
FairSpec ==
    /\ Spec
    /\ WF_vars(Forward) /\ WF_vars(Expire)
    /\ WF_vars(SetTelemetryClient) /\ WF_vars(CheckAgentLiveness)
    /\ \A h \in Handlers : WF_vars(HandlerStep(h))

-----------------------------------------------------------------------------
TypeOK ==
    /\ pc \in [Producers -> {"idle", "between", "running", "returned"}]
    /\ own \in [Producers -> Job \cup {NoJob}]
    /\ activeJob \in Job \cup {NoJob}
    /\ lastEvent \in Event \cup {NoEvent}
    /\ waiting \in Handlers \cup {NoHandler}
    /\ jobs \in 0..MaxJobs /\ events \in 0..MaxEvents /\ faults \in 0..MaxFaults
    /\ \A h \in Handlers : handler[h].frame \in Frame \cup {NoFrame}
    /\ {agentUp, registered, fresh, attached, linkUp, lastGate} \subseteq BOOLEAN
    /\ latest \in Job \cup {NoJob}
    /\ lastJob \in Tracked \cup {NoTracked}
    /\ lastEventID \in 0..events
    /\ agentOnline \in {"unknown", "online", "offline"}

(* A frame that has no job announces that the tracked one is complete.     *)
AnnouncesCompletion(h) ==
    EvaluateJobTransition(h) /\ lastJob # NoTracked /\ lastJob' = NoTracked

(* The hub announces a job as complete only once its command has returned, *)
(* as long as no frame overtakes another and no second producer has        *)
(* written over the active job.                                            *)
CompletionOnlyAfterEnd ==
    [][\A h \in Handlers : AnnouncesCompletion(h) /\ ~clobbered /\ ~overlapped
        => \A p \in Producers : ~(pc[p] = "running" /\ own[p] = lastJob.job)]_vars

(* An event reaches Vigil at most once, and events in the order in which   *)
(* they were emitted, unless two handlers ran at once: across restarts of  *)
(* either side, lost posts and a link that comes and goes.                 *)
EventsInOrderOnce ==
    [][\A h \in Handlers : EmitNotification(h) /\ linkUp
        => announced < handler[h].frame.event.id \/ overlapped]_vars

(* The active job the hub shows (handleActiveJobs).                        *)
ShownJob == latest

(* However many frames were lost or overtaken, the job the hub shows and   *)
(* the one it tracks become the agent's and stay so once the agent's does  *)
(* not change any more; and an agent that stays away is in the end known   *)
(* to be offline.                                                          *)
HubCatchesUp ==
    /\ <>[](registered /\ agentUp) /\ <>[][FALSE]_activeJob
        => <>[](ShownJob = activeJob /\ lastJob.job = activeJob)
    /\ <>[](registered /\ ~agentUp) => <>[](agentOnline = "offline")

(* "Uses trigger-aware event types so users can toggle manual vs scheduled *)
(* notifications" (aggregator.go:232): a job is complete under its trigger. *)
CompletionKeepsTrigger ==
    [][\A h \in Handlers : AnnouncesCompletion(h) => lastJob.trigger = Trigger(lastJob.job)]_vars
=============================================================================
