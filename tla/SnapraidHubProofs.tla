-------------------------- MODULE SnapraidHubProofs --------------------------
(***************************************************************************)
(* Proofs about SnapraidHub for any number of jobs, events, faults and     *)
(* ingest handlers.                                                        *)
(*                                                                         *)
(* HandlerInv and NumberInv say what the handlers hold, SingleInv that one *)
(* follows the other until two run at once. OrderInv then puts the events  *)
(* that have been announced before those in a handler, and these before    *)
(* the one in the slot of the Collector. ProducerInv ties the active job   *)
(* to the producer that runs it, and EndedInv follows a frame without a    *)
(* job from Build to evaluateJobTransition.                                *)
(***************************************************************************)
EXTENDS SnapraidHub, TLAPS

HandlerPC == {"idle", "ingest", "job", "event", "send"}

\* What a handler of the hub holds.
HandlerInv ==
    /\ handler \in [Handlers -> [pc : HandlerPC, frame : Frame]]
    /\ \A h \in Handlers : At(h, "send") => handler[h].frame.event # NoEvent

\* Handlers follow one another until two have run at once.
SingleInv ==
    ~ overlapped => \A g, h \in Handlers : g # h => handler[g] = Idle \/ handler[h] = Idle

\* Numbers of jobs and events are those of jobs and events there have been.
NumberInv ==
    /\ activeJob.n =< jobs /\ lastJob.job.n =< jobs
    /\ lastEvent.id =< events /\ announced \in 0 .. events
    /\ \A h \in Handlers : handler[h].frame.job.n =< jobs /\ handler[h].frame.event.id =< events

\* Events leave in the order they came: announced ones, those in handlers, the one in the slot.
OrderInv ==
    ~ overlapped =>
        /\ lastEvent # NoEvent => announced < lastEvent.id
        /\ \A h \in Handlers : handler[h].frame.event # NoEvent =>
               /\ announced < handler[h].frame.event.id
               /\ lastEvent # NoEvent => handler[h].frame.event.id < lastEvent.id

\* The job a producer runs is its own, and it is the active one until the two meet.
ProducerInv ==
    \A p \in Producers : pc[p] \in {"running", "returned"} =>
        /\ own[p].by = p
        /\ ~ clobbered => own[p] = activeJob /\ activeJob # NoJob

\* A frame without a job, on its way, was built when the tracked job had ended.
EndedInv ==
    ~ clobbered /\ ~ overlapped =>
        \A h \in Handlers : (At(h, "ingest") \/ At(h, "job")) /\ handler[h].frame.job = NoJob =>
            \A p \in Producers : ~ (pc[p] = "running" /\ own[p] = lastJob.job)

Inv == /\ TypeOK /\ HandlerInv /\ SingleInv /\ NumberInv /\ OrderInv /\ ProducerInv /\ EndedInv

(***************************************************************************)
(* The records of jobs, events, frames, handlers and tracked jobs.         *)
(***************************************************************************)

LEMMA JobFacts ==
    /\ NoJob \notin Job /\ NoJob.n = 0
    /\ \A j \in Job : j.n \in 1 .. MaxJobs /\ j.by \in Producers
    /\ \A k \in 1 .. MaxJobs, p \in Producers :
           LET j == [n |-> k, by |-> p] IN j \in Job /\ j.n = k /\ j.by = p
    /\ Producers = {"command", "pipeline"}
BY BoundsAssumption DEF Job, NoJob, Producers

LEMMA EventFacts ==
    /\ NoEvent \notin Event /\ NoEvent.id = 0
    /\ \A e \in Event : e.id \in 1 .. MaxEvents
    /\ \A k \in 1 .. MaxEvents, t \in EventTypes :
           LET e == [id |-> k, type |-> t] IN e \in Event /\ e.id = k
    /\ EventTypes = {"maintenance", "gate_failed", "outcome"}
BY BoundsAssumption DEF Event, NoEvent, EventTypes

LEMMA FrameFacts ==
    /\ NoFrame \in Frame /\ NoFrame.job = NoJob /\ NoFrame.event = NoEvent
    /\ \A f \in Frame : f.job \in Job \cup {NoJob} /\ f.event \in Event \cup {NoEvent}
    /\ \A j \in Job \cup {NoJob}, e \in Event \cup {NoEvent} :
           LET f == [job |-> j, event |-> e] IN f \in Frame /\ f.job = j /\ f.event = e
    /\ \A f \in Frame : LET g == [f EXCEPT !.job = NoJob]
                        IN g \in Frame /\ g.job = NoJob /\ g.event = f.event
BY DEF Frame, NoFrame

LEMMA TrackedFacts ==
    /\ NoTracked.job = NoJob /\ NoTracked \notin Tracked
    /\ \A t \in Tracked : t.job \in Job
    /\ \A j \in Job, w \in {"manual", "maintenance", ""} :
           LET t == [job |-> j, trigger |-> w] IN t \in Tracked /\ t.job = j
<1>1. NoTracked.trigger \notin {"manual", "maintenance", ""}
  BY DEF NoTracked
<1>2. QED
  BY <1>1 DEF Tracked, NoTracked

Held == [pc : HandlerPC, frame : Frame]

LEMMA HeldFacts ==
    /\ Idle \in Held /\ Idle.pc = "idle" /\ Idle.frame = NoFrame
    /\ \A x \in Held : x.pc \in HandlerPC /\ x.frame \in Frame
    /\ \A label \in HandlerPC, f \in Frame :
           LET x == [pc |-> label, frame |-> f] IN x \in Held /\ x.pc = label /\ x.frame = f
    /\ HandlerPC = {"idle", "ingest", "job", "event", "send"}
BY FrameFacts DEF Held, Idle, HandlerPC

LEMMA TrackedAfterFacts ==
    ASSUME NEW j \in Job \cup {NoJob}
    PROVE  /\ TrackedAfter(j) \in Tracked \cup {NoTracked}
           /\ TrackedAfter(j).job = j
           /\ TrackedAfter(j) = NoTracked => j = NoJob
<1>1. Trigger(j) \in {"manual", "maintenance", ""}
  BY DEF Trigger
<1>2. CASE j = NoJob
  BY <1>2, TrackedFacts DEF TrackedAfter
<1>3. CASE j # NoJob
  BY <1>1, <1>3, TrackedFacts DEF TrackedAfter
<1>4. QED
  BY <1>2, <1>3

\* What the handlers, the slots and the counters are.
LEMMA Known ==
    ASSUME TypeOK, HandlerInv
    PROVE  /\ handler \in [Handlers -> Held]
           /\ \A h \in Handlers : /\ handler[h] \in Held /\ handler[h].frame \in Frame
                                  /\ handler[h].frame.job \in Job \cup {NoJob}
                                  /\ handler[h].frame.event \in Event \cup {NoEvent}
           /\ pc \in [Producers -> {"idle", "between", "running", "returned"}]
           /\ own \in [Producers -> Job \cup {NoJob}] /\ activeJob \in Job \cup {NoJob}
           /\ lastEvent \in Event \cup {NoEvent} /\ lastJob \in Tracked \cup {NoTracked}
           /\ lastJob.job \in Job \cup {NoJob}
           /\ jobs \in Nat /\ events \in Nat
           /\ \A j \in Job \cup {NoJob} : j.n \in Nat
           /\ \A e \in Event \cup {NoEvent} : e.id \in Nat
<1>1. /\ handler \in [Handlers -> Held]
      /\ pc \in [Producers -> {"idle", "between", "running", "returned"}]
      /\ own \in [Producers -> Job \cup {NoJob}] /\ activeJob \in Job \cup {NoJob}
      /\ lastEvent \in Event \cup {NoEvent} /\ lastJob \in Tracked \cup {NoTracked}
      /\ jobs \in Nat /\ events \in Nat
  BY BoundsAssumption DEF TypeOK, HandlerInv, Held
<1>2. \A h \in Handlers : /\ handler[h] \in Held /\ handler[h].frame \in Frame
                          /\ handler[h].frame.job \in Job \cup {NoJob}
                          /\ handler[h].frame.event \in Event \cup {NoEvent}
  BY <1>1, HeldFacts, FrameFacts
<1>3. lastJob.job \in Job \cup {NoJob}
  BY <1>1, TrackedFacts
<1>4. /\ \A j \in Job \cup {NoJob} : j.n \in Nat
      /\ \A e \in Event \cup {NoEvent} : e.id \in Nat
  BY JobFacts, EventFacts
<1>5. QED
  BY <1>1, <1>2, <1>3, <1>4

(***************************************************************************)
(* The actions, by what they do to the frames on their way.                *)
(***************************************************************************)

\* Steps of the agent that send no frame.
AgentMove ==
    \/ PipelineStart \/ PipelineEnd \/ AgentStarts \/ AgentStops \/ PostAbandoned \/ ForwardLost
    \/ \E p \in Producers : TrackJob(p) \/ CommandReturns(p) \/ ClearJob(p)

\* Steps of the hub's other goroutines and of its environment.
HubMove ==
    \/ SetTelemetryClient \/ CheckAgentLiveness \/ Expire \/ LinkReturns
    \/ DeleteAgent \/ LinkFails \/ UNCHANGED vars

LEMMA Kinds ==
    ASSUME [Next]_vars
    PROVE  AgentMove \/ HubMove \/ Forward \/ HubRestart \/ \E h \in Handlers : HandlerStep(h)
BY DEF Next, AgentStep, HubStep, Failure, AgentMove, HubMove

LEMMA EmitFacts ==
    ASSUME NEW type \in EventTypes, EmitEvent(type), events \in 0 .. MaxEvents,
           lastEvent \in Event \cup {NoEvent}
    PROVE  /\ events' \in 0 .. MaxEvents /\ lastEvent' \in Event \cup {NoEvent} /\ events =< events'
           /\ \/ lastEvent' = lastEvent
              \/ events' = events + 1 /\ lastEvent'.id = events + 1
<1>1. CASE events < MaxEvents
  <2>1. events + 1 \in 1 .. MaxEvents
    BY <1>1, BoundsAssumption
  <2>2. events' = events + 1 /\ lastEvent' = [id |-> events + 1, type |-> type]
    BY <1>1 DEF EmitEvent
  <2>3. lastEvent' \in Event /\ lastEvent'.id = events + 1
    BY <2>1, <2>2, EventFacts
  <2>4. QED
    BY <2>1, <2>2, <2>3, BoundsAssumption
<1>2. CASE ~ (events < MaxEvents)
  BY <1>2 DEF EmitEvent
<1>3. QED
  BY <1>1, <1>2

\* What a step of the agent may do to its two slots.
LEMMA AgentMoves ==
    ASSUME TypeOK, AgentMove
    PROVE  /\ pc' \in [Producers -> {"idle", "between", "running", "returned"}]
           /\ own' \in [Producers -> Job \cup {NoJob}]
           /\ jobs' \in 0 .. MaxJobs /\ events' \in 0 .. MaxEvents /\ faults' \in 0 .. MaxFaults
           /\ jobs =< jobs' /\ events =< events'
           /\ activeJob' \in Job \cup {NoJob} /\ lastEvent' \in Event \cup {NoEvent}
           /\ \/ lastEvent' \in {lastEvent, NoEvent}
              \/ events' = events + 1 /\ lastEvent'.id = events + 1
           /\ \/ activeJob' \in {activeJob, NoJob}
              \/ jobs' = jobs + 1 /\ activeJob'.n = jobs + 1
           /\ waiting' \in {waiting, NoHandler}
           /\ UNCHANGED <<handler, attached, linkUp, aggregator, agentOnline, history>>
<1>1. /\ pc \in [Producers -> {"idle", "between", "running", "returned"}]
      /\ own \in [Producers -> Job \cup {NoJob}] /\ activeJob \in Job \cup {NoJob}
      /\ lastEvent \in Event \cup {NoEvent}
      /\ jobs \in 0 .. MaxJobs /\ events \in 0 .. MaxEvents /\ faults \in 0 .. MaxFaults
      /\ MaxJobs \in Nat /\ MaxEvents \in Nat /\ MaxFaults \in Nat
  BY BoundsAssumption DEF TypeOK
<1>2. \A type \in {"maintenance", "gate_failed", "outcome"} : type \in EventTypes
  BY EventFacts
<1>3. CASE PipelineStart
  <2>1. /\ pc' \in [Producers -> {"idle", "between", "running", "returned"}]
        /\ EmitEvent("maintenance")
        /\ UNCHANGED <<own, activeJob, jobs, waiting, hubVars, faults>>
    BY <1>1, <1>3 DEF PipelineStart
  <2>2. QED
    BY <1>1, <1>2, <2>1, EmitFacts DEF hubVars, upstream
<1>4. CASE PipelineEnd
  <2>1. /\ pc' \in [Producers -> {"idle", "between", "running", "returned"}]
        /\ \/ \E type \in {"maintenance", "gate_failed"} : EmitEvent(type)
           \/ UNCHANGED <<lastEvent, events>>
        /\ UNCHANGED <<own, activeJob, jobs, waiting, hubVars, faults>>
    BY <1>1, <1>4 DEF PipelineEnd
  <2>2. QED
    BY <1>1, <1>2, <2>1, EmitFacts DEF hubVars, upstream
<1>5. ASSUME NEW p \in Producers, CommandReturns(p)
      PROVE  /\ pc' \in [Producers -> {"idle", "between", "running", "returned"}]
             /\ EmitEvent("outcome") \/ UNCHANGED <<lastEvent, events>>
             /\ UNCHANGED <<own, activeJob, jobs, waiting, hubVars, faults>>
  BY <1>1, <1>5 DEF CommandReturns
<1>6. CASE \E p \in Producers : CommandReturns(p)
  BY <1>1, <1>2, <1>5, <1>6, EmitFacts DEF hubVars, upstream
<1>7. ASSUME NEW p \in Producers, ClearJob(p)
      PROVE  /\ pc' \in [Producers -> {"idle", "between", "running", "returned"}]
             /\ own' \in [Producers -> Job \cup {NoJob}] /\ activeJob' = NoJob
             /\ UNCHANGED <<lastEvent, jobs, events, waiting, hubVars, faults>>
  BY <1>1, <1>7 DEF ClearJob
<1>8. CASE \E p \in Producers : ClearJob(p)
  BY <1>1, <1>7, <1>8 DEF hubVars, upstream
<1>9. ASSUME NEW p \in Producers, TrackJob(p)
      PROVE  /\ pc' \in [Producers -> {"idle", "between", "running", "returned"}]
             /\ own' \in [Producers -> Job \cup {NoJob}] /\ activeJob' \in Job
             /\ jobs' = jobs + 1 /\ jobs' \in 0 .. MaxJobs /\ activeJob'.n = jobs + 1
             /\ UNCHANGED <<lastEvent, events, waiting, hubVars, faults>>
  <2> DEFINE j == [n |-> jobs + 1, by |-> p]
  <2>1. /\ jobs < MaxJobs /\ jobs' = jobs + 1 /\ own' = [own EXCEPT ![p] = j]
        /\ activeJob' = own'[p] /\ pc' = [pc EXCEPT ![p] = "running"]
        /\ UNCHANGED <<lastEvent, events, waiting, hubVars, faults>>
    BY <1>9 DEF TrackJob
  <2>2. jobs + 1 \in 1 .. MaxJobs
    BY <1>1, <2>1
  <2>3. j \in Job /\ j.n = jobs + 1
    BY <2>2, JobFacts
  <2> HIDE DEF j
  <2>4. QED
    BY <1>1, <2>1, <2>2, <2>3
<1>10. CASE \E p \in Producers : TrackJob(p)
  BY <1>1, <1>9, <1>10 DEF hubVars, upstream
<1>11. CASE AgentStarts
  BY <1>1, <1>11 DEF AgentStarts, counts, upstream
<1>12. CASE AgentStops
  BY <1>1, <1>12 DEF AgentStops, Fault, hubVars, upstream
<1>13. CASE PostAbandoned
  BY <1>1, <1>13 DEF PostAbandoned, Fault, agentVars, producers, hubVars, upstream
<1>14. CASE ForwardLost
  BY <1>1, <1>14
     DEF ForwardLost, Fault, EventAfterBuild, JobAfterBuild, producers, hubVars, upstream
<1>15. QED
  BY <1>3, <1>4, <1>6, <1>8, <1>10, <1>11, <1>12, <1>13, <1>14 DEF AgentMove

\* What a handler may do: its frame goes on, or is done with.
LEMMA HandlerMoves ==
    ASSUME TypeOK, HandlerInv, NEW h \in Handlers, HandlerStep(h)
    PROVE  /\ handler' \in [Handlers -> Held] /\ handler[h].pc # "idle"
           /\ \A g \in Handlers \ {h} : handler'[g] = handler[g]
           /\ \/ handler'[h] = Idle
              \/ /\ At(h, "ingest") /\ handler'[h].pc = "job"
                 /\ handler'[h].frame = handler[h].frame
              \/ /\ At(h, "job") /\ handler'[h].pc = "event" /\ handler'[h].frame.job = NoJob
                 /\ handler'[h].frame.event = handler[h].frame.event
              \/ /\ At(h, "event") /\ handler'[h].pc = "send"
                 /\ handler'[h].frame = handler[h].frame /\ handler[h].frame.event # NoEvent
           /\ \/ lastJob' = lastJob
              \/ At(h, "job") /\ lastJob' = TrackedAfter(handler[h].frame.job)
           /\ lastEventID' \in {lastEventID, handler[h].frame.event.id}
           /\ \/ announced' = announced
              \/ At(h, "send") /\ announced' = handler[h].frame.event.id
           /\ waiting' \in {waiting, NoHandler} /\ latest' \in Job \cup {NoJob}
           /\ UNCHANGED <<agentVars, registered, upstream, agentOnline, overlapped, faults>>
<1> DEFINE f == handler[h].frame
<1>1. /\ handler \in [Handlers -> Held] /\ handler[h] \in Held /\ f \in Frame
      /\ f.job \in Job \cup {NoJob} /\ latest \in Job \cup {NoJob}
  BY Known DEF TypeOK
<1>2. ASSUME Answer(h)
      PROVE  /\ handler' \in [Handlers -> Held] /\ handler'[h] = Idle
             /\ \A g \in Handlers \ {h} : handler'[g] = handler[g]
             /\ waiting' \in {waiting, NoHandler}
  BY <1>1, <1>2, HeldFacts DEF Answer
<1>3. ASSUME NEW label \in HandlerPC, NEW g \in Frame, Goto(h, label, g)
      PROVE  /\ handler' \in [Handlers -> Held]
             /\ handler'[h].pc = label /\ handler'[h].frame = g
             /\ \A k \in Handlers \ {h} : handler'[k] = handler[k]
  <2> DEFINE x == [pc |-> label, frame |-> g]
  <2>1. x \in Held /\ x.pc = label /\ x.frame = g
    BY HeldFacts
  <2>2. handler' = [handler EXCEPT ![h] = x]
    BY <1>3 DEF Goto
  <2> HIDE DEF x
  <2>3. QED
    BY <1>1, <2>1, <2>2
<1>4. CASE Ingest(h)
  <2>1. /\ handler[h].pc = "ingest"
        /\ UNCHANGED <<agentVars, registered, upstream, lastJob, lastEventID, lastGate,
                       agentOnline, history, faults>>
        /\ latest' \in {latest, f.job}
        /\ (Goto(h, "job", f) /\ UNCHANGED waiting) \/ Answer(h)
    BY <1>4 DEF Ingest, At
  <2>2. QED
    BY <1>1, <1>2, <1>3, <2>1, HeldFacts DEF At, history
<1>5. CASE EvaluateJobTransition(h)
  <2> DEFINE g == [f EXCEPT !.job = NoJob]
  <2>1. /\ handler[h].pc = "job" /\ lastJob' = TrackedAfter(f.job)
        /\ UNCHANGED <<agentVars, waiting, registry, upstream, latest, lastEventID, lastGate,
                       agentOnline, history, faults>>
        /\ Goto(h, "event", g)
    BY <1>5 DEF EvaluateJobTransition, At
  <2>2. g \in Frame /\ g.job = NoJob /\ g.event = f.event
    BY <1>1, FrameFacts
  <2> HIDE DEF g
  <2>3. QED
    BY <1>1, <1>3, <2>1, <2>2, HeldFacts DEF At, history, registry
<1>6. CASE EvaluateAgentEvent(h)
  <2>1. /\ handler[h].pc = "event"
        /\ UNCHANGED <<agentVars, registry, upstream, latest, lastJob, agentOnline, history, faults>>
        /\ lastEventID' \in {lastEventID, f.event.id}
        /\ (f.event # NoEvent /\ Goto(h, "send", f) /\ UNCHANGED waiting) \/ Answer(h)
    BY <1>6 DEF EvaluateAgentEvent, At
  <2>2. QED
    BY <1>1, <1>2, <1>3, <2>1, HeldFacts DEF At, history, registry
<1>7. CASE EmitNotification(h)
  <2>1. /\ handler[h].pc = "send" /\ announced' \in {announced, f.event.id} /\ Answer(h)
        /\ UNCHANGED <<agentVars, registry, upstream, aggregator, agentOnline, overlapped, faults>>
    BY <1>7 DEF EmitNotification, At
  <2>2. QED
    BY <1>1, <1>2, <2>1 DEF At, registry, aggregator
<1>8. QED
  BY <1>4, <1>5, <1>6, <1>7 DEF HandlerStep

LEMMA ForwardFacts ==
    ASSUME TypeOK, HandlerInv, Forward
    PROVE  \E h \in Handlers :
               /\ handler[h] = Idle /\ waiting' = h /\ handler' \in [Handlers -> Held]
               /\ handler'[h].pc = "ingest" /\ handler'[h].frame.job = activeJob
               /\ handler'[h].frame.event = lastEvent
               /\ \A g \in Handlers \ {h} : handler'[g] = handler[g]
               /\ ~ overlapped' => ~ overlapped /\ \A g \in Handlers : handler[g] = Idle
               /\ lastEvent' = NoEvent /\ activeJob' = activeJob
               /\ UNCHANGED <<producers, counts, registry, upstream, aggregator, agentOnline,
                              announced>>
<1>1. /\ handler \in [Handlers -> Held] /\ activeJob \in Job \cup {NoJob}
      /\ lastEvent \in Event \cup {NoEvent}
  BY Known
<1>2. PICK h \in Handlers : /\ handler[h] = Idle /\ waiting' = h
                            /\ handler' = [handler EXCEPT ![h] = [pc |-> "ingest", frame |-> Build]]
  BY DEF Forward
<1> DEFINE x == [pc |-> "ingest", frame |-> Build]
<1>3. Build \in Frame /\ Build.job = activeJob /\ Build.event = lastEvent
  BY <1>1, FrameFacts DEF Build
<1>4. x \in Held /\ x.pc = "ingest" /\ x.frame = Build
  BY <1>3, HeldFacts
<1>5. handler' = [handler EXCEPT ![h] = x]
  BY <1>2
<1> HIDE DEF x
<1>6. /\ handler' \in [Handlers -> Held] /\ handler'[h] = x
      /\ \A g \in Handlers \ {h} : handler'[g] = handler[g]
  BY <1>1, <1>4, <1>5
<1>7. /\ ~ overlapped' => ~ overlapped /\ \A g \in Handlers : handler[g] = Idle
      /\ lastEvent' = NoEvent /\ activeJob' = activeJob
      /\ UNCHANGED <<producers, counts, registry, upstream, aggregator, agentOnline, announced>>
  BY DEF Forward, EventAfterBuild, JobAfterBuild
<1>8. QED
  BY <1>2, <1>3, <1>4, <1>6, <1>7

(***************************************************************************)
(* The types.                                                              *)
(***************************************************************************)

Flags == {agentUp, registered, fresh, attached, linkUp, lastGate}

LEMMA FlagStep ==
    ASSUME Flags \subseteq BOOLEAN, [Next]_vars
    PROVE  Flags' \subseteq BOOLEAN
<1>1. \/ agentUp' = TRUE \/ agentUp' = FALSE \/ agentUp' = agentUp
  BY DEF Next, AgentStep, PipelineStart, PipelineEnd, Forward, AgentStarts, TrackJob, CommandReturns,
         ClearJob, HubStep, SetTelemetryClient, CheckAgentLiveness, Expire, LinkReturns, HandlerStep,
         Ingest, EvaluateJobTransition, EvaluateAgentEvent, EmitNotification, Failure, ForwardLost,
         PostAbandoned, AgentStops, DeleteAgent, LinkFails, HubRestart, vars, agentVars, producers
<1>2. /\ registered' = TRUE \/ registered' = FALSE \/ registered' = registered
      /\ fresh' = TRUE \/ fresh' = FALSE \/ fresh' = fresh
  BY DEF Next, AgentStep, PipelineStart, PipelineEnd, Forward, AgentStarts, TrackJob, CommandReturns,
         ClearJob, HubStep, SetTelemetryClient, CheckAgentLiveness, Expire, LinkReturns, HandlerStep,
         Ingest, EvaluateJobTransition, EvaluateAgentEvent, EmitNotification, Failure, ForwardLost,
         PostAbandoned, AgentStops, DeleteAgent, LinkFails, HubRestart, vars, hubVars, registry
<1>3. /\ attached' = TRUE \/ attached' = FALSE \/ attached' = attached
      /\ linkUp' = TRUE \/ linkUp' = FALSE \/ linkUp' = linkUp
  BY DEF Next, AgentStep, PipelineStart, PipelineEnd, Forward, AgentStarts, TrackJob, CommandReturns,
         ClearJob, HubStep, SetTelemetryClient, CheckAgentLiveness, Expire, LinkReturns, HandlerStep,
         Ingest, EvaluateJobTransition, EvaluateAgentEvent, EmitNotification, Failure, ForwardLost,
         PostAbandoned, AgentStops, DeleteAgent, LinkFails, HubRestart, vars, hubVars, upstream
<1>4. lastGate' = lastGate \/ lastGate' = FALSE \/ \E h \in Handlers : EvaluateAgentEvent(h)
  BY DEF Next, AgentStep, PipelineStart, PipelineEnd, Forward, AgentStarts, TrackJob, CommandReturns,
         ClearJob, HubStep, SetTelemetryClient, CheckAgentLiveness, Expire, LinkReturns, HandlerStep,
         Ingest, EvaluateJobTransition, EmitNotification, Failure, ForwardLost,
         PostAbandoned, AgentStops, DeleteAgent, LinkFails, HubRestart, vars, hubVars, aggregator
<1>5. /\ agentUp \in BOOLEAN /\ registered \in BOOLEAN /\ fresh \in BOOLEAN /\ attached \in BOOLEAN
      /\ linkUp \in BOOLEAN /\ lastGate \in BOOLEAN
  BY Zenon DEF Flags
<1>6. agentUp' \in BOOLEAN /\ registered' \in BOOLEAN /\ fresh' \in BOOLEAN
  BY <1>1, <1>2, <1>5, Zenon
<1>7. attached' \in BOOLEAN /\ linkUp' \in BOOLEAN
  BY <1>3, <1>5, Zenon
<1>8. ASSUME NEW h \in Handlers, EvaluateAgentEvent(h) PROVE lastGate' \in BOOLEAN
  <2>1. \/ lastGate' = lastGate
        \/ lastGate' = (handler[h].frame.event.type = "gate_failed")
    BY <1>8, Zenon DEF EvaluateAgentEvent
  <2>2. (handler[h].frame.event.type = "gate_failed") \in BOOLEAN
    BY Zenon
  <2>3. QED
    BY <1>5, <2>1, <2>2, Zenon
<1>9. lastGate' \in BOOLEAN
  BY <1>4, <1>5, <1>8, Zenon
<1>10. QED
  BY <1>6, <1>7, <1>9, Zenon DEF Flags

LEMMA HandlerStays ==
    ASSUME handler' \in [Handlers -> Held],
           \A h \in Handlers : handler'[h].pc = "send" => handler'[h].frame.event # NoEvent
    PROVE  HandlerInv' /\ \A h \in Handlers : (handler[h].frame \in Frame \cup {NoFrame})'
BY HeldFacts DEF HandlerInv, Held, At

LEMMA HubMoves ==
    ASSUME HubMove, TypeOK
    PROVE  /\ UNCHANGED <<pc, own, clobbered, activeJob, lastEvent, jobs, events, waiting, handler,
                          aggregator, history>>
           /\ agentOnline' \in {"unknown", "online", "offline"} /\ faults' \in 0 .. MaxFaults
<1>1. UNCHANGED <<agentVars, waiting, handler, aggregator, history>>
  BY DEF HubMove, SetTelemetryClient, CheckAgentLiveness, Expire, LinkReturns, DeleteAgent, LinkFails,
         vars, hubVars
<1>2. agentOnline' \in {"unknown", "online", "offline"}
  BY DEF TypeOK, View, HubMove, SetTelemetryClient, CheckAgentLiveness, Expire, LinkReturns,
         DeleteAgent, LinkFails, vars, hubVars
<1>3. faults' \in 0 .. MaxFaults
  BY BoundsAssumption
     DEF TypeOK, Fault, HubMove, SetTelemetryClient, CheckAgentLiveness, Expire, LinkReturns,
         DeleteAgent, LinkFails, vars
<1>4. QED
  BY <1>1, <1>2, <1>3 DEF agentVars, producers

LEMMA RestartFacts ==
    ASSUME HubRestart, TypeOK
    PROVE  /\ handler' \in [Handlers -> Held] /\ \A h \in Handlers : handler'[h] = Idle
           /\ waiting' = NoHandler /\ latest' = NoJob /\ lastJob' = NoTracked /\ lastEventID' = 0
           /\ agentOnline' = "unknown" /\ faults' \in 0 .. MaxFaults
           /\ UNCHANGED <<pc, own, clobbered, activeJob, lastEvent, jobs, events, history>>
<1>1. handler' = [h \in Handlers |-> Idle]
  BY DEF HubRestart
<1>2. handler' \in [Handlers -> Held] /\ \A h \in Handlers : handler'[h] = Idle
  BY <1>1, HeldFacts
<1>3. QED
  BY <1>2, BoundsAssumption DEF HubRestart, Fault, TypeOK, agentVars, producers

LEMMA TypeStep ==
    ASSUME TypeOK, HandlerInv, NumberInv, [Next]_vars
    PROVE  TypeOK' /\ HandlerInv'
<1>0. Flags' \subseteq BOOLEAN
  BY FlagStep DEF TypeOK, Flags
<1> DEFINE Flagged == {agentUp', registered', fresh', attached', linkUp', lastGate'} \subseteq BOOLEAN
<1>1. /\ Flagged /\ handler \in [Handlers -> Held]
      /\ \A h \in Handlers : handler[h].pc = "send" => handler[h].frame.event # NoEvent
      /\ \A h \in Handlers : handler[h].frame.event \in Event \cup {NoEvent}
      /\ waiting \in Handlers \cup {NoHandler} /\ events \in 0 .. MaxEvents
  BY <1>0, Known DEF Flags, HandlerInv, At, TypeOK
<1> HIDE DEF Flagged
<1>2. CASE AgentMove
  <2>1. /\ pc' \in [Producers -> {"idle", "between", "running", "returned"}]
        /\ own' \in [Producers -> Job \cup {NoJob}]
        /\ jobs' \in 0 .. MaxJobs /\ events' \in 0 .. MaxEvents /\ faults' \in 0 .. MaxFaults
        /\ activeJob' \in Job \cup {NoJob} /\ lastEvent' \in Event \cup {NoEvent}
        /\ waiting' \in Handlers \cup {NoHandler} /\ events =< events'
        /\ UNCHANGED <<handler, aggregator, agentOnline>>
    BY <1>1, <1>2, AgentMoves
  <2>2. HandlerInv' /\ \A h \in Handlers : (handler[h].frame \in Frame \cup {NoFrame})'
    BY <1>1, <2>1, HandlerStays
  <2>3. lastEventID' \in 0 .. events'
    BY <1>1, <2>1 DEF TypeOK, aggregator
  <2>4. QED
    BY <1>1, <2>1, <2>2, <2>3 DEF TypeOK, aggregator, Flagged
<1>3. CASE HubMove
  <2>1. /\ UNCHANGED <<pc, own, activeJob, lastEvent, jobs, events, waiting, handler, aggregator>>
        /\ agentOnline' \in {"unknown", "online", "offline"} /\ faults' \in 0 .. MaxFaults
    BY <1>3, HubMoves
  <2>2. HandlerInv' /\ \A h \in Handlers : (handler[h].frame \in Frame \cup {NoFrame})'
    BY <1>1, <2>1, HandlerStays
  <2>3. QED
    BY <1>1, <2>1, <2>2 DEF TypeOK, aggregator, Flagged
<1>4. CASE Forward
  <2>1. PICK h \in Handlers :
            /\ waiting' = h /\ handler' \in [Handlers -> Held] /\ handler'[h].pc = "ingest"
            /\ \A g \in Handlers \ {h} : handler'[g] = handler[g]
            /\ lastEvent' = NoEvent /\ activeJob' = activeJob
            /\ UNCHANGED <<producers, counts, aggregator, agentOnline>>
    BY <1>4, ForwardFacts
  <2>2. HandlerInv' /\ \A g \in Handlers : (handler[g].frame \in Frame \cup {NoFrame})'
    BY <1>1, <2>1, HandlerStays
  <2>3. QED
    BY <1>1, <2>1, <2>2 DEF TypeOK, aggregator, producers, counts, Flagged
<1>5. ASSUME NEW h \in Handlers, HandlerStep(h) PROVE TypeOK' /\ HandlerInv'
  <2>1. /\ handler' \in [Handlers -> Held]
        /\ \A g \in Handlers \ {h} : handler'[g] = handler[g]
        /\ \/ handler'[h] = Idle
           \/ handler'[h].pc \in {"job", "event"}
           \/ handler'[h].pc = "send" /\ handler'[h].frame.event # NoEvent
        /\ \/ lastJob' = lastJob \/ lastJob' = TrackedAfter(handler[h].frame.job)
        /\ lastEventID' \in {lastEventID, handler[h].frame.event.id}
        /\ waiting' \in {waiting, NoHandler} /\ latest' \in Job \cup {NoJob}
        /\ UNCHANGED <<agentVars, agentOnline, faults>>
    BY <1>5, HandlerMoves
  <2>2. HandlerInv' /\ \A g \in Handlers : (handler[g].frame \in Frame \cup {NoFrame})'
    BY <1>1, <2>1, HandlerStays, HeldFacts
  <2>3. lastJob' \in Tracked \cup {NoTracked}
    BY <2>1, Known, TrackedAfterFacts
  <2>4. lastEventID' \in 0 .. events
    <3>1. handler[h].frame.event.id \in Nat /\ handler[h].frame.event.id =< events
      BY Known DEF NumberInv
    <3>2. QED
      BY <1>1, <2>1, <3>1 DEF TypeOK
  <2>5. QED
    BY <1>1, <2>1, <2>2, <2>3, <2>4 DEF TypeOK, agentVars, producers, Flagged
<1>6. CASE HubRestart
  <2>1. /\ handler' \in [Handlers -> Held] /\ \A h \in Handlers : handler'[h] = Idle
        /\ waiting' = NoHandler /\ latest' = NoJob /\ lastJob' = NoTracked /\ lastEventID' = 0
        /\ agentOnline' = "unknown" /\ faults' \in 0 .. MaxFaults
        /\ UNCHANGED <<pc, own, activeJob, lastEvent, jobs, events>>
    BY <1>6, RestartFacts
  <2>2. HandlerInv' /\ \A h \in Handlers : (handler[h].frame \in Frame \cup {NoFrame})'
    BY <2>1, HandlerStays, HeldFacts
  <2>3. lastEventID' \in 0 .. events'
    BY <1>1, <2>1
  <2>4. QED
    BY <1>1, <2>1, <2>2, <2>3 DEF TypeOK, Flagged
<1>7. QED
  BY <1>2, <1>3, <1>4, <1>5, <1>6, Kinds

(***************************************************************************)
(* The invariants, each over every kind of step.                           *)
(***************************************************************************)

LEMMA SingleStep ==
    ASSUME TypeOK, HandlerInv, SingleInv, [Next]_vars
    PROVE  SingleInv'
<1>1. ~ overlapped => \A g, h \in Handlers : g # h => handler[g] = Idle \/ handler[h] = Idle
  BY DEF SingleInv
<1>2. CASE AgentMove
  <2>1. UNCHANGED <<handler, history>>
    BY <1>2, AgentMoves
  <2>2. QED
    BY <1>1, <2>1 DEF SingleInv, history
<1>3. CASE HubMove
  <2>1. UNCHANGED <<handler, history>>
    BY <1>3, HubMoves
  <2>2. QED
    BY <1>1, <2>1 DEF SingleInv, history
<1>4. CASE Forward
  <2>1. PICK h \in Handlers :
            /\ \A g \in Handlers \ {h} : handler'[g] = handler[g]
            /\ ~ overlapped' => \A g \in Handlers : handler[g] = Idle
    BY <1>4, ForwardFacts
  <2>2. QED
    BY <2>1 DEF SingleInv
<1>5. ASSUME NEW h \in Handlers, HandlerStep(h) PROVE SingleInv'
  <2>1. /\ handler[h].pc # "idle" /\ overlapped' = overlapped
        /\ \A g \in Handlers \ {h} : handler'[g] = handler[g]
    BY <1>5, HandlerMoves
  <2>2. handler[h] # Idle
    BY <2>1, HeldFacts
  <2>3. QED
    BY <1>1, <2>1, <2>2 DEF SingleInv
<1>6. CASE HubRestart
  BY <1>6, RestartFacts DEF SingleInv
<1>7. QED
  BY <1>2, <1>3, <1>4, <1>5, <1>6, Kinds

LEMMA NumberStep ==
    ASSUME TypeOK, HandlerInv, NumberInv, [Next]_vars
    PROVE  NumberInv'
<1>1. /\ activeJob.n =< jobs /\ lastJob.job.n =< jobs
      /\ lastEvent.id =< events /\ announced \in 0 .. events
      /\ \A h \in Handlers : handler[h].frame.job.n =< jobs /\ handler[h].frame.event.id =< events
      /\ jobs \in Nat /\ events \in Nat /\ activeJob.n \in Nat /\ lastJob.job.n \in Nat
      /\ lastEvent.id \in Nat /\ NoJob.n = 0 /\ NoEvent.id = 0
      /\ \A h \in Handlers : handler[h].frame.job.n \in Nat /\ handler[h].frame.event.id \in Nat
  BY Known, JobFacts, EventFacts DEF NumberInv
<1>2. CASE AgentMove
  <2>1. /\ jobs =< jobs' /\ events =< events' /\ jobs' \in Nat /\ events' \in Nat
        /\ \/ lastEvent' \in {lastEvent, NoEvent}
           \/ events' = events + 1 /\ lastEvent'.id = events + 1
        /\ \/ activeJob' \in {activeJob, NoJob}
           \/ jobs' = jobs + 1 /\ activeJob'.n = jobs + 1
        /\ UNCHANGED <<handler, aggregator, history>>
    BY <1>2, AgentMoves, BoundsAssumption
  <2>2. activeJob'.n =< jobs' /\ lastEvent'.id =< events'
    BY <1>1, <2>1
  <2>3. lastJob'.job.n =< jobs' /\ announced' \in 0 .. events'
    BY <1>1, <2>1 DEF aggregator, history
  <2>4. ASSUME NEW h \in Handlers
        PROVE  handler'[h].frame.job.n =< jobs' /\ handler'[h].frame.event.id =< events'
    BY <1>1, <2>1
  <2>5. QED
    BY <2>2, <2>3, <2>4 DEF NumberInv
<1>3. CASE HubMove
  <2>1. UNCHANGED <<activeJob, lastEvent, jobs, events, handler, aggregator, history>>
    BY <1>3, HubMoves
  <2>2. QED
    BY <1>1, <2>1 DEF NumberInv, aggregator, history
<1>4. CASE Forward
  <2>1. PICK h \in Handlers :
            /\ handler'[h].frame.job = activeJob /\ handler'[h].frame.event = lastEvent
            /\ \A g \in Handlers \ {h} : handler'[g] = handler[g]
            /\ lastEvent' = NoEvent /\ activeJob' = activeJob
            /\ UNCHANGED <<counts, aggregator, announced>>
    BY <1>4, ForwardFacts
  <2>2. QED
    BY <1>1, <2>1 DEF NumberInv, aggregator, counts
<1>5. ASSUME NEW h \in Handlers, HandlerStep(h) PROVE NumberInv'
  <2>1. /\ \A g \in Handlers \ {h} : handler'[g] = handler[g]
        /\ \/ handler'[h] = Idle
           \/ handler'[h].frame = handler[h].frame
           \/ /\ handler'[h].frame.job = NoJob
              /\ handler'[h].frame.event = handler[h].frame.event
        /\ \/ lastJob' = lastJob
           \/ lastJob' = TrackedAfter(handler[h].frame.job)
        /\ announced' \in {announced, handler[h].frame.event.id}
        /\ UNCHANGED agentVars
    BY <1>5, HandlerMoves
  <2>2. lastJob'.job.n =< jobs
    BY <1>1, <2>1, Known, TrackedAfterFacts
  <2>3. handler'[h].frame.job.n =< jobs /\ handler'[h].frame.event.id =< events
    BY <1>1, <2>1, HeldFacts, FrameFacts
  <2>4. announced' \in 0 .. events
    BY <1>1, <2>1
  <2>5. QED
    BY <1>1, <2>1, <2>2, <2>3, <2>4 DEF NumberInv, agentVars, producers
<1>6. CASE HubRestart
  <2>1. /\ \A h \in Handlers : handler'[h] = Idle
        /\ lastJob' = NoTracked /\ UNCHANGED <<activeJob, lastEvent, jobs, events, history>>
    BY <1>6, RestartFacts
  <2>2. \A h \in Handlers : handler'[h].frame.job.n = 0 /\ handler'[h].frame.event.id = 0
    BY <1>1, <2>1, HeldFacts, FrameFacts
  <2>3. lastJob'.job.n = 0
    BY <1>1, <2>1, TrackedFacts
  <2>4. QED
    BY <1>1, <2>1, <2>2, <2>3 DEF NumberInv, history
<1>7. QED
  BY <1>2, <1>3, <1>4, <1>5, <1>6, Kinds

LEMMA OrderStep ==
    ASSUME TypeOK, HandlerInv, SingleInv, NumberInv, OrderInv, [Next]_vars
    PROVE  OrderInv'
<1>1. /\ ~ overlapped /\ lastEvent # NoEvent => announced < lastEvent.id
      /\ \A h \in Handlers : ~ overlapped /\ handler[h].frame.event # NoEvent =>
             /\ announced < handler[h].frame.event.id
             /\ lastEvent # NoEvent => handler[h].frame.event.id < lastEvent.id
      /\ announced \in 0 .. events /\ events \in Nat
      /\ lastEvent.id \in Nat /\ lastEvent.id =< events
      /\ \A h \in Handlers : /\ handler[h].frame.event.id \in Nat
                             /\ handler[h].frame.event.id =< events
      /\ Idle.frame.event = NoEvent
  BY Known, HeldFacts, FrameFacts DEF NumberInv, OrderInv
<1>2. CASE AgentMove
  <2>1. /\ \/ lastEvent' \in {lastEvent, NoEvent}
           \/ lastEvent'.id = events + 1
        /\ UNCHANGED <<handler, history>>
    BY <1>2, AgentMoves
  <2>2. CASE lastEvent' \in {lastEvent, NoEvent}
    BY <1>1, <2>1, <2>2 DEF OrderInv, history
  <2>3. CASE lastEvent'.id = events + 1
    <3>1. announced' < lastEvent'.id
      BY <1>1, <2>1, <2>3 DEF history
    <3>2. \A h \in Handlers : handler'[h].frame.event.id < lastEvent'.id
      BY <1>1, <2>1, <2>3
    <3>3. QED
      BY <1>1, <2>1, <3>1, <3>2 DEF OrderInv, history
  <2>4. QED
    BY <2>1, <2>2, <2>3
<1>3. CASE HubMove
  <2>1. UNCHANGED <<lastEvent, handler, history>>
    BY <1>3, HubMoves
  <2>2. QED
    BY <1>1, <2>1 DEF OrderInv, history
<1>4. CASE Forward
  <2>1. PICK h \in Handlers :
            /\ handler'[h].frame.event = lastEvent /\ lastEvent' = NoEvent
            /\ \A g \in Handlers \ {h} : handler'[g] = handler[g]
            /\ ~ overlapped' => ~ overlapped
            /\ announced' = announced
    BY <1>4, ForwardFacts
  <2>2. QED
    BY <1>1, <2>1 DEF OrderInv
<1>5. ASSUME NEW h \in Handlers, HandlerStep(h) PROVE OrderInv'
  <2>1. /\ \A g \in Handlers \ {h} : handler'[g] = handler[g]
        /\ handler'[h] = Idle \/ (handler'[h].frame.event = handler[h].frame.event /\ ~ At(h, "send"))
        /\ \/ announced' = announced
           \/ At(h, "send") /\ announced' = handler[h].frame.event.id
        /\ handler[h].pc # "idle" /\ overlapped' = overlapped /\ lastEvent' = lastEvent
    BY <1>5, HandlerMoves DEF At, agentVars
  <2>2. CASE announced' = announced
    BY <1>1, <2>1, <2>2 DEF OrderInv
  <2>3. CASE At(h, "send") /\ announced' = handler[h].frame.event.id
    <3>1. handler'[h] = Idle /\ handler[h].frame.event # NoEvent /\ handler[h] # Idle
      BY <2>1, <2>3, HeldFacts DEF HandlerInv
    <3>2. ~ overlapped => \A g \in Handlers \ {h} : handler[g] = Idle
      BY <3>1 DEF SingleInv
    <3>3. ~ overlapped => \A g \in Handlers : handler'[g].frame.event = NoEvent
      BY <1>1, <2>1, <3>1, <3>2
    <3>4. QED
      BY <1>1, <2>1, <2>3, <3>1, <3>3 DEF OrderInv
  <2>4. QED
    BY <2>1, <2>2, <2>3
<1>6. CASE HubRestart
  <2>1. /\ \A h \in Handlers : handler'[h] = Idle
        /\ UNCHANGED <<lastEvent, history>>
    BY <1>6, RestartFacts
  <2>2. QED
    BY <1>1, <2>1 DEF OrderInv, history
<1>7. QED
  BY <1>2, <1>3, <1>4, <1>5, <1>6, Kinds

LEMMA ProducerStep ==
    ASSUME TypeOK, HandlerInv, NumberInv, ProducerInv, [Next]_vars
    PROVE  ProducerInv'
<1>1. /\ \A p \in Producers : pc[p] \in {"running", "returned"} =>
             /\ own[p].by = p
             /\ ~ clobbered => own[p] = activeJob /\ activeJob # NoJob
      /\ pc \in [Producers -> {"idle", "between", "running", "returned"}]
      /\ own \in [Producers -> Job \cup {NoJob}] /\ jobs \in 0 .. MaxJobs
  BY Known DEF ProducerInv, TypeOK
<1>2. ASSUME UNCHANGED <<pc, own, clobbered, activeJob>> PROVE ProducerInv'
  BY <1>1, <1>2 DEF ProducerInv
<1>3. ASSUME PipelineStart \/ PipelineEnd PROVE ProducerInv'
  <2>1. pc'["pipeline"] \in {"between", "idle"} /\ pc'["command"] = pc["command"]
    BY <1>1, <1>3, JobFacts DEF PipelineStart, PipelineEnd
  <2>2. UNCHANGED <<own, clobbered, activeJob>>
    BY <1>3 DEF PipelineStart, PipelineEnd
  <2>3. QED
    BY <1>1, <2>1, <2>2, JobFacts DEF ProducerInv
<1>4. ASSUME NEW p \in Producers, TrackJob(p) PROVE ProducerInv'
  <2> DEFINE j == [n |-> jobs + 1, by |-> p]
  <2>1. /\ jobs < MaxJobs /\ own' = [own EXCEPT ![p] = j] /\ activeJob' = own'[p]
        /\ pc' = [pc EXCEPT ![p] = "running"] /\ clobbered' = (clobbered \/ activeJob # NoJob)
        /\ pc[p] \in {"between", "idle"}
    BY <1>4 DEF TrackJob
  <2>2. j \in Job /\ j.by = p
    <3>1. jobs + 1 \in 1 .. MaxJobs
      BY <1>1, <2>1, BoundsAssumption
    <3>2. QED
      BY <3>1, JobFacts
  <2> HIDE DEF j
  <2>3. /\ own'[p] = j /\ activeJob' = j
        /\ \A q \in Producers \ {p} : own'[q] = own[q] /\ pc'[q] = pc[q]
    BY <1>1, <2>1
  <2>4. ~ clobbered' => ~ clobbered /\ activeJob = NoJob
    BY <2>1
  <2>5. ASSUME NEW q \in Producers, pc'[q] \in {"running", "returned"}
        PROVE  own'[q].by = q /\ (~ clobbered' => own'[q] = activeJob' /\ activeJob' # NoJob)
    <3>1. CASE q = p
      BY <2>2, <2>3, <3>1, JobFacts
    <3>2. CASE q # p
      BY <1>1, <2>3, <2>4, <2>5, <3>2
    <3>3. QED
      BY <3>1, <3>2
  <2>6. QED
    BY <2>5 DEF ProducerInv
<1>5. ASSUME NEW p \in Producers, CommandReturns(p) PROVE ProducerInv'
  <2>1. /\ pc[p] = "running" /\ pc' = [pc EXCEPT ![p] = "returned"]
        /\ UNCHANGED <<own, clobbered, activeJob>>
    BY <1>5 DEF CommandReturns
  <2>2. \A q \in Producers : pc'[q] \in {"running", "returned"} => pc[q] \in {"running", "returned"}
    BY <1>1, <2>1
  <2>3. QED
    BY <1>1, <2>1, <2>2 DEF ProducerInv
<1>6. ASSUME NEW p \in Producers, ClearJob(p) PROVE ProducerInv'
  <2>1. /\ pc[p] = "returned" /\ activeJob' = NoJob /\ own' = [own EXCEPT ![p] = NoJob]
        /\ clobbered' = (clobbered \/ activeJob \notin {own[p], NoJob})
        /\ pc' = [pc EXCEPT ![p] = IF p = "pipeline" THEN "between" ELSE "idle"]
    BY <1>6 DEF ClearJob
  <2>2. /\ \A q \in Producers \ {p} : own'[q] = own[q] /\ pc'[q] = pc[q]
        /\ pc'[p] \notin {"running", "returned"}
    BY <1>1, <2>1
  <2>3. ~ clobbered' => ~ clobbered
    BY <2>1
  <2>4. ASSUME NEW q \in Producers, pc'[q] \in {"running", "returned"}
        PROVE  own'[q].by = q /\ clobbered'
    <3>1. q # p /\ pc[q] \in {"running", "returned"}
      BY <2>2, <2>4
    <3>2. own[q] # own[p]
      BY <1>1, <2>1, <3>1
    <3>3. QED
      BY <1>1, <2>1, <2>2, <2>3, <3>1, <3>2
  <2>5. QED
    BY <2>4 DEF ProducerInv
<1>7. ASSUME AgentStops PROVE ProducerInv'
  <2>1. \A p \in Producers : pc'[p] = "idle"
    BY <1>7 DEF AgentStops
  <2>2. QED
    BY <2>1 DEF ProducerInv
<1>8. ASSUME AgentStarts \/ PostAbandoned \/ ForwardLost PROVE ProducerInv'
  BY <1>2, <1>8 DEF AgentStarts, PostAbandoned, ForwardLost, JobAfterBuild, agentVars, producers
<1>9. ASSUME HubMove PROVE ProducerInv'
  BY <1>2, <1>9, HubMoves
<1>10. ASSUME Forward PROVE ProducerInv'
  BY <1>2, <1>10 DEF Forward, JobAfterBuild, producers
<1>11. ASSUME NEW h \in Handlers, HandlerStep(h) PROVE ProducerInv'
  BY <1>2, <1>11, HandlerMoves DEF agentVars, producers
<1>12. ASSUME HubRestart PROVE ProducerInv'
  BY <1>2, <1>12, RestartFacts
<1>13. QED
  BY <1>3, <1>4, <1>5, <1>6, <1>7, <1>8, <1>9, <1>10, <1>11, <1>12, Kinds DEF AgentMove

LEMMA EndedStep ==
    ASSUME TypeOK, HandlerInv, SingleInv, NumberInv, ProducerInv, EndedInv, [Next]_vars
    PROVE  EndedInv'
<1>1. /\ ~ clobbered /\ ~ overlapped =>
             \A h \in Handlers : handler[h].pc \in {"ingest", "job"} /\ handler[h].frame.job = NoJob =>
                 \A p \in Producers : ~ (pc[p] = "running" /\ own[p] = lastJob.job)
      /\ pc \in [Producers -> {"idle", "between", "running", "returned"}]
      /\ own \in [Producers -> Job \cup {NoJob}] /\ jobs \in 0 .. MaxJobs
      /\ lastJob.job.n =< jobs /\ lastJob.job.n \in Nat
  BY Known DEF EndedInv, At, TypeOK, NumberInv
<1>2. SUFFICES ASSUME ~ clobbered', ~ overlapped', NEW h \in Handlers,
                      handler'[h].pc \in {"ingest", "job"}, handler'[h].frame.job = NoJob,
                      NEW p \in Producers, pc'[p] = "running", own'[p] = lastJob'.job
               PROVE  FALSE
  BY DEF EndedInv, At
<1>3. CASE AgentMove
  <2>1. UNCHANGED <<handler, history, aggregator>>
    BY <1>3, AgentMoves
  <2>2. ~ clobbered
    BY <1>2, <1>3
       DEF AgentMove, PipelineStart, PipelineEnd, AgentStarts, AgentStops, PostAbandoned, ForwardLost,
           TrackJob, CommandReturns, ClearJob, agentVars, producers
  <2>3. ASSUME NEW q \in Producers, TrackJob(q) PROVE FALSE
    <3>1. /\ jobs < MaxJobs /\ own' = [own EXCEPT ![q] = [n |-> jobs + 1, by |-> q]]
          /\ pc' = [pc EXCEPT ![q] = "running"]
      BY <2>3 DEF TrackJob
    <3>2. CASE p = q
      <4>1. own'[p] = [n |-> jobs + 1, by |-> q]
        BY <1>1, <3>1, <3>2
      <4>2. lastJob'.job.n = jobs + 1
        BY <1>2, <4>1
      <4>3. QED
        BY <1>1, <2>1, <4>2 DEF aggregator
    <3>3. CASE p # q
      <4>1. pc[p] = "running" /\ own[p] = own'[p]
        BY <1>1, <1>2, <3>1, <3>3
      <4>2. QED
        BY <1>1, <1>2, <2>1, <2>2, <4>1 DEF history, aggregator
    <3>4. QED
      BY <3>2, <3>3
  <2>4. ASSUME ~ \E q \in Producers : TrackJob(q) PROVE pc[p] = "running" /\ own[p] = own'[p]
    BY <1>1, <1>2, <1>3, <2>4
       DEF AgentMove, PipelineStart, PipelineEnd, AgentStarts, AgentStops, PostAbandoned, ForwardLost,
           CommandReturns, ClearJob, agentVars, producers
  <2>5. QED
    BY <1>1, <1>2, <2>1, <2>2, <2>3, <2>4 DEF history, aggregator
<1>4. CASE HubMove
  <2>1. UNCHANGED <<pc, own, clobbered, handler, aggregator, history>>
    BY <1>4, HubMoves
  <2>2. QED
    BY <1>1, <1>2, <2>1 DEF aggregator, history
<1>5. CASE Forward
  <2>1. PICK g \in Handlers :
            /\ handler'[g].frame.job = activeJob
            /\ \A k \in Handlers \ {g} : handler'[k] = handler[k]
            /\ ~ overlapped /\ UNCHANGED <<producers, aggregator>>
    BY <1>2, <1>5, ForwardFacts
  <2>2. CASE h = g
    <3>1. activeJob = NoJob /\ pc[p] = "running" /\ ~ clobbered
      BY <1>2, <2>1, <2>2 DEF producers
    <3>2. QED
      BY <3>1 DEF ProducerInv
  <2>3. CASE h # g
    BY <1>1, <1>2, <2>1, <2>3 DEF producers, aggregator
  <2>4. QED
    BY <2>2, <2>3
<1>6. ASSUME NEW g \in Handlers, HandlerStep(g) PROVE FALSE
  <2>1. /\ handler[g].pc # "idle" /\ \A k \in Handlers \ {g} : handler'[k] = handler[k]
        /\ \/ handler'[g] = Idle
           \/ /\ At(g, "ingest") /\ handler'[g].pc = "job"
              /\ handler'[g].frame = handler[g].frame
           \/ handler'[g].pc \in {"event", "send"}
        /\ lastJob' = lastJob \/ At(g, "job")
        /\ UNCHANGED <<agentVars, overlapped>>
    BY <1>6, HandlerMoves
  <2>2. \A k \in Handlers \ {g} : handler'[k].pc = "idle"
    BY <1>2, <2>1, HeldFacts DEF SingleInv
  <2>3. h = g
    BY <1>2, <2>2
  <2>4. At(g, "ingest") /\ handler'[g].frame = handler[g].frame
    BY <1>2, <2>1, <2>3, HeldFacts
  <2>5. lastJob' = lastJob
    BY <2>1, <2>4 DEF At
  <2>6. QED
    BY <1>1, <1>2, <2>1, <2>3, <2>4, <2>5 DEF At, agentVars, producers
<1>7. CASE HubRestart
  <2>1. \A k \in Handlers : handler'[k] = Idle
    BY <1>7, RestartFacts
  <2>2. QED
    BY <1>2, <2>1, HeldFacts
<1>8. QED
  BY <1>3, <1>4, <1>5, <1>6, <1>7, Kinds

(***************************************************************************)
(* The theorems.                                                           *)
(***************************************************************************)

LEMMA InitInv == Init => Inv
<1> SUFFICES ASSUME Init PROVE Inv
  OBVIOUS
<1>1. /\ \A h \in Handlers : handler[h] = Idle
      /\ handler \in [Handlers -> Held]
  BY HeldFacts DEF Init
<1>2. \A h \in Handlers : /\ handler[h].pc = "idle" /\ handler[h].frame \in Frame
                          /\ handler[h].frame.job = NoJob /\ handler[h].frame.event = NoEvent
  BY <1>1, HeldFacts, FrameFacts
<1>3. Flags \subseteq BOOLEAN
  <2>1. /\ agentUp = TRUE /\ registered = TRUE /\ fresh = TRUE /\ attached = FALSE /\ linkUp = TRUE
        /\ lastGate = FALSE
    BY DEF Init
  <2>2. QED
    BY <2>1, Zenon DEF Flags
<1>4. TypeOK
  BY <1>2, <1>3, BoundsAssumption DEF Init, TypeOK, Flags
<1>5. HandlerInv /\ SingleInv /\ ProducerInv /\ EndedInv /\ OrderInv
  BY <1>1, <1>2 DEF Init, HandlerInv, SingleInv, ProducerInv, EndedInv, OrderInv, At, Held
<1>6. NumberInv
  <2>1. /\ NoJob.n = 0 /\ NoEvent.id = 0 /\ NoTracked.job = NoJob
        /\ activeJob = NoJob /\ lastEvent = NoEvent /\ lastJob = NoTracked
        /\ jobs = 0 /\ events = 0 /\ announced = 0
    BY JobFacts, EventFacts, TrackedFacts DEF Init
  <2>2. QED
    BY <1>2, <2>1 DEF NumberInv
<1>7. QED
  BY <1>4, <1>5, <1>6 DEF Inv

LEMMA InvHolds == Spec => []Inv
<1>1. Inv /\ [Next]_vars => Inv'
  <2> SUFFICES ASSUME Inv, [Next]_vars PROVE Inv'
    OBVIOUS
  <2>1. TypeOK /\ HandlerInv /\ SingleInv /\ NumberInv /\ OrderInv /\ ProducerInv /\ EndedInv
    BY DEF Inv
  <2>2. TypeOK' /\ HandlerInv' /\ SingleInv' /\ NumberInv'
    BY <2>1, TypeStep, SingleStep, NumberStep
  <2>3. OrderInv' /\ ProducerInv' /\ EndedInv'
    BY <2>1, OrderStep, ProducerStep, EndedStep
  <2>4. QED
    BY <2>2, <2>3 DEF Inv
<1>2. QED
  BY InitInv, <1>1, PTL DEF Spec

\* Every variable of the agent's Collector and of the hub's Aggregator has its type.
THEOREM HubTypes == Spec => []TypeOK
<1>1. Inv => TypeOK
  BY DEF Inv
<1>2. QED
  BY InvHolds, <1>1, PTL

\* evaluateAgentEvent and the one slot of the Collector: an event goes to Vigil at most once, and
\* after the events emitted before it, whatever restarts, losses and link failures there are,
\* unless two ingest handlers have run at once.
THEOREM EventsOrdered == Spec => EventsInOrderOnce
<1>1. Inv => \A h \in Handlers : EmitNotification(h) /\ linkUp
                => announced < handler[h].frame.event.id \/ overlapped
  <2> SUFFICES ASSUME Inv, NEW h \in Handlers, EmitNotification(h), ~ overlapped
               PROVE  announced < handler[h].frame.event.id
    OBVIOUS
  <2>1. handler[h].frame.event # NoEvent
    BY DEF EmitNotification, Inv, HandlerInv
  <2>2. QED
    BY <2>1 DEF Inv, OrderInv
<1>2. QED
  BY InvHolds, <1>1, PTL DEF EventsInOrderOnce

\* evaluateJobTransition: the frame that makes the hub announce a job as complete was built after
\* the command of that job had returned.
THEOREM CompletionAfterEnd == Spec => CompletionOnlyAfterEnd
<1>1. Inv => \A h \in Handlers : AnnouncesCompletion(h) /\ ~clobbered /\ ~overlapped
                => \A p \in Producers : ~(pc[p] = "running" /\ own[p] = lastJob.job)
  <2> SUFFICES ASSUME Inv, NEW h \in Handlers, AnnouncesCompletion(h), ~ clobbered, ~ overlapped
               PROVE  \A p \in Producers : ~(pc[p] = "running" /\ own[p] = lastJob.job)
    OBVIOUS
  <2>1. At(h, "job") /\ TrackedAfter(handler[h].frame.job) = NoTracked
    BY DEF AnnouncesCompletion, EvaluateJobTransition
  <2>2. handler[h].frame.job = NoJob
    BY <2>1, Known, TrackedAfterFacts DEF Inv
  <2>3. QED
    BY <2>1, <2>2 DEF Inv, EndedInv
<1>2. QED
  BY InvHolds, <1>1, PTL DEF CompletionOnlyAfterEnd
=============================================================================
