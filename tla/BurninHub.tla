------------------------------- MODULE BurninHub -------------------------------
(***************************************************************************)
(* The telemetry path of the burn-in add-on: the progress frames each job  *)
(* goroutine emits (internal/jobs), the WebSocket of the agent that        *)
(* carries them (internal/agent/hub_telemetry.go), and the hub's           *)
(* Aggregator (internal/hub/aggregator.go), which runs one reader          *)
(* goroutine per connection and keeps the active jobs and the job          *)
(* notifications.  The agents are taken to be registered with the hub.     *)
(*                                                                         *)
(* A frame that cannot be written is dropped: nothing is queued or sent    *)
(* again.  Readers of an old and a new connection of one agent interleave  *)
(* at every lock of processFrame.                                          *)
(***************************************************************************)
EXTENDS Naturals, Sequences, FiniteSets

CONSTANTS
    Agents,       \* agent IDs
    Jobs,         \* jobs, over all agents
    AgentOf,      \* the agent that runs a job
    MaxProgress,  \* bound on the progress frames of a job below 100 percent
    MaxConns,     \* bound on the connections opened to the hub
    MaxCrashes    \* bound on the crashes of hub and agents together

ASSUME JobsAssumption == Jobs # {}
ASSUME AgentOfAssumption == AgentOf \in [Jobs -> Agents]
ASSUME HubBoundsAssumption ==
    MaxProgress \in Nat /\ MaxConns \in Nat /\ MaxCrashes \in Nat

VARIABLES
    stage,          \* where the job goroutine of a job is
    sent,           \* progress frames a job has emitted
    link,           \* HubTelemetry.conn of an agent
    owner,          \* the agent of a connection
    queue,          \* frames written to a connection, not read yet
    broken,         \* connections that are closed or lost
    handler,        \* where the hub's reader of a connection is
    frame,          \* the frame that reader is processing
    relay,          \* its copy of whether the upstream client is set
    conns,          \* Aggregator.conns
    activeProgress, \* jobs in Aggregator.activeProgress
    smartDeltas,    \* jobs in Aggregator.smartDeltas
    lastPhase,      \* jobs in Aggregator.lastPhase
    knownJobs,      \* Aggregator.knownJobs
    upstream,       \* Aggregator.upstream is set
    started,        \* job_started notifications emitted per job
    completed,      \* job_complete notifications emitted per job
    crashes,        \* crashes so far
    hubRestarts,    \* those of the hub
    lost,           \* history: jobs a frame of which was lost
    overlap         \* history: agents with a frame read while another of
                    \* its connections still had a reader

jobVars == <<stage, sent>>
linkVars == <<link, owner, queue, broken>>
readerVars == <<handler, frame, relay>>
storeVars == <<activeProgress, smartDeltas, lastPhase>>
noteVars == <<knownJobs, started, completed>>
crashVars == <<crashes, hubRestarts>>
historyVars == <<lost, overlap>>
vars == <<jobVars, linkVars, readerVars, conns, storeVars, noteVars, upstream, crashVars, historyVars>>

-----------------------------------------------------------------------------
(* Types *)

Conns == 1..MaxConns
NoConn == 0

JobStage == {"idle", "first", "second", "finishing", "cancelling", "done", "dead"}

(* "progress" is any frame below 100 percent; the other two are the frames *)
(* at 100 percent whose phase has that name.  deltas: the frame carries    *)
(* SMART deltas.                                                           *)
Frame == [job : Jobs, kind : {"progress", "COMPLETE", "CANCELLED"}, deltas : BOOLEAN]

HandlerStage == {"none", "upgraded", "reading", "received", "progressed", "phased",
                 "cleaning", "cleanedPhase", "cleanedDeltas", "evaluate",
                 "unseen", "seen", "ended"}

AnyFrame == CHOOSE f \in Frame : TRUE

Busy(c) == handler[c] \notin {"none", "upgraded", "reading", "ended"}
Reads(c) == handler[c] \notin {"none", "upgraded", "ended"}

JobOf(c) == frame[c].job
Final(c) == frame[c].kind \in {"COMPLETE", "CANCELLED"}

InTransit(j) ==
    \/ \E c \in Conns : \E n \in 1..Len(queue[c]) : queue[c][n].job = j
    \/ \E c \in Conns : Busy(c) /\ JobOf(c) = j

-----------------------------------------------------------------------------
Init ==
    /\ stage = [j \in Jobs |-> "idle"]
    /\ sent = [j \in Jobs |-> 0]
    /\ link = [a \in Agents |-> NoConn]
    /\ owner = [c \in Conns |-> CHOOSE a \in Agents : TRUE]
    /\ queue = [c \in Conns |-> <<>>]
    /\ broken = {}
    /\ handler = [c \in Conns |-> "none"]
    /\ frame = [c \in Conns |-> AnyFrame]
    /\ relay = [c \in Conns |-> FALSE]
    /\ conns = [a \in Agents |-> NoConn]
    /\ activeProgress = {}
    /\ smartDeltas = {}
    /\ lastPhase = {}
    /\ knownJobs = {}
    /\ upstream = FALSE
    /\ started = [j \in Jobs |-> 0]
    /\ completed = [j \in Jobs |-> 0]
    /\ crashes = 0
    /\ hubRestarts = 0
    /\ lost = {}
    /\ overlap = {}

-----------------------------------------------------------------------------
(* The job goroutines                                                      *)

(* writeJSON: the frame goes to the current connection, or is dropped      *)
(* because there is none or because it no longer works.                    *)
Send(j, kind, deltas) ==
    LET c == link[AgentOf[j]] IN
    IF c = NoConn \/ c \in broken
    THEN /\ lost' = lost \union {j}
         /\ UNCHANGED queue
    ELSE /\ queue' = [queue EXCEPT ![c] =
                        Append(@, [job |-> j, kind |-> kind, deltas |-> deltas])]
         /\ UNCHANGED lost

JobStep(j, to) ==
    /\ stage' = [stage EXCEPT ![j] = to]
    /\ UNCHANGED <<link, owner, broken, readerVars, conns, storeVars, noteVars,
                   upstream, crashVars, overlap>>

StartJob(j) ==
    /\ stage[j] = "idle"
    /\ JobStep(j, "first")
    /\ UNCHANGED <<sent, queue, lost>>

(* phase, progress and smartWarning of the emitter.                        *)
EmitProgress(j, deltas) ==
    /\ stage[j] \in {"first", "second"}
    /\ sent[j] < MaxProgress
    /\ sent' = [sent EXCEPT ![j] = @ + 1]
    /\ Send(j, "progress", deltas)
    /\ JobStep(j, stage[j])

(* emitComplete: an orchestrator concludes, or fails a phase.  The full    *)
(* command goes on to its second half after a burn-in that passed.  A      *)
(* cancel may have caused the failure, or come before the second half.     *)
EmitComplete(j, deltas) ==
    /\ \/ stage[j] = "first" /\ JobStep(j, "second")
       \/ stage[j] \in {"first", "second"} /\ JobStep(j, "finishing")
       \/ stage[j] \in {"first", "second"} /\ JobStep(j, "cancelling")
    /\ Send(j, "COMPLETE", deltas)
    /\ UNCHANGED sent

(* A phase ends with ctx.Err(): the orchestrator returns without a frame.  *)
ReturnCancelled(j) ==
    /\ stage[j] \in {"first", "second"}
    /\ JobStep(j, "cancelling")
    /\ UNCHANGED <<sent, queue, lost>>

(* finishJob "emits a final frame so the hub/UI know the job ended".       *)
EmitFinal(j) ==
    /\ \/ stage[j] = "finishing" /\ Send(j, "COMPLETE", FALSE)
       \/ stage[j] = "cancelling" /\ Send(j, "CANCELLED", FALSE)
    /\ JobStep(j, "done")
    /\ UNCHANGED sent

-----------------------------------------------------------------------------
(* Connections                                                             *)

(* What is left of the frames in flight when a connection goes down.       *)
Prefixes(q) == {SubSeq(q, 1, n) : n \in 0..Len(q)}
CutFrames(q, p) == {q[n].job : n \in (Len(p) + 1)..Len(q)}

Break(c, survives) ==
    /\ broken' = broken \union {c}
    /\ queue' = [queue EXCEPT ![c] = survives]
    /\ lost' = lost \union CutFrames(queue[c], survives)

(* The agent dials, HandleAgentTelemetry upgrades.                         *)
Dial(a, c) ==
    /\ link[a] = NoConn
    /\ handler[c] = "none"
    /\ \A d \in 1..(c - 1) : handler[d] # "none"
    /\ link' = [link EXCEPT ![a] = c]
    /\ owner' = [owner EXCEPT ![c] = a]
    /\ handler' = [handler EXCEPT ![c] = "upgraded"]
    /\ UNCHANGED <<jobVars, queue, broken, frame, relay, conns, storeVars, noteVars,
                   upstream, crashVars, historyVars>>

(* ... and makes the connection the agent's, closing the one before.       *)
Track(c) ==
    LET a == owner[c] IN
    /\ handler[c] = "upgraded"
    /\ conns' = [conns EXCEPT ![a] = c]
    /\ handler' = [handler EXCEPT ![c] = "reading"]
    /\ IF conns[a] = NoConn
       THEN UNCHANGED <<queue, broken, lost>>
       ELSE \E survives \in Prefixes(queue[conns[a]]) : Break(conns[a], survives)
    /\ UNCHANGED <<jobVars, link, owner, frame, relay, storeVars, noteVars,
                   upstream, crashVars, overlap>>

(* The network or a read deadline ends a connection.                       *)
Disconnect(c) ==
    /\ handler[c] \notin {"none", "ended"}
    /\ c \notin broken
    /\ \E survives \in Prefixes(queue[c]) : Break(c, survives)
    /\ UNCHANGED <<jobVars, link, owner, readerVars, conns, storeVars, noteVars,
                   upstream, crashVars, overlap>>

(* connectAndServe of the agent returns; Run dials again after a delay.    *)
NoticeDisconnect(a) ==
    /\ link[a] \in broken
    /\ link' = [link EXCEPT ![a] = NoConn]
    /\ UNCHANGED <<jobVars, owner, queue, broken, readerVars, conns, storeVars,
                   noteVars, upstream, crashVars, historyVars>>

(* readLoop returns; the connection is removed if it is still the agent's. *)
UntrackAlways(c) == conns' = [conns EXCEPT ![owner[c]] = NoConn]
Untrack(c) ==
    conns' = [conns EXCEPT ![owner[c]] = IF @ = c THEN NoConn ELSE @]

EndReader(c) ==
    /\ handler[c] = "reading"
    /\ c \in broken
    /\ queue[c] = <<>>
    /\ handler' = [handler EXCEPT ![c] = "ended"]
    /\ Untrack(c)
    /\ UNCHANGED <<jobVars, linkVars, frame, relay, storeVars, noteVars, upstream, crashVars, historyVars>>

-----------------------------------------------------------------------------
(* processFrame of a progress frame                                        *)

ReadMessage(c) ==
    /\ handler[c] = "reading"
    /\ queue[c] # <<>>
    /\ frame' = [frame EXCEPT ![c] = Head(queue[c])]
    /\ queue' = [queue EXCEPT ![c] = Tail(@)]
    /\ relay' = [relay EXCEPT ![c] = upstream]
    /\ handler' = [handler EXCEPT ![c] = "received"]
    /\ overlap' = IF \E d \in Conns \ {c} :
                       owner[d] = owner[c] /\ handler[d] \notin {"none", "ended"}
                  THEN overlap \union {owner[c]} ELSE overlap
    /\ UNCHANGED <<jobVars, link, owner, broken, conns, storeVars, noteVars,
                   upstream, crashVars, lost>>

(* A step of the reader of c within processFrame; its locals go at the end.*)
ReaderStep(c, from, to) ==
    /\ handler[c] = from
    /\ handler' = [handler EXCEPT ![c] = to]
    /\ IF to = "reading"
       THEN /\ frame' = [frame EXCEPT ![c] = AnyFrame]
            /\ relay' = [relay EXCEPT ![c] = FALSE]
       ELSE UNCHANGED <<frame, relay>>
    /\ UNCHANGED <<jobVars, linkVars, conns, upstream, crashVars,
                   historyVars>>

(* storeProgressLocally: progressMu, then smartMu.                         *)
StoreProgress(c) ==
    /\ ReaderStep(c, "received", "progressed")
    /\ activeProgress' = activeProgress \union {JobOf(c)}
    /\ UNCHANGED <<smartDeltas, lastPhase, noteVars>>

StoreSmartDeltas(c) ==
    /\ ReaderStep(c, "progressed", "phased")
    /\ smartDeltas' = IF frame[c].deltas THEN smartDeltas \union {JobOf(c)}
                      ELSE smartDeltas
    /\ UNCHANGED <<activeProgress, lastPhase, noteVars>>

(* storePhaseTransition, and the test of cleanupIfComplete.                *)
OnlyCompleteEnds(c) == frame[c].kind = "COMPLETE"
EndsJob(c) == Final(c)

StorePhaseTransition(c) ==
    /\ ReaderStep(c, "phased", IF EndsJob(c) THEN "cleaning" ELSE "evaluate")
    /\ lastPhase' = lastPhase \union {JobOf(c)}
    /\ UNCHANGED <<activeProgress, smartDeltas, noteVars>>

CleanupJobPhase(c) ==
    /\ ReaderStep(c, "cleaning", "cleanedPhase")
    /\ lastPhase' = lastPhase \ {JobOf(c)}
    /\ UNCHANGED <<activeProgress, smartDeltas, noteVars>>

CleanupSmartDeltasKept(c) ==
    /\ ReaderStep(c, "cleanedPhase", "cleanedDeltas")
    /\ UNCHANGED <<storeVars, noteVars>>

CleanupSmartDeltas(c) ==
    /\ ReaderStep(c, "cleanedPhase", "cleanedDeltas")
    /\ smartDeltas' = smartDeltas \ {JobOf(c)}
    /\ UNCHANGED <<activeProgress, lastPhase, noteVars>>

CleanupProgress(c) ==
    /\ ReaderStep(c, "cleanedDeltas", "evaluate")
    /\ activeProgress' = activeProgress \ {JobOf(c)}
    /\ UNCHANGED <<smartDeltas, lastPhase, noteVars>>

(* evaluateJobLifecycle, only with an upstream client: is the job known?   *)
LookupKnown(c) ==
    /\ ReaderStep(c, "evaluate",
                  IF ~ relay[c] THEN "reading"
                  ELSE IF JobOf(c) \in knownJobs THEN "seen" ELSE "unseen")
    /\ UNCHANGED <<storeVars, noteVars>>

(* "First progress frame for this job: mark as started."                   *)
MarkStarted(c) ==
    /\ ReaderStep(c, "unseen", "seen")
    /\ knownJobs' = knownJobs \union {JobOf(c)}
    /\ started' = [started EXCEPT ![JobOf(c)] = @ + 1]
    /\ UNCHANGED <<completed, storeVars>>

(* "Detect job completion."                                                *)
ForgottenOnComplete(c) == {}
Forgotten(c) == IF Final(c) THEN {JobOf(c)} ELSE {}

MarkComplete(c) ==
    /\ ReaderStep(c, "seen", "reading")
    /\ knownJobs' = knownJobs \ Forgotten(c)
    /\ completed' = IF Final(c) THEN [completed EXCEPT ![JobOf(c)] = @ + 1]
                    ELSE completed
    /\ UNCHANGED <<started, storeVars>>

-----------------------------------------------------------------------------
(* Environment                                                             *)

(* The upstream telemetry client is ready.                                 *)
SetUpstream ==
    /\ ~ upstream
    /\ upstream' = TRUE
    /\ UNCHANGED <<jobVars, linkVars, readerVars, conns, storeVars, noteVars, crashVars, historyVars>>

(* The hub dies and starts again: what the aggregator holds is lost.       *)
HubRestart ==
    /\ crashes < MaxCrashes
    /\ crashes' = crashes + 1
    /\ hubRestarts' = hubRestarts + 1
    /\ broken' = broken \union {c \in Conns : handler[c] # "none"}
    /\ lost' = lost \union {j \in Jobs : InTransit(j)}
    /\ queue' = [c \in Conns |-> <<>>]
    /\ handler' = [c \in Conns |-> IF handler[c] = "none" THEN "none" ELSE "ended"]
    /\ frame' = [c \in Conns |-> AnyFrame]
    /\ relay' = [c \in Conns |-> FALSE]
    /\ conns' = [a \in Agents |-> NoConn]
    /\ activeProgress' = {}
    /\ smartDeltas' = {}
    /\ lastPhase' = {}
    /\ knownJobs' = {}
    /\ upstream' = FALSE
    /\ UNCHANGED <<jobVars, link, owner, started, completed, overlap>>

(* An agent dies with its jobs, sends nothing, and starts again.           *)
AgentRestart(a) ==
    /\ crashes < MaxCrashes
    /\ crashes' = crashes + 1
    /\ stage' = [j \in Jobs |-> IF AgentOf[j] = a /\ stage[j] # "idle"
                                THEN "dead" ELSE stage[j]]
    /\ link' = [link EXCEPT ![a] = NoConn]
    /\ IF link[a] = NoConn
       THEN UNCHANGED <<queue, broken, lost>>
       ELSE \E survives \in Prefixes(queue[link[a]]) : Break(link[a], survives)
    /\ UNCHANGED <<sent, owner, readerVars, conns, storeVars, noteVars, upstream,
                   hubRestarts, overlap>>

-----------------------------------------------------------------------------
ProcessFrame(c) ==
    \/ StoreProgress(c) \/ StoreSmartDeltas(c) \/ StorePhaseTransition(c)
    \/ CleanupJobPhase(c) \/ CleanupSmartDeltas(c) \/ CleanupProgress(c)
    \/ LookupKnown(c) \/ MarkStarted(c) \/ MarkComplete(c)

JobNext(j) ==
    \/ StartJob(j)
    \/ \E deltas \in BOOLEAN : EmitProgress(j, deltas) \/ EmitComplete(j, deltas)
    \/ ReturnCancelled(j)
    \/ EmitFinal(j)

ReaderNext(c) == Track(c) \/ ReadMessage(c) \/ ProcessFrame(c) \/ EndReader(c)

LinkNext ==
    \/ \E a \in Agents : NoticeDisconnect(a)
    \/ \E a \in Agents, c \in Conns : Dial(a, c)
    \/ \E c \in Conns : Disconnect(c)

Next ==
    \/ \E j \in Jobs : JobNext(j)
    \/ \E c \in Conns : ReaderNext(c)
    \/ LinkNext
    \/ SetUpstream
    \/ HubRestart
    \/ \E a \in Agents : AgentRestart(a)

Spec == Init /\ [][Next]_vars

-----------------------------------------------------------------------------
(* Correctness *)

(* Every variable has its type.                                            *)
TypeOK ==
    /\ stage \in [Jobs -> JobStage]
    /\ sent \in [Jobs -> 0..MaxProgress]
    /\ link \in [Agents -> Conns \union {NoConn}]
    /\ owner \in [Conns -> Agents]
    /\ queue \in [Conns -> Seq(Frame)]
    /\ broken \in SUBSET Conns
    /\ handler \in [Conns -> HandlerStage]
    /\ frame \in [Conns -> Frame]
    /\ relay \in [Conns -> BOOLEAN]
    /\ conns \in [Agents -> Conns \union {NoConn}]
    /\ activeProgress \in SUBSET Jobs
    /\ smartDeltas \in SUBSET Jobs
    /\ lastPhase \in SUBSET Jobs
    /\ knownJobs \in SUBSET Jobs
    /\ upstream \in BOOLEAN
    /\ started \in [Jobs -> Nat]
    /\ completed \in [Jobs -> Nat]
    /\ crashes \in 0..MaxCrashes
    /\ hubRestarts \in 0..MaxCrashes
    /\ lost \in SUBSET Jobs
    /\ overlap \in SUBSET Agents

(* "Close any existing connection from the same agent", and "only remove   *)
(* if it's still our connection (not replaced by a newer one)": a reader   *)
(* whose connection is still open is the one Aggregator.conns names, so    *)
(* the next connection of the agent will close it.                         *)
OpenReaderIsTracked ==
    \A c \in Conns : Reads(c) /\ c \notin broken => conns[owner[c]] = c

(* GET /api/jobs/active: a job that has ended and has no frame on its way  *)
(* is shown as active only if one of its frames was lost, its agent died,  *)
(* or two connections of its agent had readers at once (a frame of the one *)
(* may then be stored after the final frame, read from the other).         *)
GhostJobOnlyByLoss ==
    \A j \in activeProgress :
        stage[j] = "done" /\ ~ InTransit(j) => j \in lost \/ AgentOf[j] \in overlap

(* The SMART deltas table and the phase log show jobs that are active:     *)
(* between two frames of a job the three maps of the aggregator agree.     *)
StoresAgree ==
    \A j \in Jobs :
        AgentOf[j] \notin overlap /\ (\A c \in Conns : ~ (Busy(c) /\ JobOf(c) = j)) =>
            /\ j \in smartDeltas => j \in activeProgress
            /\ j \in lastPhase <=> j \in activeProgress

(* Between two frames of a job, its notifications pair up: a job_complete  *)
(* for every job_started, except that a job that is known has one start    *)
(* more.  (A restart of the hub forgets the known jobs.)                   *)
NotificationsPairUp ==
    \A j \in Jobs :
        /\ hubRestarts = 0
        /\ AgentOf[j] \notin overlap
        /\ \A c \in Conns : ~ (Busy(c) /\ JobOf(c) = j)
        => started[j] = completed[j] + (IF j \in knownJobs THEN 1 ELSE 0)

(* "First progress frame for this job: mark as started" (aggregator.go):   *)
(* one hub announces the start of a job once.                              *)
StartAnnouncedOnce ==
    hubRestarts = 0 => \A j \in Jobs : started[j] <= 1
=============================================================================
