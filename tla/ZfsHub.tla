--------------------------------- MODULE ZfsHub ---------------------------------
(***************************************************************************)
(* The telemetry path from a ZFS agent to Vigil.  On the agent: the        *)
(* Collector of internal/agent/collector.go with its view of the pools and *)
(* its one slot for the last event, the refreshes that query the pools     *)
(* side by side, the one of its loop and those of the REST handlers        *)
(* (server.go), and the forwarder, which posts one frame at a time.  On    *)
(* the hub: the Aggregator of internal/manager/aggregator.go, whose ingest *)
(* handlers run at once when the agent has given up on a post, and the     *)
(* page that derives I/O rates from its last two samples (iostat.go).      *)
(*                                                                         *)
(* There is one pool.  A refresh lists it, with its last scrub, then       *)
(* samples the counter of its I/O operations, and stores both when it is   *)
(* done, unlocked until then.  The pool does one operation between two     *)
(* samples, or is imported, which resets the counter.  Whoever emits       *)
(* events (runs of tasks, REST handlers) may do so at any time.  The       *)
(* upstream channel and the WebSocket behind Send are the module           *)
(* VigilLink: here a Send succeeds exactly while the link is up.           *)
(***************************************************************************)
EXTENDS Integers

CONSTANTS
    MaxNews,      \* bound on the samples, the scrubs and the events together
    MaxFaults,    \* bound on restarts, imports, overtaken refreshes, lost posts and links
    CounterSize,  \* one more than the largest counter
    Refreshers,   \* the refreshes that may run at once on the agent
    Handlers      \* the ingest handlers that may run at once on the hub

ASSUME BoundsAssumption == MaxNews \in Nat /\ MaxFaults \in Nat
ASSUME CounterAssumption == CounterSize \in Nat /\ CounterSize > MaxNews
ASSUME HandlersAssumption == Handlers \subseteq Nat \ {0}

NoHandler == 0

(* The last scrub of the pool in one view of it: none (n = 0), the n-th.   *)
(* A view stored by the Collector is of a turn (history): a new turn       *)
(* begins whenever a refresh stores an older view than the one it replaces.*)
Scrub == [n : 0..MaxNews, running : BOOLEAN, turn : 0..MaxFaults]
NoScrub == [n |-> 0, running |-> FALSE, turn |-> 0]
NoList == [n |-> 0, running |-> TRUE, turn |-> 0]   \* of a query that failed
IOStat == [at : 1..MaxNews, ops : 0..MaxNews]
NoIOStat == [at |-> 0, ops |-> 0]
Sample == [io : IOStat \cup {NoIOStat}, scrub : Scrub]
NoSample == [io |-> NoIOStat, scrub |-> NoScrub]
Frame == [sample : Sample, event : 0..MaxNews]
NoFrame == [sample |-> NoSample, event |-> 0]
Idle == [pc |-> "idle", frame |-> NoFrame]
Resting == [pc |-> "idle", read |-> NoSample]

VARIABLES
    pool,        \* its last scrub, in truth
    samples, ops,          \* samples taken so far, and the counter at the last one
    sample, lastEvent,     \* the Collector
    refresh,     \* the refreshes, with what they have read
    events,      \* how many events there have been; an event is its number
    waiting,     \* the handler the forwarder waits for
    hub,         \* "up" or "down"
    handler,     \* the ingest handlers
    attached, linkUp,      \* the aggregator has its client; the WebSocket is open
    cache, prevIOStat, lastPool, lastEventID,   \* the Aggregator
    reader,      \* the current sample a request for the rates has read
    turn,        \* how often a refresh has stored an older view of the pool (history)
    announced, scrubAnnounced,   \* the event and the scrub last sent by this hub (history)
    overlapped,  \* two ingest handlers have run at once (history)
    faults

poolVars == <<pool, samples, ops>>
collector == <<sample, lastEvent>>
agentVars == <<poolVars, collector, refresh, turn, events>>
upstream == <<attached, linkUp>>
aggregator == <<cache, prevIOStat, lastPool, lastEventID>>
history == <<announced, scrubAnnounced, overlapped>>
hubVars == <<hub, handler, upstream, aggregator, reader, history>>
vars == <<agentVars, waiting, hubVars, faults>>

Init ==
    /\ pool = NoScrub /\ samples = 0 /\ ops = 0
    /\ sample = NoSample /\ lastEvent = 0
    /\ refresh = [r \in Refreshers |-> Resting]
    /\ turn = 0
    /\ events = 0
    /\ waiting = NoHandler
    /\ hub = "up" /\ handler = [h \in Handlers |-> Idle]
    /\ attached = FALSE /\ linkUp = TRUE
    /\ cache = NoFrame /\ prevIOStat = NoIOStat /\ lastPool = NoScrub /\ lastEventID = 0
    /\ reader = NoIOStat
    /\ announced = 0 /\ scrubAnnounced = NoScrub /\ overlapped = FALSE
    /\ faults = 0

MoreNews == samples + pool.n + events < MaxNews
Fault == faults < MaxFaults /\ faults' = faults + 1

-----------------------------------------------------------------------------
(* The pool and the agent.                                                 *)

ScrubStarts ==
    /\ ~pool.running /\ MoreNews
    /\ pool' = [pool EXCEPT !.n = pool.n + 1, !.running = TRUE]
    /\ UNCHANGED <<samples, ops, collector, refresh, turn, events, waiting, hubVars, faults>>

ScrubEnds ==
    /\ pool.running
    /\ pool' = [pool EXCEPT !.running = FALSE]
    /\ UNCHANGED <<samples, ops, collector, refresh, turn, events, waiting, hubVars, faults>>

(* Refresh, query by query; any of them may fail.                          *)
ListPools(r) ==
    /\ refresh[r].pc = "idle"
    /\ \E scrub \in {pool, NoList} :
           /\ refresh' = [refresh EXCEPT ![r] =
                              [pc |-> "listed", read |-> [NoSample EXCEPT !.scrub = scrub]]]
           /\ IF scrub = NoList THEN Fault ELSE UNCHANGED faults
    /\ UNCHANGED <<poolVars, collector, turn, events, waiting, hubVars>>

Sampled(r, io) == refresh' = [refresh EXCEPT ![r].pc = "sampled", ![r].read.io = io]

(* The counter starts again when the pool was imported since the last one. *)
SampleIOStat(r) ==
    /\ refresh[r].pc = "listed"
    /\ \/ /\ MoreNews
          /\ samples' = samples + 1
          /\ \/ ops' = ops + 1 /\ UNCHANGED faults
             \/ ops' = 0 /\ Fault
          /\ Sampled(r, [at |-> samples', ops |-> ops'])
       \/ Sampled(r, NoIOStat) /\ UNCHANGED <<samples, ops, faults>>
    /\ UNCHANGED <<pool, collector, turn, events, waiting, hubVars>>

(* The scrubs in the order the pool goes through: scrub n runs, is over,   *)
(* scrub n + 1 runs.                                                       *)
Rank(s) == IF s.running THEN 2 * s.n ELSE 2 * s.n + 1

(* What was read replaces what is there, under the lock of the Collector;  *)
(* a query that failed leaves it.  A view older than the one it replaces   *)
(* counts among the faults.                                                *)
Store(r) ==
    LET read == refresh[r].read
        older == read.scrub # NoList /\ Rank(read.scrub) < Rank(sample.scrub)
    IN
    /\ refresh[r].pc = "sampled"
    /\ IF older THEN Fault /\ turn' = turn + 1 ELSE UNCHANGED <<faults, turn>>
    /\ sample' = [
           io |-> IF read.io = NoIOStat THEN sample.io ELSE read.io,
           scrub |-> IF read.scrub = NoList THEN sample.scrub
                     ELSE [read.scrub EXCEPT !.turn = turn']]
    /\ refresh' = [refresh EXCEPT ![r] = Resting]
    /\ UNCHANGED <<poolVars, lastEvent, events, waiting, hubVars>>

(* The slot keeps its event until the next one.                            *)
EmitEvent ==
    /\ MoreNews
    /\ events' = events + 1
    /\ lastEvent' = events + 1
    /\ UNCHANGED <<poolVars, sample, refresh, turn, waiting, hubVars, faults>>

(* The ticker or the flush channel wakes the forwarder, so a frame may     *)
(* leave at any time; what it carries stays with the Collector.            *)
Build == [sample |-> sample, event |-> lastEvent]

Forward ==
    /\ waiting = NoHandler /\ hub # "down"
    /\ \E h \in Handlers :
        /\ handler[h] = Idle
        /\ handler' = [handler EXCEPT ![h] = [pc |-> "ingest", frame |-> Build]]
        /\ waiting' = h
    /\ overlapped' = (overlapped \/ \E h \in Handlers : handler[h] # Idle)
    /\ UNCHANGED <<agentVars, hub, upstream, aggregator, reader, announced, scrubAnnounced, faults>>

(* The connection breaks while a handler has the frame, which goes on.     *)
PostAbandoned ==
    /\ Fault
    /\ waiting # NoHandler
    /\ waiting' = NoHandler
    /\ UNCHANGED <<agentVars, hubVars>>

AgentRestart ==
    /\ Fault
    /\ sample' = NoSample /\ lastEvent' = 0
    /\ refresh' = [r \in Refreshers |-> Resting]
    /\ waiting' = NoHandler
    /\ UNCHANGED <<poolVars, turn, events, hubVars>>

-----------------------------------------------------------------------------
(* The hub's ingest handler, one action for each time it takes the lock.   *)

At(h, label) == hub = "up" /\ handler[h].pc = label

(* The handler goes on with what it still needs of its frame.              *)
Goto(h, label, s) ==
    handler' = [handler EXCEPT ![h].pc = label, ![h].frame.sample = [NoSample EXCEPT !.scrub = s]]

(* The frame goes into the upstream channel, or is dropped when that is    *)
(* full; the answer reaches the forwarder if it still waits.               *)
Answer(h) ==
    /\ handler' = [handler EXCEPT ![h] = Idle]
    /\ waiting' = IF waiting = h THEN NoHandler ELSE waiting

(* The sample of the frame that leaves the cache is the previous one; a    *)
(* frame without a sample leaves the one before it.                        *)
Previous(old) == IF old = NoIOStat THEN prevIOStat ELSE old

Ingest(h) ==
    /\ At(h, "ingest")
    /\ prevIOStat' = Previous(cache.sample.io)
    /\ cache' = handler[h].frame
    /\ IF attached THEN Goto(h, "pools", handler[h].frame.sample.scrub) /\ UNCHANGED waiting ELSE Answer(h)
    /\ UNCHANGED <<agentVars, hub, upstream, lastPool, lastEventID, reader, history, faults>>

(* detectPoolTransitions: a scrub runs in the last frame and is completed  *)
(* in this one.  The first frame this hub sees, and one after a frame      *)
(* without the pool, only sets the baseline.                               *)
ScrubCompleted(prev, curr) == prev.running /\ ~curr.running /\ curr.n > 0

DetectPoolTransitions(h) ==
    LET curr == handler[h].frame.sample.scrub IN
    /\ At(h, "pools")
    /\ scrubAnnounced' =
           IF ScrubCompleted(lastPool, curr) /\ linkUp THEN curr ELSE scrubAnnounced
    /\ lastPool' = curr
    /\ Goto(h, "event", NoScrub)
    /\ UNCHANGED <<agentVars, waiting, hub, upstream, cache, prevIOStat, lastEventID, reader,
                   announced, overlapped, faults>>

(* evaluateAgentEvent: the ID is recorded first, and sent after the unlock. *)
(* (Mutants: only the empty event is passed over; the event is compared    *)
(* with the cache, which has the frame by then.)                           *)
KnownNever(e) == e = 0
KnownFromCache(e) == e = 0 \/ cache.event = e
Known(e) == e = 0 \/ lastEventID = e

EvaluateAgentEvent(h) ==
    /\ At(h, "event")
    /\ LET e == handler[h].frame.event IN
        IF Known(e) THEN Answer(h) /\ UNCHANGED lastEventID
        ELSE lastEventID' = e /\ Goto(h, "send", NoScrub) /\ UNCHANGED waiting
    /\ UNCHANGED <<agentVars, hub, upstream, cache, prevIOStat, lastPool, reader, history, faults>>

EmitNotification(h) ==
    /\ At(h, "send")
    /\ announced' = IF linkUp THEN handler[h].frame.event ELSE announced
    /\ Answer(h)
    /\ UNCHANGED <<agentVars, hub, upstream, aggregator, reader, scrubAnnounced, overlapped, faults>>

(* handleIOStatRows reads the two samples under two separate locks.        *)
ReadCurrent ==
    /\ hub = "up" /\ reader = NoIOStat /\ cache.sample # NoSample
    /\ reader' = cache.sample.io
    /\ UNCHANGED <<agentVars, waiting, hub, handler, upstream, aggregator, history, faults>>

ReadPrevious ==
    /\ hub = "up" /\ reader # NoIOStat
    /\ reader' = NoIOStat
    /\ UNCHANGED <<agentVars, waiting, hub, handler, upstream, aggregator, history, faults>>

(* rate and deltaSeconds: the operations between two samples, by unsigned  *)
(* subtraction, and none when there is no previous sample, no time between *)
(* the two, or a counter that has gone back.  (Mutant: without the last.)  *)
Delta(curr, prev) == (curr.ops - prev.ops) % CounterSize
UnguardedOps(curr, prev) == IF prev = NoIOStat \/ curr.at <= prev.at THEN 0 ELSE Delta(curr, prev)
OpsShown(curr, prev) ==
    IF prev = NoIOStat \/ curr.at <= prev.at \/ curr.ops < prev.ops THEN 0 ELSE Delta(curr, prev)

-----------------------------------------------------------------------------
SetTelemetryClient ==
    /\ hub = "up" /\ ~attached
    /\ attached' = TRUE
    /\ UNCHANGED <<agentVars, waiting, hub, handler, linkUp, aggregator, reader, history, faults>>

LinkFails ==
    /\ Fault
    /\ attached /\ linkUp
    /\ linkUp' = FALSE
    /\ UNCHANGED <<agentVars, waiting, hub, handler, attached, aggregator, reader, history>>

LinkReturns ==
    /\ ~linkUp
    /\ linkUp' = TRUE
    /\ UNCHANGED <<agentVars, waiting, hub, handler, attached, aggregator, reader, history, faults>>

(* All the Aggregator knew is gone, and with it what its hub has sent.     *)
HubStops ==
    /\ Fault
    /\ hub' = "down"
    /\ handler' = [h \in Handlers |-> Idle]
    /\ waiting' = NoHandler
    /\ attached' = FALSE /\ linkUp' = TRUE
    /\ cache' = NoFrame /\ prevIOStat' = NoIOStat /\ lastPool' = NoScrub /\ lastEventID' = 0
    /\ reader' = NoIOStat
    /\ announced' = 0
    /\ UNCHANGED <<agentVars, scrubAnnounced, overlapped>>

HubStarts ==
    /\ hub = "down"
    /\ hub' = "up"
    /\ UNCHANGED <<agentVars, waiting, handler, upstream, aggregator, reader, history, faults>>

RefreshStep(r) == ListPools(r) \/ SampleIOStat(r) \/ Store(r)

AgentStep ==
    \/ ScrubStarts \/ ScrubEnds \/ EmitEvent \/ Forward
    \/ \E r \in Refreshers : RefreshStep(r)

HandlerStep(h) ==
    Ingest(h) \/ DetectPoolTransitions(h) \/ EvaluateAgentEvent(h) \/ EmitNotification(h)

HubStep ==
    \/ ReadCurrent \/ ReadPrevious \/ SetTelemetryClient
    \/ LinkReturns \/ HubStarts
    \/ \E h \in Handlers : HandlerStep(h)

Failure == PostAbandoned \/ AgentRestart \/ LinkFails \/ HubStops

Next == AgentStep \/ HubStep \/ Failure

Spec == Init /\ [][Next]_vars

(* The ticker keeps the forwarder going and net/http its handlers; Vigil   *)
(* accepts the registration of a hub that is up.                           *)
FairSpec ==
    /\ Spec
    /\ WF_vars(Forward) /\ WF_vars(SetTelemetryClient)
    /\ \A h \in Handlers : WF_vars(HandlerStep(h))

-----------------------------------------------------------------------------
TypeOK ==
    /\ pool \in Scrub /\ samples \in 0..MaxNews /\ ops \in 0..MaxNews
    /\ sample \in Sample /\ {lastPool, scrubAnnounced} \subseteq Scrub
    /\ refresh \in [Refreshers -> [pc : {"idle", "listed", "sampled"}, read : Sample]]
    /\ {prevIOStat, reader} \subseteq IOStat \cup {NoIOStat}
    /\ lastEvent \in 0..events /\ events \in 0..MaxNews
    /\ waiting \in Handlers \cup {NoHandler}
    /\ hub \in {"up", "down"}
    /\ \A h \in Handlers : handler[h].frame \in Frame
    /\ {attached, linkUp, overlapped} \subseteq BOOLEAN
    /\ cache \in Frame
    /\ lastEventID \in 0..events /\ announced \in 0..events
    /\ turn \in 0..faults /\ faults \in 0..MaxFaults

(* Whatever frames are repeated, lost or abandoned, one hub process sends  *)
(* an event at most once and events in their order, unless two handlers    *)
(* ran at once.  A scrub that is announced as completed is over, even then *)
(* and whatever refreshes were overtaken; and it is announced again, or    *)
(* after a later one, only if a refresh stored an older view in between.   *)
AnnouncedOnce ==
    [][\A h \in Handlers :
        LET frame == handler[h].frame
            curr == frame.sample.scrub
        IN
        /\ EmitNotification(h) /\ linkUp => announced < frame.event \/ overlapped
        /\ DetectPoolTransitions(h) /\ ScrubCompleted(lastPool, curr) /\ linkUp =>
               /\ Rank(curr) <= Rank(pool)
               /\ \/ scrubAnnounced.n < curr.n
                  \/ scrubAnnounced.turn < curr.turn
                  \/ overlapped]_vars

(* The rate a page shows is never more than what the pool has done between *)
(* the two samples, whichever frames arrived between the reads of the two, *)
(* whatever order they came in and however often the pool was imported.    *)
RatesNeverAboveActivity ==
    [][ReadPrevious =>
        OpsShown(reader, prevIOStat) <=
            IF reader.at > prevIOStat.at THEN reader.at - prevIOStat.at ELSE 0]_vars

(* When no more samples and events come, the hub in the end shows the last *)
(* sample and has taken the last event, if it stays up.                    *)
AgentSeen == cache = Build /\ (lastEvent # 0 => lastEventID = lastEvent)

HubCatchesUp == <>[](hub = "up") /\ <>[][FALSE]_collector => <>[]AgentSeen

(* "Rates are computed by diffing against the previous frame. When no      *)
(* previous frame exists rates are reported as zero" (iostat.go:86-89).    *)
ZeroOnlyWithoutPrevious ==
    [][ReadPrevious /\ 0 < prevIOStat.ops /\ prevIOStat.ops <= reader.ops
        => OpsShown(reader, prevIOStat) > 0]_vars
=============================================================================
