---------------------------- MODULE ZfsHubProofs ----------------------------
(***************************************************************************)
(* Proofs about ZfsHub for any number of samples, scrubs, events, faults,  *)
(* refreshes and ingest handlers, and about VigilLink, the link its Send   *)
(* stands for.                                                             *)
(*                                                                         *)
(* Until two handlers run at once they follow one another (AloneInv), so   *)
(* events are recorded and sent in the order in which their frames left    *)
(* (EventInv). No view of the pool is ahead of the pool (RankInv), so what *)
(* is announced as completed is over. Refreshes may store their views in   *)
(* any order, but within a turn the Collector only goes on: ScrubInv puts  *)
(* the scrub announced last, the view the hub saw last, the frames and     *)
(* the Collector in one order, first by turn and then by rank. A view that *)
(* still runs is later than the scrub announced last, and its completion   *)
(* later still, or of a later turn. RateInv needs none of this: between    *)
(* any two samples anywhere, the counter has grown by no more than the     *)
(* samples, whatever order the hub got them in.                            *)
(***************************************************************************)
EXTENDS ZfsHub, VigilLink, TLAPS

\* What a handler of the hub holds, and a refresh.
Label == {"idle", "ingest", "pools", "event", "send"}
HandlerState == [pc : Label, frame : Frame]
RefreshState == [pc : {"idle", "listed", "sampled"}, read : Sample]

\* One handler at a time, until two have run at once.
AloneInv ==
    overlapped \/ \A g, h \in Handlers : handler[g] # Idle /\ handler[h] # Idle => g = h

IO(h) == handler[h].frame.sample.io
FrameScrub(h) == handler[h].frame.sample.scrub
EventOf(h) == handler[h].frame.event

ReadIO(r) == refresh[r].read.io
Listed(r) == refresh[r].read.scrub
HasList(r) == refresh[r].pc # "idle" /\ Listed(r) # NoList

\* The types, with the labels of the handlers; an event in a frame has been emitted.
Types ==
    /\ TypeOK
    /\ handler \in [Handlers -> HandlerState]
    /\ \A h \in Handlers : EventOf(h) \in 0 .. events

\* All samples of the counter that are anywhere, and their growth.
Stats == {NoIOStat, sample.io, cache.sample.io, prevIOStat, reader}
             \cup {IO(h) : h \in Handlers} \cup {ReadIO(r) : r \in Refreshers}

Steady(i, j) == j.at <= i.at => i.ops - j.ops <= i.at - j.at

RateInv ==
    /\ \A i \in Stats : i.at <= samples /\ ops - i.ops <= samples - i.at
    /\ \A i, j \in Stats : Steady(i, j)

\* No view of the pool is ahead of it, and that of the Collector is of the current turn.
RankInv ==
    /\ 1 <= Rank(pool) /\ 1 <= Rank(sample.scrub)
    /\ Rank(sample.scrub) <= Rank(pool) /\ Rank(lastPool) <= Rank(pool)
    /\ Rank(scrubAnnounced) <= Rank(pool) /\ ~ scrubAnnounced.running
    /\ \A h \in Handlers : Rank(FrameScrub(h)) <= Rank(pool)
    /\ \A r \in Refreshers : HasList(r) => 1 <= Rank(Listed(r)) /\ Rank(Listed(r)) <= Rank(pool)
    /\ sample.scrub # NoScrub => sample.scrub.turn = turn

\* Announced events, the last one recorded, those in handlers and the one in the slot of
\* the Collector come in this order; an event on its way to Send is the one recorded last.
EventInv ==
    /\ announced <= lastEventID
    /\ lastEvent = 0 \/ lastEventID <= lastEvent
    /\ \A h \in Handlers : handler[h] # Idle =>
           /\ lastEvent = 0 \/ EventOf(h) <= lastEvent
           /\ handler[h].pc # "send" => EventOf(h) = 0 \/ lastEventID <= EventOf(h)
           /\ handler[h].pc = "send" => EventOf(h) = lastEventID /\ announced < lastEventID

\* The view s is no later than the view t, if t is one at all.
Before(s, t) == \/ t = NoScrub
                \/ s.turn < t.turn
                \/ s.turn = t.turn /\ Rank(s) <= Rank(t)

\* What the Collector holds, or gets next when it holds nothing, is no earlier than c.
Behind(c) ==
    /\ c.turn <= turn
    /\ c.turn = turn =>
           IF sample.scrub = NoScrub
           THEN \A r \in Refreshers : HasList(r) => Rank(c) <= Rank(Listed(r))
           ELSE Rank(c) <= Rank(sample.scrub)

\* What the hub announced last is no later than what it saw last, that no later than the
\* frames, and these no later than the Collector.
ScrubInv ==
    /\ Behind(scrubAnnounced) /\ Behind(lastPool) /\ Before(scrubAnnounced, lastPool)
    /\ \A h \in Handlers : /\ Behind(FrameScrub(h))
                           /\ Before(scrubAnnounced, FrameScrub(h))
                           /\ Before(lastPool, FrameScrub(h))

(***************************************************************************)
(* The records.                                                            *)
(***************************************************************************)

LEMMA Nothings ==
    /\ NoScrub \in Scrub /\ NoScrub.n = 0 /\ NoScrub.running = FALSE /\ NoScrub.turn = 0
    /\ NoList \in Scrub
    /\ NoIOStat \notin IOStat /\ NoIOStat.at = 0 /\ NoIOStat.ops = 0
    /\ NoSample \in Sample /\ NoSample.io = NoIOStat /\ NoSample.scrub = NoScrub
    /\ NoFrame \in Frame /\ NoFrame.sample = NoSample /\ NoFrame.event = 0
    /\ Idle \in HandlerState /\ Idle.pc = "idle" /\ Idle.frame = NoFrame
    /\ Resting \in RefreshState /\ Resting.pc = "idle" /\ Resting.read = NoSample
<1> USE BoundsAssumption
<1>1. NoScrub \in Scrub /\ NoScrub.n = 0 /\ NoScrub.running = FALSE /\ NoScrub.turn = 0
      /\ NoList \in Scrub
  BY DEF NoScrub, NoList, Scrub
<1>2. NoIOStat \notin IOStat /\ NoIOStat.at = 0 /\ NoIOStat.ops = 0
  BY DEF NoIOStat, IOStat
<1>3. NoSample \in Sample /\ NoSample.io = NoIOStat /\ NoSample.scrub = NoScrub
  BY <1>1 DEF NoSample, Sample
<1>4. NoFrame \in Frame /\ NoFrame.sample = NoSample /\ NoFrame.event = 0
  BY <1>3 DEF NoFrame, Frame
<1>5. Idle \in HandlerState /\ Idle.pc = "idle" /\ Idle.frame = NoFrame
  BY <1>4 DEF Idle, HandlerState, Label
<1>6. Resting \in RefreshState /\ Resting.pc = "idle" /\ Resting.read = NoSample
  BY <1>3 DEF Resting, RefreshState
<1>7. QED
  BY <1>1, <1>2, <1>3, <1>4, <1>5, <1>6

Stat == IOStat \cup {NoIOStat}

LEMMA Parts ==
    /\ \A s \in Scrub : s.n \in 0 .. MaxNews /\ s.running \in BOOLEAN /\ s.turn \in 0 .. MaxFaults
    /\ \A i \in Stat : i.at \in 0 .. MaxNews /\ i.ops \in 0 .. MaxNews
    /\ \A a \in Sample : a.io \in Stat /\ a.scrub \in Scrub
    /\ \A f \in Frame : f.sample \in Sample /\ f.event \in 0 .. MaxNews
    /\ \A x \in HandlerState : x.pc \in Label /\ x.frame \in Frame
    /\ \A y \in RefreshState : y.read \in Sample
<1>1. \A s \in Scrub : s.n \in 0 .. MaxNews /\ s.running \in BOOLEAN /\ s.turn \in 0 .. MaxFaults
  BY DEF Scrub
<1>2. \A i \in Stat : i.at \in 0 .. MaxNews /\ i.ops \in 0 .. MaxNews
  BY Nothings, BoundsAssumption DEF Stat, IOStat
<1>3. \A a \in Sample : a.io \in Stat /\ a.scrub \in Scrub
  BY DEF Sample, Stat
<1>4. \A f \in Frame : f.sample \in Sample /\ f.event \in 0 .. MaxNews
  BY DEF Frame
<1>5. \A x \in HandlerState : x.pc \in Label /\ x.frame \in Frame
  BY DEF HandlerState
<1>6. \A y \in RefreshState : y.read \in Sample
  BY DEF RefreshState
<1>7. QED
  BY <1>1, <1>2, <1>3, <1>4, <1>5, <1>6

\* The types of the views of the pool and of what they are compared by.
LEMMA ViewTypes ==
    /\ \A s \in Scrub : Rank(s) \in Nat /\ s.turn \in Nat /\ s.n \in Nat /\ s.running \in BOOLEAN
    /\ Rank(NoScrub) = 1
    /\ Types => /\ \A h \in Handlers : FrameScrub(h) \in Scrub /\ EventOf(h) \in 0 .. MaxNews
                /\ \A r \in Refreshers : Listed(r) \in Scrub
                /\ sample.scrub \in Scrub /\ pool \in Scrub /\ lastPool \in Scrub
                /\ scrubAnnounced \in Scrub /\ turn \in Nat
<1>1. \A s \in Scrub : Rank(s) \in Nat /\ s.turn \in Nat /\ s.n \in Nat /\ s.running \in BOOLEAN
  BY Parts, BoundsAssumption DEF Rank
<1>2. Rank(NoScrub) = 1
  BY Nothings DEF Rank
<1>3. ASSUME Types
      PROVE  /\ \A h \in Handlers : FrameScrub(h) \in Scrub /\ EventOf(h) \in 0 .. MaxNews
             /\ \A r \in Refreshers : Listed(r) \in Scrub
             /\ sample.scrub \in Scrub /\ pool \in Scrub /\ lastPool \in Scrub
             /\ scrubAnnounced \in Scrub /\ turn \in Nat
  <2>1. \A h \in Handlers : FrameScrub(h) \in Scrub /\ EventOf(h) \in 0 .. MaxNews
    BY <1>3, Parts DEF Types, FrameScrub, EventOf
  <2>2. \A r \in Refreshers : Listed(r) \in Scrub
    BY <1>3, Parts DEF Types, TypeOK, Listed, RefreshState
  <2>3. /\ sample.scrub \in Scrub /\ pool \in Scrub /\ lastPool \in Scrub
        /\ scrubAnnounced \in Scrub /\ turn \in Nat
    BY <1>3, Parts, BoundsAssumption DEF Types, TypeOK
  <2>4. QED
    BY <2>1, <2>2, <2>3
<1>4. QED
  BY <1>1, <1>2, <1>3

LEMMA StatTypes == ASSUME Types PROVE Stats \subseteq Stat
<1>1. NoIOStat \in Stat /\ sample.io \in Stat /\ cache.sample.io \in Stat
      /\ prevIOStat \in Stat /\ reader \in Stat
  BY Parts DEF Types, TypeOK, Stat
<1>2. \A h \in Handlers : IO(h) \in Stat
  BY Parts DEF Types, IO
<1>3. \A r \in Refreshers : ReadIO(r) \in Stat
  BY Parts DEF Types, TypeOK, ReadIO, RefreshState
<1>4. QED
  BY <1>1, <1>2, <1>3 DEF Stats

LEMMA RateSame ==
    ASSUME RateInv, Stats' \subseteq Stats, UNCHANGED <<samples, ops>>
    PROVE  RateInv'
BY DEF RateInv, Steady

\* No view at all is behind every other.
LEMMA BehindNothing == ASSUME Types, RankInv PROVE Behind(NoScrub)
<1>1. Rank(NoScrub) = 1 /\ NoScrub.turn = 0 /\ turn \in Nat
  BY Nothings, ViewTypes
<1>2. QED
  BY <1>1 DEF Behind, RankInv
\* The handler goes on to a label with the scrub s and the event of its frame.
LEMMA GotoStep ==
    ASSUME handler \in [Handlers -> HandlerState], NEW h \in Handlers,
           NEW label \in Label, NEW s \in Scrub, Goto(h, label, s)
    PROVE  /\ handler' \in [Handlers -> HandlerState]
           /\ handler'[h].pc = label /\ EventOf(h)' = EventOf(h)
           /\ IO(h)' = NoIOStat /\ FrameScrub(h)' = s
           /\ \A g \in Handlers \ {h} : handler'[g] = handler[g]
<1> DEFINE a == [NoSample EXCEPT !.scrub = s]
           x == [handler[h] EXCEPT !.pc = label, !.frame.sample = a]
<1>1. a \in Sample /\ a.io = NoIOStat /\ a.scrub = s
  BY Nothings DEF NoSample, Sample
<1>2. handler' = [handler EXCEPT ![h] = x]
  BY DEF Goto
<1> HIDE DEF a
<1>3. x \in HandlerState /\ x.pc = label /\ x.frame.event = handler[h].frame.event
      /\ x.frame.sample = a
  BY <1>1 DEF HandlerState, Frame
<1> HIDE DEF x
<1>4. handler'[h] = x /\ handler' \in [Handlers -> HandlerState]
      /\ \A g \in Handlers \ {h} : handler'[g] = handler[g]
  BY <1>2, <1>3
<1>5. QED
  BY <1>1, <1>3, <1>4 DEF EventOf, IO, FrameScrub

LEMMA AnswerStep ==
    ASSUME handler \in [Handlers -> HandlerState], NEW h \in Handlers, Answer(h)
    PROVE  /\ handler' \in [Handlers -> HandlerState]
           /\ handler'[h] = Idle /\ EventOf(h)' = 0
           /\ IO(h)' = NoIOStat /\ FrameScrub(h)' = NoScrub
           /\ \A g \in Handlers \ {h} : handler'[g] = handler[g]
           /\ waiting' \in {waiting, NoHandler}
<1>1. handler' \in [Handlers -> HandlerState] /\ handler'[h] = Idle
      /\ \A g \in Handlers \ {h} : handler'[g] = handler[g]
  BY Nothings DEF Answer
<1>2. QED
  BY <1>1, Nothings DEF Answer, EventOf, IO, FrameScrub

Rest == AloneInv /\ RateInv /\ RankInv /\ (overlapped \/ (EventInv /\ ScrubInv))

\* What the parts of the invariant but the types read, without the pool, the Collector
\* and the reader.
hubPart == <<handler, cache, prevIOStat, lastPool, lastEventID, history>>
views == <<pool, samples, ops, sample, refresh, turn>>

LEMMA RestStays ==
    ASSUME Rest, UNCHANGED <<hubPart, views, lastEvent, reader>>
    PROVE  Rest'
<1>1. AloneInv' <=> AloneInv
  BY DEF AloneInv, hubPart, history
<1>2. RateInv' <=> RateInv
  BY DEF RateInv, Stats, IO, ReadIO, hubPart, views
<1>3. RankInv' <=> RankInv
  BY DEF RankInv, FrameScrub, HasList, Listed, hubPart, views, history
<1>4. EventInv' <=> EventInv
  BY DEF EventInv, EventOf, hubPart, history
<1>5. ScrubInv' <=> ScrubInv
  BY DEF ScrubInv, Behind, FrameScrub, HasList, Listed, hubPart, views, history
<1>6. overlapped' = overlapped
  BY DEF hubPart, history
<1>7. QED
  BY <1>1, <1>2, <1>3, <1>4, <1>5, <1>6 DEF Rest

(* The steps that leave the handlers and the Aggregator alone.             *)

LEMMA QuietTypes ==
    ASSUME Types,
           \/ PostAbandoned \/ SetTelemetryClient \/ LinkFails \/ LinkReturns \/ HubStarts
    PROVE  Types' /\ UNCHANGED <<hubPart, views, lastEvent, reader>>
<1> USE BoundsAssumption DEF Types, TypeOK, EventOf, hubPart, views, history, poolVars, collector,
                             agentVars, upstream, aggregator, hubVars, vars
<1>1. CASE PostAbandoned
  BY <1>1 DEF PostAbandoned, Fault
<1>2. CASE SetTelemetryClient
  BY <1>2 DEF SetTelemetryClient
<1>3. CASE LinkFails
  <2>1. faults' \in 0 .. MaxFaults /\ turn' \in 0 .. faults'
    BY <1>3 DEF LinkFails, Fault
  <2>2. attached' = attached /\ overlapped' = overlapped /\ linkUp' = FALSE
    BY <1>3 DEF LinkFails
  <2>3. {attached', linkUp', overlapped'} \subseteq BOOLEAN
    BY <2>2
  <2>4. UNCHANGED <<agentVars, waiting, hub, handler, aggregator, reader, announced, scrubAnnounced>>
    BY <1>3 DEF LinkFails
  <2>5. QED
    BY <2>1, <2>2, <2>3, <2>4
<1>4. CASE LinkReturns
  BY <1>4 DEF LinkReturns
<1>5. CASE HubStarts
  BY <1>5 DEF HubStarts
<1>6. QED
  BY <1>1, <1>2, <1>3, <1>4, <1>5

\* A new event is later than all the others.
LEMMA EmitEventStep ==
    ASSUME Types, Rest, EmitEvent
    PROVE  Types' /\ Rest'
<1>1. /\ lastEvent' = events + 1 /\ events' = events + 1
      /\ samples + pool.n + events < MaxNews
      /\ UNCHANGED <<hubPart, views, reader, waiting, hub, upstream, faults>>
  BY DEF EmitEvent, MoreNews, poolVars, hubVars, aggregator, hubPart, views
<1>2. events' \in 0 .. MaxNews /\ events \in Nat /\ \A e \in 0 .. events : e \in 0 .. events'
  BY <1>1, ViewTypes, BoundsAssumption DEF Types, TypeOK
<1>3. Types'
  BY <1>1, <1>2 DEF Types, TypeOK, EventOf, hubPart, views, history, upstream
<1>4. AloneInv' /\ RateInv' /\ RankInv' /\ (ScrubInv' <=> ScrubInv) /\ overlapped' = overlapped
  <2>1. AloneInv' <=> AloneInv
    BY <1>1 DEF AloneInv, hubPart, history
  <2>2. RateInv' <=> RateInv
    BY <1>1 DEF RateInv, Stats, IO, ReadIO, hubPart, views
  <2>3. RankInv' <=> RankInv
    BY <1>1 DEF RankInv, FrameScrub, HasList, Listed, hubPart, views, history
  <2>4. ScrubInv' <=> ScrubInv
    BY <1>1 DEF ScrubInv, Behind, FrameScrub, HasList, Listed, hubPart, views, history
  <2>5. QED
    BY <1>1, <2>1, <2>2, <2>3, <2>4 DEF Rest, hubPart, history
<1>5. ASSUME EventInv PROVE EventInv'
  <2>1. /\ lastEventID \in 0 .. events /\ lastEvent \in 0 .. events
        /\ UNCHANGED <<announced, lastEventID, handler>>
    BY <1>1 DEF Types, TypeOK, hubPart, history
  <2>2. \A h \in Handlers : EventOf(h) \in 0 .. events /\ EventOf(h)' = EventOf(h)
    BY <2>1 DEF Types, EventOf
  <2>3. lastEventID' <= lastEvent' /\ \A h \in Handlers : EventOf(h)' <= lastEvent'
    BY <1>1, <1>2, <2>1, <2>2
  <2>4. QED
    BY <1>5, <2>1, <2>2, <2>3 DEF EventInv
<1>6. QED
  BY <1>3, <1>4, <1>5 DEF Rest

\* The pool goes ahead of every view.
LEMMA PoolStep ==
    ASSUME Types, Rest, ScrubStarts \/ ScrubEnds
    PROVE  Types' /\ Rest'
<1>1. /\ UNCHANGED <<samples, ops, sample, lastEvent, refresh, turn, events, waiting, faults>>
      /\ UNCHANGED <<hub, upstream, hubPart, reader>>
      /\ pool \in Scrub /\ pool.n \in Nat /\ pool.running \in BOOLEAN
  BY ViewTypes DEF ScrubStarts, ScrubEnds, hubPart, hubVars, aggregator, collector
<1>2. pool' \in Scrub /\ Rank(pool) <= Rank(pool')
  <2>1. CASE ScrubStarts
    <3>1. pool' = [pool EXCEPT !.n = pool.n + 1, !.running = TRUE] /\ ~ pool.running
          /\ samples + pool.n + events < MaxNews /\ samples \in Nat /\ events \in Nat
      BY <2>1 DEF ScrubStarts, MoreNews, Types, TypeOK
    <3>2. pool.n + 1 \in 0 .. MaxNews
      BY <1>1, <3>1, BoundsAssumption
    <3>3. pool' \in Scrub /\ pool'.n = pool.n + 1 /\ pool'.running = TRUE
      BY <1>1, <3>1, <3>2 DEF Scrub
    <3>4. QED
      BY <1>1, <3>1, <3>3 DEF Rank
  <2>2. CASE ScrubEnds
    <3>1. pool' = [pool EXCEPT !.running = FALSE] /\ pool.running
      BY <2>2 DEF ScrubEnds
    <3>2. pool' \in Scrub /\ pool'.n = pool.n /\ pool'.running = FALSE
      BY <1>1, <3>1 DEF Scrub
    <3>3. QED
      BY <1>1, <3>1, <3>2 DEF Rank
  <2>3. QED
    BY <2>1, <2>2
<1>3. Types'
  BY <1>1, <1>2, BoundsAssumption DEF Types, TypeOK, EventOf, hubPart, history, upstream
<1>4. AloneInv' /\ RateInv' /\ overlapped' = overlapped
      /\ (EventInv => EventInv') /\ (ScrubInv => ScrubInv')
  <2>1. AloneInv' <=> AloneInv
    BY <1>1 DEF AloneInv, hubPart, history
  <2>2. RateInv' <=> RateInv
    BY <1>1 DEF RateInv, Stats, IO, ReadIO, hubPart
  <2>3. EventInv' <=> EventInv
    BY <1>1 DEF EventInv, EventOf, hubPart, history
  <2>4. ScrubInv' <=> ScrubInv
    BY <1>1 DEF ScrubInv, Behind, FrameScrub, HasList, Listed, hubPart, history
  <2>5. QED
    BY <1>1, <2>1, <2>2, <2>3, <2>4 DEF Rest, hubPart, history
<1>5. RankInv'
  <2>1. /\ Rank(sample.scrub) \in Nat /\ Rank(lastPool) \in Nat /\ Rank(scrubAnnounced) \in Nat
        /\ \A h \in Handlers : Rank(FrameScrub(h)) \in Nat
        /\ \A r \in Refreshers : Rank(Listed(r)) \in Nat
        /\ Rank(pool) \in Nat /\ Rank(pool') \in Nat
    BY <1>2, ViewTypes
  <2>2. /\ \A h \in Handlers : FrameScrub(h)' = FrameScrub(h)
        /\ \A r \in Refreshers : Listed(r)' = Listed(r) /\ (HasList(r)' <=> HasList(r))
        /\ UNCHANGED <<lastPool, scrubAnnounced>>
    BY <1>1 DEF FrameScrub, HasList, Listed, hubPart, history
  <2>3. QED
    BY <1>1, <1>2, <2>1, <2>2 DEF Rest, RankInv
<1>6. QED
  BY <1>3, <1>4, <1>5 DEF Rest

\* A restart of the agent empties the Collector and ends its refreshes: the next view of the
\* pool is of the pool as it is then.
LEMMA AgentRestartStep ==
    ASSUME Types, Rest, AgentRestart
    PROVE  Types' /\ Rest'
<1>1. /\ sample' = NoSample /\ lastEvent' = 0 /\ waiting' = NoHandler
      /\ refresh' = [r \in Refreshers |-> Resting]
      /\ faults' \in 0 .. MaxFaults /\ turn' \in 0 .. faults'
      /\ UNCHANGED <<hubPart, pool, samples, ops, turn, events, reader, hub, upstream>>
  BY BoundsAssumption
     DEF AgentRestart, Fault, poolVars, hubVars, aggregator, hubPart, Types, TypeOK
<1>2. \A r \in Refreshers : ReadIO(r)' = NoIOStat /\ ~ HasList(r)'
  BY <1>1, Nothings DEF ReadIO, HasList
<1>3. Types'
  <2>1. refresh' \in [Refreshers -> RefreshState]
    BY <1>1, Nothings
  <2>2. QED
    BY <1>1, <2>1, Nothings DEF Types, TypeOK, RefreshState, EventOf, hubPart, history, upstream
<1>4. AloneInv' /\ overlapped' = overlapped
  BY <1>1 DEF Rest, AloneInv, hubPart, history
<1>5. RateInv'
  <2>1. Stats' \subseteq Stats
    BY <1>1, <1>2, Nothings DEF Stats, IO, hubPart
  <2>2. QED
    BY <1>1, <2>1, RateSame DEF Rest
<1>6. RankInv'
  <2>1. Rank(NoScrub) = 1 /\ 1 <= Rank(pool) /\ 1 <= 1
    BY ViewTypes DEF Rest, RankInv
  <2>2. QED
    BY <1>1, <1>2, <2>1, Nothings DEF Rest, RankInv, FrameScrub, hubPart, history
<1>7. EventInv => EventInv'
  BY <1>1 DEF EventInv, EventOf, hubPart, history
<1>8. ScrubInv => ScrubInv'
  BY <1>1, <1>2, Nothings DEF ScrubInv, Behind, Before, FrameScrub, hubPart, history
<1>9. QED
  BY <1>3, <1>4, <1>5, <1>6, <1>7, <1>8 DEF Rest

\* A request for the rates reads the cache.
LEMMA ReadStep ==
    ASSUME Types, Rest, ReadCurrent \/ ReadPrevious
    PROVE  Types' /\ Rest'
<1>1. /\ UNCHANGED <<hubPart, views, lastEvent, events>>
      /\ UNCHANGED <<waiting, hub, upstream, faults>>
      /\ reader' \in {cache.sample.io, NoIOStat}
  BY DEF ReadCurrent, ReadPrevious, agentVars, poolVars, collector, aggregator, hubPart, views
<1>2. Types'
  <2>1. cache.sample.io \in IOStat \cup {NoIOStat}
    BY Parts DEF Types, TypeOK, Stat
  <2>2. QED
    BY <1>1, <2>1 DEF Types, TypeOK, EventOf, hubPart, views, history, upstream
<1>3. AloneInv' /\ overlapped' = overlapped /\ RankInv'
  BY <1>1 DEF Rest, AloneInv, RankInv, FrameScrub, HasList, Listed, hubPart, views, history
<1>4. RateInv'
  <2>1. Stats' \subseteq Stats
    BY <1>1 DEF Stats, IO, ReadIO, hubPart, views
  <2>2. QED
    BY <1>1, <2>1, RateSame DEF Rest, views
<1>5. (EventInv => EventInv') /\ (ScrubInv => ScrubInv')
  BY <1>1 DEF EventInv, EventOf, ScrubInv, Behind, FrameScrub, HasList, Listed, hubPart, views, history
<1>6. QED
  BY <1>2, <1>3, <1>4, <1>5 DEF Rest

(* The refreshes.                                                          *)

\* What a refresh leaves alone.
OffRefresh == <<hubPart, pool, lastEvent, events, waiting, hub, upstream, reader>>

LEMMA OffRefreshTypes ==
    ASSUME Types, UNCHANGED OffRefresh,
           samples' \in 0 .. MaxNews, ops' \in 0 .. MaxNews, sample' \in Sample,
           refresh' \in [Refreshers -> RefreshState],
           turn' \in 0 .. faults', faults' \in 0 .. MaxFaults
    PROVE  Types'
BY DEF Types, TypeOK, RefreshState, EventOf, OffRefresh, hubPart, history, upstream

LEMMA OffRefreshRest ==
    ASSUME Rest, UNCHANGED OffRefresh
    PROVE  AloneInv' /\ overlapped' = overlapped /\ (EventInv => EventInv')
<1>1. AloneInv' <=> AloneInv
  BY DEF AloneInv, OffRefresh, hubPart, history
<1>2. EventInv' <=> EventInv
  BY DEF EventInv, EventOf, OffRefresh, hubPart, history
<1>3. QED
  BY <1>1, <1>2 DEF Rest, OffRefresh, hubPart, history

\* A view just taken is that of the pool itself.
LEMMA ListStep ==
    ASSUME Types, Rest, NEW r \in Refreshers, ListPools(r)
    PROVE  Types' /\ Rest'
<1>1. PICK scrub \in {pool, NoList} :
          /\ refresh' = [refresh EXCEPT ![r] =
                             [pc |-> "listed", read |-> [NoSample EXCEPT !.scrub = scrub]]]
          /\ IF scrub = NoList THEN Fault ELSE UNCHANGED faults
  BY DEF ListPools
<1>2. UNCHANGED OffRefresh /\ UNCHANGED <<samples, ops, sample, turn>>
  BY DEF ListPools, OffRefresh, hubPart, hubVars, aggregator, collector, poolVars
<1>3. /\ refresh' \in [Refreshers -> RefreshState]
      /\ Listed(r)' = scrub /\ ReadIO(r)' = NoIOStat
      /\ \A q \in Refreshers \ {r} : refresh'[q] = refresh[q]
  <2> DEFINE a == [NoSample EXCEPT !.scrub = scrub]
             x == [pc |-> "listed", read |-> a]
  <2>1. scrub \in Scrub
    BY <1>1, ViewTypes, Nothings
  <2>2. a \in Sample /\ a.io = NoIOStat /\ a.scrub = scrub
    BY <2>1, Nothings DEF NoSample, Sample
  <2>3. refresh' = [refresh EXCEPT ![r] = x]
    BY <1>1
  <2> HIDE DEF a
  <2>4. x \in RefreshState /\ x.read = a
    BY <2>2 DEF RefreshState
  <2> HIDE DEF x
  <2>5. refresh \in [Refreshers -> RefreshState]
    BY DEF Types, TypeOK, RefreshState
  <2>6. refresh' \in [Refreshers -> RefreshState] /\ refresh'[r] = x
        /\ \A q \in Refreshers \ {r} : refresh'[q] = refresh[q]
    BY <2>3, <2>4, <2>5
  <2>7. QED
    BY <2>2, <2>4, <2>6 DEF Listed, ReadIO
<1>4. Types'
  <2>1. faults' \in 0 .. MaxFaults /\ turn \in 0 .. faults'
    BY <1>1, BoundsAssumption DEF Fault, Types, TypeOK
  <2>2. QED
    BY <1>2, <1>3, <2>1, OffRefreshTypes DEF Types, TypeOK
<1>5. RateInv'
  <2>1. \A q \in Refreshers : ReadIO(q)' \in {ReadIO(q), NoIOStat}
    BY <1>3 DEF ReadIO
  <2>2. Stats' \subseteq Stats
    BY <1>2, <2>1 DEF Stats, IO, OffRefresh, hubPart
  <2>3. QED
    BY <1>2, <2>2, RateSame DEF Rest
<1>6. \A q \in Refreshers : HasList(q)' => Listed(q)' = pool \/ (HasList(q) /\ Listed(q)' = Listed(q))
  BY <1>1, <1>3 DEF HasList, Listed
<1>7. RankInv'
  <2>1. Rank(pool) \in Nat /\ 1 <= Rank(pool) /\ Rank(pool) <= Rank(pool)
    BY ViewTypes DEF Rest, RankInv
  <2>2. QED
    BY <1>2, <1>6, <2>1 DEF Rest, RankInv, FrameScrub, OffRefresh, hubPart, history
<1>8. ASSUME ScrubInv PROVE ScrubInv'
  <2>1. \A c \in Scrub : Rank(c) <= Rank(pool) /\ Behind(c) => Behind(c)'
    BY <1>2, <1>6 DEF Behind
  <2>2. /\ scrubAnnounced \in Scrub /\ lastPool \in Scrub /\ \A h \in Handlers : FrameScrub(h) \in Scrub
        /\ Rank(scrubAnnounced) <= Rank(pool) /\ Rank(lastPool) <= Rank(pool)
        /\ \A h \in Handlers : Rank(FrameScrub(h)) <= Rank(pool)
    BY ViewTypes DEF Rest, RankInv
  <2>3. /\ UNCHANGED <<scrubAnnounced, lastPool>> /\ \A h \in Handlers : FrameScrub(h)' = FrameScrub(h)
    BY <1>2 DEF OffRefresh, hubPart, history, FrameScrub
  <2>4. Behind(scrubAnnounced)' /\ Behind(lastPool)' /\ \A h \in Handlers : Behind(FrameScrub(h))'
    BY <1>8, <2>1, <2>2, <2>3 DEF ScrubInv, Behind
  <2>5. QED
    BY <1>8, <2>3, <2>4 DEF ScrubInv, Before
<1>9. QED
  BY <1>2, <1>4, <1>5, <1>7, <1>8, OffRefreshRest DEF Rest

\* A sample is read, whose counter is one above that of the last or starts again, or none.
LEMMA SampledStep ==
    ASSUME Types, NEW r \in Refreshers, NEW io, Sampled(r, io), io' = io, io \in Stat
    PROVE  /\ refresh' \in [Refreshers -> RefreshState]
           /\ ReadIO(r)' = io
           /\ \A q \in Refreshers \ {r} : refresh'[q] = refresh[q]
           /\ refresh[r].pc # "idle" =>
                \A q \in Refreshers : Listed(q)' = Listed(q) /\ (HasList(q)' <=> HasList(q))
<1> DEFINE a == [refresh[r].read EXCEPT !.io = io]
           x == [refresh[r] EXCEPT !.pc = "sampled", !.read.io = io]
<1>1. refresh \in [Refreshers -> RefreshState] /\ refresh[r].read \in Sample
  BY Parts DEF Types, TypeOK, RefreshState
<1>2. x \in RefreshState /\ x.pc = "sampled" /\ x.read = a
  BY <1>1 DEF RefreshState, Sample, Stat
<1>3. a.io = io /\ a.scrub = refresh[r].read.scrub
  BY <1>1 DEF Sample
<1>4. refresh' = [refresh EXCEPT ![r] = x]
  BY DEF Sampled
<1> HIDE DEF x, a
<1>5. refresh' \in [Refreshers -> RefreshState] /\ refresh'[r] = x
      /\ \A q \in Refreshers \ {r} : refresh'[q] = refresh[q]
  BY <1>1, <1>2, <1>4
<1>6. \A q \in Refreshers : Listed(q)' = Listed(q)
  BY <1>2, <1>3, <1>5 DEF Listed
<1>7. QED
  BY <1>2, <1>3, <1>5, <1>6 DEF ReadIO, HasList

\* A new sample grows no faster than time, against every one before it.
LEMMA NewRates ==
    ASSUME Types, RateInv, samples' = samples + 1, ops' \in {ops + 1, 0},
           NEW new, new.at = samples', new.ops = ops', Stats' \subseteq Stats \cup {new}
    PROVE  RateInv'
<1>1. samples \in Nat /\ ops \in Nat /\ ops' \in Nat
  BY BoundsAssumption DEF Types, TypeOK
<1>2. \A i \in Stats : /\ i.at \in Nat /\ i.ops \in Nat
                       /\ i.at <= samples /\ ops - i.ops <= samples - i.at
  BY StatTypes, Parts, BoundsAssumption DEF RateInv
<1>3. ASSUME NEW i \in Stats
      PROVE  i.at <= samples' /\ ops' - i.ops <= samples' - i.at
  <2> DEFINE at == i.at
             count == i.ops
  <2>1. at \in Nat /\ count \in Nat /\ at <= samples /\ ops - count <= samples - at
    BY <1>2
  <2> HIDE DEF at, count
  <2>2. at <= samples + 1 /\ (ops + 1) - count <= (samples + 1) - at
        /\ 0 - count <= (samples + 1) - at
    BY <1>1, <2>1
  <2>3. QED
    BY <1>1, <2>2 DEF at, count
<1>4. new.at <= samples' /\ ops' - new.ops <= samples' - new.at
  <2>1. samples' \in Nat
    BY <1>1
  <2>2. \A n \in Nat : n - n = 0 /\ n <= n
    OBVIOUS
  <2>3. QED
    BY <1>1, <2>1, <2>2
<1>5. \A i \in Stats : Steady(new, i) /\ Steady(i, new)
  <2>1. \A i \in Stats : Steady(new, i)
    BY <1>3 DEF Steady
  <2>2. \A i \in Stats : ~ new.at <= i.at
    BY <1>1, <1>2
  <2>3. QED
    BY <2>1, <2>2 DEF Steady
<1>6. Steady(new, new)
  <2>1. new.at \in Nat /\ new.ops \in Nat
    BY <1>1
  <2>2. QED
    BY <2>1 DEF Steady
<1>7. \A i, j \in Stats : Steady(i, j)'
  BY DEF RateInv, Steady
<1>8. QED
  BY <1>3, <1>4, <1>5, <1>6, <1>7 DEF RateInv, Steady

SameLists == \A q \in Refreshers : Listed(q)' = Listed(q) /\ (HasList(q)' <=> HasList(q))

LEMMA SampleStep ==
    ASSUME Types, Rest, NEW r \in Refreshers, SampleIOStat(r)
    PROVE  Types' /\ Rest'
<1> DEFINE new == [at |-> samples + 1, ops |-> ops']
<1>1. /\ UNCHANGED OffRefresh /\ UNCHANGED <<sample, turn>> /\ refresh[r].pc # "idle"
      /\ samples \in Nat /\ ops \in Nat /\ MaxNews \in Nat
  BY BoundsAssumption
     DEF SampleIOStat, OffRefresh, hubPart, hubVars, aggregator, collector, Types, TypeOK
<1>2. ops <= samples
  <2>1. ops - 0 <= samples - 0
    BY Nothings DEF Rest, RateInv, Stats
  <2>2. QED
    BY <1>1, <2>1
<1>3. ASSUME /\ MoreNews /\ samples' = samples + 1
             /\ \/ ops' = ops + 1 /\ UNCHANGED faults
                \/ ops' = 0 /\ Fault
             /\ Sampled(r, [at |-> samples', ops |-> ops'])
      PROVE  Types' /\ RateInv' /\ SameLists
  <2>1. samples + 1 \in 1 .. MaxNews /\ ops' \in {ops + 1, 0} /\ ops' \in 0 .. MaxNews
    <3>1. samples < MaxNews
      <4>1. pool.n \in Nat /\ events \in Nat
        BY ViewTypes, Parts, BoundsAssumption DEF Types, TypeOK
      <4>2. QED
        BY <1>1, <1>3, <4>1 DEF MoreNews
    <3>2. QED
      BY <1>1, <1>2, <1>3, <3>1
  <2>2. new \in Stat /\ new.at = samples' /\ new.ops = ops'
    BY <1>3, <2>1 DEF IOStat, Stat
  <2>3. Sampled(r, new)
    BY <1>3
  <2> HIDE DEF new
  <2>4. /\ refresh' \in [Refreshers -> RefreshState]
        /\ \A q \in Refreshers : ReadIO(q)' \in {ReadIO(q), new}
        /\ \A q \in Refreshers : Listed(q)' = Listed(q) /\ (HasList(q)' <=> HasList(q))
    BY <1>1, <2>2, <2>3, SampledStep DEF ReadIO
  <2>5. faults' \in 0 .. MaxFaults /\ turn' \in 0 .. faults'
    BY <1>1, <1>3, BoundsAssumption DEF Fault, Types, TypeOK
  <2>6. Stats' \subseteq Stats \cup {new}
    BY <1>1, <2>4 DEF Stats, IO, OffRefresh, hubPart
  <2>7. Types'
    BY <1>1, <1>3, <2>1, <2>4, <2>5, OffRefreshTypes DEF Types, TypeOK
  <2>8. RateInv'
    BY <1>3, <2>1, <2>2, <2>6, NewRates DEF Rest
  <2>9. QED
    BY <2>4, <2>7, <2>8 DEF SameLists
<1>4. ASSUME Sampled(r, NoIOStat), UNCHANGED <<samples, ops, faults>>
      PROVE  Types' /\ RateInv' /\ SameLists
  <2>1. /\ refresh' \in [Refreshers -> RefreshState]
        /\ \A q \in Refreshers : ReadIO(q)' \in {ReadIO(q), NoIOStat}
        /\ \A q \in Refreshers : Listed(q)' = Listed(q) /\ (HasList(q)' <=> HasList(q))
    BY <1>1, <1>4, SampledStep DEF ReadIO, Stat
  <2>2. Types'
    BY <1>1, <1>4, <2>1, OffRefreshTypes DEF Types, TypeOK
  <2>3. Stats' \subseteq Stats
    BY <1>1, <2>1 DEF Stats, IO, OffRefresh, hubPart
  <2>4. RateInv'
    BY <1>4, <2>3, RateSame DEF Rest
  <2>5. QED
    BY <2>1, <2>2, <2>4 DEF SameLists
<1>5. Types' /\ RateInv' /\ SameLists
  BY <1>3, <1>4 DEF SampleIOStat
<1>6. RankInv' <=> RankInv
  BY <1>1, <1>5 DEF RankInv, SameLists, FrameScrub, OffRefresh, hubPart, history
<1>7. ScrubInv' <=> ScrubInv
  BY <1>1, <1>5 DEF ScrubInv, Behind, SameLists, FrameScrub, OffRefresh, hubPart, history
<1>8. QED
  BY <1>1, <1>5, <1>6, <1>7, OffRefreshRest DEF Rest

(* What a refresh has read replaces what the Collector holds.              *)

\* The view of the pool that the Collector gets is its own, or the one listed with the
\* turn of the step.
LEMMA StoreRecords ==
    ASSUME Types, NEW r \in Refreshers, Store(r)
    PROVE  /\ Types' /\ UNCHANGED OffRefresh /\ UNCHANGED <<samples, ops>>
           /\ HasList(r) \/ Listed(r) = NoList
           /\ ReadIO(r)' = NoIOStat /\ ~ HasList(r)'
           /\ \A q \in Refreshers \ {r} : refresh'[q] = refresh[q]
           /\ sample'.io \in {ReadIO(r), sample.io}
           /\ sample'.scrub = IF Listed(r) = NoList THEN sample.scrub
                              ELSE [Listed(r) EXCEPT !.turn = turn']
           /\ IF Listed(r) # NoList /\ Rank(Listed(r)) < Rank(sample.scrub)
              THEN turn' = turn + 1 ELSE turn' = turn
<1>1. /\ UNCHANGED OffRefresh /\ UNCHANGED <<samples, ops>>
      /\ refresh' = [refresh EXCEPT ![r] = Resting]
      /\ refresh[r].pc = "sampled" /\ (HasList(r) \/ Listed(r) = NoList)
  BY DEF Store, OffRefresh, hubPart, hubVars, aggregator, poolVars, HasList
<1>2. /\ refresh' \in [Refreshers -> RefreshState]
      /\ refresh'[r] = Resting
      /\ \A q \in Refreshers \ {r} : refresh'[q] = refresh[q]
  BY <1>1, Nothings DEF Types, TypeOK, RefreshState
<1>3. /\ IF Listed(r) # NoList /\ Rank(Listed(r)) < Rank(sample.scrub)
         THEN turn' = turn + 1 ELSE turn' = turn
      /\ turn' \in 0 .. faults' /\ faults' \in 0 .. MaxFaults
  BY BoundsAssumption DEF Store, Listed, Fault, Types, TypeOK
<1> DEFINE io == IF ReadIO(r) = NoIOStat THEN sample.io ELSE ReadIO(r)
           scrub == IF Listed(r) = NoList THEN sample.scrub ELSE [Listed(r) EXCEPT !.turn = turn']
<1>4. io \in Stat /\ scrub \in Scrub /\ io \in {ReadIO(r), sample.io}
  <2>1. ReadIO(r) \in Stat /\ sample.io \in Stat
    BY StatTypes DEF Stats
  <2>2. Listed(r) \in Scrub /\ sample.scrub \in Scrub /\ turn' \in 0 .. MaxFaults
    BY <1>3, ViewTypes, BoundsAssumption
  <2>3. QED
    BY <2>1, <2>2 DEF Scrub
<1>5. sample' = [io |-> io, scrub |-> scrub]
  BY DEF Store, ReadIO, Listed
<1> HIDE DEF io
<1>6. sample' \in Sample /\ sample'.io = io /\ sample'.scrub = scrub
  BY <1>4, <1>5 DEF Sample, Stat
<1>7. Types'
  BY <1>1, <1>2, <1>3, <1>6, OffRefreshTypes DEF Types, TypeOK
<1>8. QED
  BY <1>1, <1>2, <1>3, <1>4, <1>6, <1>7, Nothings DEF ReadIO, HasList

\* The turn does not count in the rank.
LEMMA RankTurn ==
    ASSUME NEW s \in Scrub, NEW t
    PROVE  LET u == [s EXCEPT !.turn = t] IN Rank(u) = Rank(s) /\ u.turn = t
BY DEF Scrub, Rank

LEMMA StoreStep ==
    ASSUME Types, Rest, NEW r \in Refreshers, Store(r)
    PROVE  Types' /\ Rest'
<1>1. /\ Types' /\ UNCHANGED OffRefresh /\ UNCHANGED <<samples, ops>>
      /\ HasList(r) \/ Listed(r) = NoList
      /\ ReadIO(r)' = NoIOStat /\ ~ HasList(r)'
      /\ \A q \in Refreshers \ {r} : refresh'[q] = refresh[q]
      /\ sample'.io \in {ReadIO(r), sample.io}
      /\ sample'.scrub = IF Listed(r) = NoList THEN sample.scrub
                         ELSE [Listed(r) EXCEPT !.turn = turn']
      /\ IF Listed(r) # NoList /\ Rank(Listed(r)) < Rank(sample.scrub)
         THEN turn' = turn + 1 ELSE turn' = turn
  BY StoreRecords
<1>2. RateInv'
  <2>1. \A q \in Refreshers : ReadIO(q)' \in {ReadIO(q), NoIOStat}
    BY <1>1 DEF ReadIO
  <2>2. Stats' \subseteq Stats
    BY <1>1, <2>1 DEF Stats, IO, OffRefresh, hubPart
  <2>3. QED
    BY <1>1, <2>2, RateSame DEF Rest
<1>3. \A q \in Refreshers : HasList(q)' => HasList(q) /\ Listed(q)' = Listed(q)
  BY <1>1 DEF HasList, Listed
<1>4. /\ UNCHANGED <<scrubAnnounced, lastPool, pool>> /\ \A h \in Handlers : FrameScrub(h)' = FrameScrub(h)
  BY <1>1 DEF OffRefresh, hubPart, history, FrameScrub
<1>5. turn \in Nat /\ turn' \in Nat /\ sample.scrub \in Scrub /\ Listed(r) \in Scrub
  BY <1>1, ViewTypes
<1>6. CASE Listed(r) = NoList
  <2>1. sample'.scrub = sample.scrub /\ turn' = turn
    BY <1>1, <1>6
  <2>2. RankInv'
    BY <1>3, <1>4, <2>1 DEF Rest, RankInv
  <2>3. \A c \in Scrub : Behind(c) => Behind(c)'
    BY <1>3, <2>1 DEF Behind
  <2>4. ScrubInv => ScrubInv'
    BY <1>4, <2>3, ViewTypes DEF ScrubInv, Behind, Before
  <2>5. QED
    BY <1>1, <1>2, <2>2, <2>4, OffRefreshRest DEF Rest
<1>7. CASE Listed(r) # NoList
  <2>1. /\ Rank(sample'.scrub) = Rank(Listed(r)) /\ sample'.scrub.turn = turn'
        /\ HasList(r) /\ 1 <= Rank(Listed(r)) /\ Rank(Listed(r)) <= Rank(pool)
        /\ Rank(Listed(r)) \in Nat /\ Rank(sample.scrub) \in Nat
    BY <1>1, <1>5, <1>7, RankTurn, ViewTypes DEF Rest, RankInv
  <2>2. RankInv'
    BY <1>3, <1>4, <2>1 DEF Rest, RankInv
  <2>3. ASSUME NEW c \in Scrub, Behind(c) PROVE Behind(c)'
    <3>1. Rank(c) \in Nat /\ c.turn \in Nat /\ c.turn <= turn
      BY <2>3, ViewTypes DEF Behind
    <3>2. CASE Rank(Listed(r)) < Rank(sample.scrub)
      <4>1. turn' = turn + 1
        BY <1>1, <1>7, <3>2
      <4>2. c.turn <= turn' /\ c.turn # turn'
        BY <1>5, <3>1, <4>1
      <4>3. QED
        BY <4>2 DEF Behind
    <3>3. CASE ~ Rank(Listed(r)) < Rank(sample.scrub)
      <4>1. turn' = turn
        BY <1>1, <3>3
      <4>2. c.turn = turn => Rank(c) <= Rank(Listed(r))
        BY <2>1, <2>3, <3>1, <3>3 DEF Behind
      <4>3. (sample'.scrub = NoScrub /\ c.turn = turn) =>
                \A q \in Refreshers : HasList(q)' => Rank(c) <= Rank(Listed(q)')
        <5>1. ASSUME sample'.scrub = NoScrub, NEW q \in Refreshers, HasList(q)', c.turn = turn
              PROVE  Rank(c) <= Rank(Listed(q)')
          <6>1. Rank(c) <= 1
            BY <2>1, <4>2, <5>1, ViewTypes
          <6>2. 1 <= Rank(Listed(q)) /\ Rank(Listed(q)) \in Nat /\ Listed(q)' = Listed(q)
            BY <1>3, <5>1, ViewTypes DEF Rest, RankInv
          <6>3. QED
            BY <3>1, <6>1, <6>2
        <5>2. QED
          BY <5>1
      <4>4. QED
        BY <2>1, <3>1, <4>1, <4>2, <4>3 DEF Behind
    <3>4. QED
      BY <3>2, <3>3
  <2>4. ScrubInv => ScrubInv'
    BY <1>4, <2>3, ViewTypes DEF ScrubInv, Behind, Before
  <2>5. QED
    BY <1>1, <1>2, <2>2, <2>4, OffRefreshRest DEF Rest
<1>8. QED
  BY <1>6, <1>7

(* The steps of the handlers.                                              *)

LEMMA ForwardStep ==
    ASSUME Types, Rest, Forward
    PROVE  Types' /\ Rest'
<1>1. PICK h \in Handlers : /\ handler[h] = Idle /\ waiting' = h
                            /\ handler' = [handler EXCEPT ![h] = [pc |-> "ingest", frame |-> Build]]
  BY DEF Forward
<1>2. /\ UNCHANGED <<views, lastEvent, events, hub, upstream>>
      /\ UNCHANGED <<aggregator, reader, announced, scrubAnnounced, faults>>
      /\ overlapped' = (overlapped \/ \E g \in Handlers : handler[g] # Idle)
  BY DEF Forward, agentVars, poolVars, collector, views
<1>3. Build \in Frame /\ Build.sample = sample /\ Build.event = lastEvent
  <2>1. lastEvent \in 0 .. MaxNews
    BY BoundsAssumption DEF Types, TypeOK
  <2>2. QED
    BY <2>1 DEF Build, Frame, Types, TypeOK
<1>4. /\ handler' \in [Handlers -> HandlerState]
      /\ handler'[h].pc = "ingest" /\ IO(h)' = sample.io
      /\ FrameScrub(h)' = sample.scrub /\ EventOf(h)' = lastEvent
      /\ \A g \in Handlers \ {h} : handler'[g] = handler[g]
  <2> DEFINE x == [pc |-> "ingest", frame |-> Build]
  <2>1. x \in HandlerState /\ x.pc = "ingest" /\ x.frame = Build
    BY <1>3 DEF HandlerState, Label
  <2> HIDE DEF x
  <2>2. handler'[h] = x /\ handler' \in [Handlers -> HandlerState]
        /\ \A g \in Handlers \ {h} : handler'[g] = handler[g]
    BY <1>1, <2>1 DEF Types, x
  <2>3. QED
    BY <1>3, <2>1, <2>2 DEF IO, FrameScrub, EventOf
<1>5. Types'
  <2>1. \A g \in Handlers : EventOf(g)' \in 0 .. events /\ handler'[g].frame \in Frame
    BY <1>1, <1>4, Parts DEF EventOf, Types, TypeOK
  <2>2. overlapped' \in BOOLEAN
    BY <1>2
  <2>3. QED
    BY <1>1, <1>2, <1>4, <2>1, <2>2 DEF Types, TypeOK, aggregator, upstream, views
<1>6. AloneInv'
  BY <1>1, <1>2, <1>4 DEF AloneInv
<1>7. RateInv'
  <2>1. \A g \in Handlers : IO(g)' \in {IO(g), sample.io}
    BY <1>4 DEF IO
  <2>2. Stats' \subseteq Stats
    BY <1>2, <2>1 DEF Stats, ReadIO, aggregator, views
  <2>3. QED
    BY <1>2, <2>2, RateSame DEF Rest, views
<1>8. \A g \in Handlers : FrameScrub(g)' \in {FrameScrub(g), sample.scrub}
  BY <1>4 DEF FrameScrub
<1>9. RankInv'
  BY <1>2, <1>8 DEF Rest, RankInv, HasList, Listed, aggregator, views
<1>10. ASSUME ~ overlapped' PROVE EventInv' /\ ScrubInv'
  <2>1. EventInv /\ ScrubInv /\ \A g \in Handlers : handler[g] = Idle
    BY <1>2, <1>10 DEF Rest
  <2>2. lastEvent <= lastEvent
    BY BoundsAssumption DEF Types, TypeOK
  <2>3. EventInv'
    BY <1>2, <1>4, <2>1, <2>2 DEF EventInv, EventOf, aggregator
  <2>4. \A c \in Scrub : Behind(c) => Before(c, sample.scrub)
    <3>1. sample.scrub # NoScrub => sample.scrub.turn = turn
      BY DEF Rest, RankInv
    <3>2. \A c \in Scrub : c.turn \in Nat /\ turn \in Nat
      BY ViewTypes
    <3>3. QED
      BY <3>1, <3>2 DEF Behind, Before
  <2>5. Behind(sample.scrub)
    <3>1. CASE sample.scrub = NoScrub
      BY <3>1, BehindNothing DEF Rest
    <3>2. CASE sample.scrub # NoScrub
      <4>1. sample.scrub.turn = turn /\ turn \in Nat /\ Rank(sample.scrub) \in Nat
        BY <3>2, ViewTypes DEF Rest, RankInv
      <4>2. sample.scrub.turn <= turn /\ Rank(sample.scrub) <= Rank(sample.scrub)
        BY <4>1
      <4>3. QED
        BY <3>2, <4>2 DEF Behind
    <3>3. QED
      BY <3>1, <3>2
  <2>6. /\ Behind(scrubAnnounced) /\ Behind(lastPool) /\ Before(scrubAnnounced, lastPool)
        /\ scrubAnnounced \in Scrub /\ lastPool \in Scrub
        /\ \A g \in Handlers : FrameScrub(g) \in Scrub
        /\ \A g \in Handlers : Behind(FrameScrub(g)) /\ Before(scrubAnnounced, FrameScrub(g))
                               /\ Before(lastPool, FrameScrub(g))
    BY <2>1, ViewTypes DEF ScrubInv
  <2>7. \A g \in Handlers : LET s == FrameScrub(g)' IN
            Behind(s) /\ Before(scrubAnnounced, s) /\ Before(lastPool, s)
    BY <1>8, <2>4, <2>5, <2>6
  <2>8. UNCHANGED <<scrubAnnounced, lastPool>>
    BY <1>2 DEF aggregator
  <2>9. \A c \in Scrub : Behind(c)' <=> Behind(c)
    BY <1>2 DEF Behind, HasList, Listed, views
  <2>10. \A g \in Handlers : FrameScrub(g)' \in Scrub
    BY <1>8, <2>6, ViewTypes
  <2>11. ScrubInv'
    BY <2>6, <2>7, <2>8, <2>9, <2>10 DEF ScrubInv, Behind, Before, HasList, Listed, views
  <2>12. QED
    BY <2>3, <2>11
<1>11. QED
  BY <1>5, <1>6, <1>7, <1>9, <1>10 DEF Rest

\* A step of handler h that leaves nothing of its frame but the event and perhaps the
\* scrub, and that goes on to the label or ends.
Advance(h, label) ==
    /\ handler' \in [Handlers -> HandlerState]
    /\ handler[h] # Idle
    /\ \A g \in Handlers \ {h} : handler'[g] = handler[g]
    /\ IO(h)' = NoIOStat /\ FrameScrub(h)' \in {FrameScrub(h), NoScrub}
    /\ EventOf(h)' \in {EventOf(h), 0}
    /\ handler'[h] # Idle => handler'[h].pc = label /\ EventOf(h)' = EventOf(h)
    /\ waiting' \in {waiting, NoHandler}
    /\ UNCHANGED <<views, lastEvent, events, hub, upstream>>
    /\ UNCHANGED <<reader, overlapped, faults>>

LEMMA AdvanceStep ==
    ASSUME Types, Rest, NEW h \in Handlers, NEW label, Advance(h, label)
    PROVE  /\ AloneInv'
           /\ handler' \in [Handlers -> HandlerState]
           /\ \A g \in Handlers : EventOf(g)' \in 0 .. events /\ handler'[g].frame \in Frame
           /\ \A g \in Handlers : IO(g)' \in {IO(g), NoIOStat}
           /\ \A g \in Handlers : FrameScrub(g)' \in {FrameScrub(g), NoScrub}
<1>1. AloneInv'
  BY DEF Rest, AloneInv, Advance
<1>2. \A g \in Handlers : EventOf(g)' \in {EventOf(g), 0}
  BY DEF Advance, EventOf
<1>3. \A g \in Handlers : EventOf(g) \in 0 .. events /\ 0 \in 0 .. events
  BY DEF Types, TypeOK
<1>4. handler' \in [Handlers -> HandlerState]
  BY DEF Advance
<1>5. \A g \in Handlers : IO(g)' \in {IO(g), NoIOStat}
  BY DEF Advance, IO
<1>6. \A g \in Handlers : FrameScrub(g)' \in {FrameScrub(g), NoScrub}
  BY DEF Advance, FrameScrub
<1>7. QED
  BY <1>1, <1>2, <1>3, <1>4, <1>5, <1>6, Parts

\* What is left to show when the step leaves what the hub has sent and seen alone.
AggregatorKept == UNCHANGED <<lastPool, lastEventID, announced, scrubAnnounced>>

LEMMA AdvanceRank ==
    ASSUME Types, Rest, NEW h \in Handlers, NEW label, Advance(h, label),
           UNCHANGED <<lastPool, scrubAnnounced>>
    PROVE  RankInv'
<1>1. \A g \in Handlers : FrameScrub(g)' \in {FrameScrub(g), NoScrub}
  BY AdvanceStep
<1>2. Rank(NoScrub) = 1
  BY ViewTypes
<1>3. QED
  BY <1>1, <1>2 DEF Rest, RankInv, Advance, HasList, Listed, views

LEMMA AdvanceScrub ==
    ASSUME Types, Rest, NEW h \in Handlers, NEW label, Advance(h, label),
           UNCHANGED <<lastPool, scrubAnnounced>>, ScrubInv
    PROVE  ScrubInv'
<1>1. \A g \in Handlers : FrameScrub(g)' \in {FrameScrub(g), NoScrub}
  BY AdvanceStep
<1>2. Behind(NoScrub)
  BY BehindNothing DEF Rest
<1>3. \A g \in Handlers : LET s == FrameScrub(g)' IN
          Behind(s) /\ Before(scrubAnnounced, s) /\ Before(lastPool, s)
  BY <1>1, <1>2 DEF ScrubInv, Before
<1>4. QED
  BY <1>3 DEF ScrubInv, Behind, Before, Advance, HasList, Listed, views

LEMMA AdvanceEvent ==
    ASSUME Types, Rest, NEW h \in Handlers, NEW label, Advance(h, label), label # "send",
           handler[h].pc # "send", UNCHANGED <<announced, lastEventID>>, EventInv
    PROVE  EventInv'
BY DEF EventInv, EventOf, Advance

LEMMA IngestStep ==
    ASSUME Types, Rest, NEW h \in Handlers, Ingest(h)
    PROVE  Types' /\ Rest'
<1>1. /\ UNCHANGED <<views, lastEvent, events, hub, upstream>>
      /\ UNCHANGED <<lastPool, lastEventID, reader, overlapped, faults, announced, scrubAnnounced>>
      /\ prevIOStat' \in {prevIOStat, cache.sample.io} /\ cache' = handler[h].frame
      /\ handler[h].pc = "ingest" /\ handler[h] # Idle
  BY Nothings DEF Ingest, At, Previous, agentVars, poolVars, collector, history, views
<1>2. Advance(h, "pools")
  <2>1. CASE Answer(h)
    BY <1>1, <2>1, AnswerStep, Nothings DEF Advance, Types
  <2>2. CASE Goto(h, "pools", handler[h].frame.sample.scrub) /\ UNCHANGED waiting
    <3>1. FrameScrub(h) \in Scrub /\ "pools" \in Label
      BY ViewTypes DEF Label
    <3>2. /\ handler' \in [Handlers -> HandlerState]
          /\ handler'[h].pc = "pools" /\ EventOf(h)' = EventOf(h)
          /\ IO(h)' = NoIOStat /\ FrameScrub(h)' = FrameScrub(h)
          /\ \A g \in Handlers \ {h} : handler'[g] = handler[g]
      BY <2>2, <3>1, GotoStep DEF Types, FrameScrub
    <3>3. QED
      BY <1>1, <2>2, <3>2 DEF Advance
  <2>3. QED
    BY <2>1, <2>2 DEF Ingest
<1>3. Types'
  <2>1. cache' \in Frame /\ prevIOStat' \in IOStat \cup {NoIOStat}
    BY <1>1, Parts DEF Types, TypeOK, Stat
  <2>2. waiting' \in Handlers \cup {NoHandler}
    BY <1>2 DEF Advance, Types, TypeOK
  <2>3. QED
    BY <1>1, <1>2, <2>1, <2>2, AdvanceStep DEF Types, TypeOK, upstream, views
<1>4. RateInv'
  <2>1. Stats' \subseteq Stats
    <3>1. \A g \in Handlers : IO(g)' \in {IO(g), NoIOStat}
      BY <1>2, AdvanceStep
    <3>2. cache'.sample.io = IO(h)
      BY <1>1 DEF IO
    <3>3. QED
      BY <1>1, <3>1, <3>2 DEF Stats, ReadIO, views
  <2>2. QED
    BY <1>1, <2>1, RateSame DEF Rest, views
<1>5. (EventInv => EventInv') /\ (ScrubInv => ScrubInv')
  BY <1>1, <1>2, AdvanceEvent, AdvanceScrub
<1>6. QED
  BY <1>1, <1>2, <1>3, <1>4, <1>5, AdvanceStep, AdvanceRank DEF Rest

\* The steps after the first leave the samples alone.
LEMMA LaterRates ==
    ASSUME Types, Rest, NEW h \in Handlers, NEW label, Advance(h, label),
           UNCHANGED <<cache, prevIOStat>>
    PROVE  RateInv'
<1>1. \A g \in Handlers : IO(g)' \in {IO(g), NoIOStat}
  BY AdvanceStep
<1>2. Stats' \subseteq Stats
  BY <1>1 DEF Stats, Advance, ReadIO, views
<1>3. QED
  BY <1>2, RateSame DEF Advance, Rest, views

\* A scrub that is announced is over, and announced again only in a later turn.
LEMMA DetectStep ==
    ASSUME Types, Rest, NEW h \in Handlers, DetectPoolTransitions(h)
    PROVE  LET s == FrameScrub(h) IN
           /\ Types' /\ Rest'
           /\ ScrubCompleted(lastPool, s) =>
                  /\ Rank(s) <= Rank(pool)
                  /\ scrubAnnounced.n < s.n \/ scrubAnnounced.turn < s.turn \/ overlapped
<1> DEFINE s == FrameScrub(h)
<1>1. /\ UNCHANGED <<views, lastEvent, events, waiting, hub, upstream>>
      /\ UNCHANGED <<cache, prevIOStat, lastEventID, reader, overlapped, faults, announced>>
      /\ lastPool' = s /\ Goto(h, "event", NoScrub)
      /\ handler[h].pc = "pools" /\ handler[h] # Idle
      /\ \/ scrubAnnounced' = scrubAnnounced
         \/ ScrubCompleted(lastPool, s) /\ scrubAnnounced' = s
  BY Nothings
     DEF DetectPoolTransitions, At, FrameScrub, agentVars, poolVars, collector, views
<1>2. Advance(h, "event")
  <2>1. "event" \in Label
    BY DEF Label
  <2>2. /\ handler' \in [Handlers -> HandlerState]
        /\ handler'[h].pc = "event" /\ EventOf(h)' = EventOf(h)
        /\ IO(h)' = NoIOStat /\ FrameScrub(h)' = NoScrub
        /\ \A g \in Handlers \ {h} : handler'[g] = handler[g]
    BY <1>1, <2>1, GotoStep, Nothings DEF Types
  <2>3. QED
    BY <1>1, <2>2 DEF Advance
<1>3. /\ s \in Scrub /\ s.n \in Nat /\ s.running \in BOOLEAN /\ s.turn \in Nat
      /\ Rank(s) \in Nat /\ Rank(s) <= Rank(pool)
      /\ lastPool.n \in Nat /\ lastPool.running \in BOOLEAN /\ lastPool.turn \in Nat
      /\ scrubAnnounced.n \in Nat /\ scrubAnnounced.turn \in Nat /\ ~ scrubAnnounced.running
  BY ViewTypes DEF Rest, RankInv
<1> HIDE DEF s
<1>4. Types'
  <2>1. scrubAnnounced' \in Scrub
    BY <1>1, <1>3, ViewTypes
  <2>2. {lastPool', scrubAnnounced'} \subseteq Scrub
    BY <1>1, <1>3, <2>1
  <2>3. QED
    BY <1>1, <1>2, <2>2, AdvanceStep DEF Types, TypeOK, upstream, views
<1>5. RankInv'
  <2>1. \A g \in Handlers : FrameScrub(g)' \in {FrameScrub(g), NoScrub}
    BY <1>2, AdvanceStep
  <2>2. Rank(NoScrub) = 1
    BY ViewTypes
  <2>3. Rank(scrubAnnounced') <= Rank(pool) /\ ~ scrubAnnounced'.running
    BY <1>1, <1>3 DEF Rest, RankInv, ScrubCompleted
  <2>4. QED
    BY <1>1, <1>3, <2>1, <2>2, <2>3 DEF Rest, RankInv, HasList, Listed, views
<1>6. EventInv => EventInv'
  BY <1>1, <1>2, AdvanceEvent
<1>7. ASSUME ~ overlapped
      PROVE  /\ ScrubInv'
             /\ ScrubCompleted(lastPool, s) =>
                    scrubAnnounced.n < s.n \/ scrubAnnounced.turn < s.turn
  <2>1. /\ Behind(scrubAnnounced) /\ Behind(s)
        /\ Before(scrubAnnounced, lastPool) /\ Before(lastPool, s) /\ Before(scrubAnnounced, s)
    BY <1>7 DEF Rest, ScrubInv, s
  <2>2. \A g \in Handlers : FrameScrub(g)' = NoScrub
    <3>1. \A g \in Handlers \ {h} : handler'[g] = Idle
      BY <1>1, <1>2, <1>7 DEF Rest, AloneInv, Advance
    <3>2. FrameScrub(h)' = NoScrub
      BY <1>1, GotoStep, Nothings DEF Types, Label
    <3>3. QED
      BY <3>1, <3>2, Nothings DEF FrameScrub
  <2>3. Before(s, s)
    BY <1>3 DEF Before
  <2>4. Behind(scrubAnnounced') /\ Behind(s) /\ Before(scrubAnnounced', s)
    BY <1>1, <2>1, <2>3
  <2>5. Behind(NoScrub)
    BY BehindNothing DEF Rest
  <2>6. ScrubInv'
    BY <1>1, <2>2, <2>4, <2>5 DEF ScrubInv, Behind, Before, HasList, Listed, views
  <2>7. ASSUME ScrubCompleted(lastPool, s)
        PROVE  scrubAnnounced.n < s.n \/ scrubAnnounced.turn < s.turn
    <3>1. lastPool.running /\ ~ s.running /\ lastPool # NoScrub /\ s # NoScrub
      BY <2>7, Nothings DEF ScrubCompleted
    <3>2. /\ \/ scrubAnnounced.turn < lastPool.turn
             \/ scrubAnnounced.turn = lastPool.turn /\ Rank(scrubAnnounced) <= Rank(lastPool)
          /\ \/ lastPool.turn < s.turn
             \/ lastPool.turn = s.turn /\ Rank(lastPool) <= Rank(s)
      <4>1. Before(scrubAnnounced, lastPool) /\ lastPool # NoScrub
        BY <2>1, <3>1
      <4>2. Before(lastPool, s) /\ s # NoScrub
        BY <2>1, <3>1
      <4>3. QED
        BY <4>1, <4>2 DEF Before
    <3>3. /\ Rank(scrubAnnounced) = 2 * scrubAnnounced.n + 1
          /\ Rank(lastPool) = 2 * lastPool.n /\ Rank(s) = 2 * s.n + 1
      BY <1>3, <3>1 DEF Rank
    <3>4. CASE scrubAnnounced.turn < lastPool.turn \/ lastPool.turn < s.turn
      BY <1>3, <3>2, <3>4
    <3>5. CASE Rank(scrubAnnounced) <= Rank(lastPool) /\ Rank(lastPool) <= Rank(s)
      <4> DEFINE a == scrubAnnounced.n
                 b == lastPool.n
                 c == s.n
      <4>1. a \in Nat /\ b \in Nat /\ c \in Nat /\ 2 * a + 1 <= 2 * b /\ 2 * b <= 2 * c + 1
        BY <1>3, <3>3, <3>5
      <4> HIDE DEF a, b, c
      <4>2. a < c
        BY <4>1
      <4>3. QED
        BY <4>2 DEF a, c
    <3>6. QED
      BY <3>2, <3>4, <3>5
  <2>8. QED
    BY <2>6, <2>7
<1>8. QED
  BY <1>1, <1>2, <1>3, <1>4, <1>5, <1>6, <1>7, AdvanceStep, LaterRates DEF Rest, s

LEMMA EvaluateStep ==
    ASSUME Types, Rest, NEW h \in Handlers, EvaluateAgentEvent(h)
    PROVE  Types' /\ Rest'
<1> DEFINE e == EventOf(h)
<1>1. /\ UNCHANGED <<views, lastEvent, events, hub, upstream>>
      /\ UNCHANGED <<cache, prevIOStat, lastPool, reader, overlapped, faults, announced>>
      /\ UNCHANGED scrubAnnounced
      /\ handler[h].pc = "event" /\ handler[h] # Idle
      /\ \/ Answer(h) /\ lastEventID' = lastEventID
         \/ /\ e # 0 /\ e # lastEventID /\ lastEventID' = e
            /\ Goto(h, "send", NoScrub) /\ UNCHANGED waiting
  BY Nothings
     DEF EvaluateAgentEvent, Known, At, EventOf, agentVars, poolVars, collector, history, views
<1>2. e \in 0 .. events /\ events \in 0 .. MaxNews /\ announced \in Nat /\ lastEventID \in Nat
  BY BoundsAssumption DEF Types, TypeOK
<1> HIDE DEF e
<1>3. CASE Answer(h) /\ lastEventID' = lastEventID
  <2>1. Advance(h, "event")
    BY <1>1, <1>3, AnswerStep, Nothings DEF Advance, Types
  <2>2. Types'
    <3>1. waiting' \in Handlers \cup {NoHandler}
      BY <2>1 DEF Advance, Types, TypeOK
    <3>2. QED
      BY <1>1, <1>3, <2>1, <3>1, AdvanceStep DEF Types, TypeOK, upstream, views
  <2>3. (EventInv => EventInv') /\ (ScrubInv => ScrubInv')
    BY <1>1, <1>3, <2>1, AdvanceEvent, AdvanceScrub
  <2>4. QED
    BY <1>1, <2>1, <2>2, <2>3, AdvanceStep, AdvanceRank, LaterRates DEF Rest
<1>4. CASE /\ e # 0 /\ e # lastEventID /\ lastEventID' = e
           /\ Goto(h, "send", NoScrub) /\ UNCHANGED waiting
  <2>1. /\ handler' \in [Handlers -> HandlerState]
        /\ handler'[h].pc = "send" /\ EventOf(h)' = e
        /\ IO(h)' = NoIOStat /\ FrameScrub(h)' = NoScrub
        /\ \A g \in Handlers \ {h} : handler'[g] = handler[g]
    BY <1>4, GotoStep, Nothings DEF Types, Label, e
  <2>2. Advance(h, "send")
    BY <1>1, <1>4, <2>1 DEF Advance, e
  <2>3. Types'
    BY <1>1, <1>2, <1>4, <2>2, AdvanceStep DEF Types, TypeOK, upstream, views
  <2>4. ScrubInv => ScrubInv'
    BY <1>1, <2>2, AdvanceScrub
  <2>5. ASSUME ~ overlapped PROVE EventInv'
    <3>1. EventInv /\ \A g \in Handlers \ {h} : handler'[g] = Idle
      BY <1>1, <2>1, <2>5 DEF Rest, AloneInv
    <3>2. lastEventID <= e /\ announced <= lastEventID /\ (lastEvent = 0 \/ e <= lastEvent)
      BY <1>1, <1>4, <3>1 DEF EventInv, e
    <3>3. announced < e /\ announced <= e
      BY <1>2, <1>4, <3>2
    <3>4. QED
      BY <1>1, <1>4, <2>1, <3>1, <3>2, <3>3 DEF EventInv
  <2>6. QED
    BY <1>1, <2>2, <2>3, <2>4, <2>5, AdvanceStep, AdvanceRank, LaterRates DEF Rest
<1>5. QED
  BY <1>1, <1>3, <1>4

LEMMA EmitStep ==
    ASSUME Types, Rest, NEW h \in Handlers, EmitNotification(h)
    PROVE  /\ Types' /\ Rest'
           /\ announced < EventOf(h) \/ overlapped
<1>1. /\ UNCHANGED <<views, lastEvent, events, hub, upstream>>
      /\ UNCHANGED <<cache, prevIOStat, lastPool, lastEventID, reader, overlapped, faults>>
      /\ UNCHANGED scrubAnnounced
      /\ handler[h].pc = "send" /\ handler[h] # Idle /\ Answer(h)
      /\ announced' \in {announced, EventOf(h)}
  BY Nothings
     DEF EmitNotification, At, EventOf, agentVars, poolVars, collector, aggregator, views
<1>2. Advance(h, "idle")
  BY <1>1, AnswerStep, Nothings DEF Advance, Types
<1>3. Types'
  <2>1. waiting' \in Handlers \cup {NoHandler}
    BY <1>2 DEF Advance, Types, TypeOK
  <2>2. announced' \in 0 .. events
    BY <1>1 DEF Types, TypeOK
  <2>3. QED
    BY <1>1, <1>2, <2>1, <2>2, AdvanceStep DEF Types, TypeOK, upstream, views
<1>4. ASSUME ~ overlapped PROVE EventInv' /\ announced < EventOf(h)
  <2>1. EventInv /\ \A g \in Handlers : handler'[g] = Idle
    BY <1>1, <1>2, <1>4, AnswerStep DEF Rest, AloneInv, Advance, Types
  <2>2. EventOf(h) = lastEventID /\ announced < lastEventID /\ announced <= lastEventID
    BY <1>1, <2>1 DEF EventInv
  <2>3. lastEventID \in Nat
    BY BoundsAssumption DEF Types, TypeOK
  <2>4. QED
    BY <1>1, <2>1, <2>2, <2>3 DEF EventInv
<1>5. ScrubInv => ScrubInv'
  BY <1>1, <1>2, AdvanceScrub
<1>6. QED
  BY <1>1, <1>2, <1>3, <1>4, <1>5, AdvanceStep, AdvanceRank, LaterRates DEF Rest

\* A hub that stops forgets everything but what it has sent.
LEMMA HubStopsStep ==
    ASSUME Types, Rest, HubStops
    PROVE  Types' /\ Rest'
<1>1. /\ UNCHANGED <<views, lastEvent, events, scrubAnnounced, overlapped>>
      /\ handler' = [h \in Handlers |-> Idle] /\ hub' = "down" /\ waiting' = NoHandler
      /\ cache' = NoFrame /\ prevIOStat' = NoIOStat /\ lastPool' = NoScrub /\ lastEventID' = 0
      /\ reader' = NoIOStat /\ announced' = 0
      /\ attached' = FALSE /\ linkUp' = TRUE
      /\ faults' \in 0 .. MaxFaults /\ turn' \in 0 .. faults'
  BY BoundsAssumption DEF HubStops, Fault, agentVars, poolVars, collector, views, Types, TypeOK
<1>2. \A h \in Handlers : /\ handler'[h] = Idle /\ EventOf(h)' = 0
                          /\ IO(h)' = NoIOStat /\ FrameScrub(h)' = NoScrub
  BY <1>1, Nothings DEF EventOf, IO, FrameScrub
<1>3. Types'
  <2>1. handler' \in [Handlers -> HandlerState] /\ \A h \in Handlers : handler'[h].frame \in Frame
    BY <1>1, Nothings
  <2>2. {attached', linkUp', overlapped'} \subseteq BOOLEAN
    BY <1>1 DEF Types, TypeOK
  <2>3. 0 \in 0 .. events
    BY BoundsAssumption DEF Types, TypeOK
  <2>4. QED
    BY <1>1, <1>2, <2>1, <2>2, <2>3, Nothings DEF Types, TypeOK, views
<1>4. AloneInv'
  BY <1>1, <1>2 DEF Rest, AloneInv
<1>5. RateInv'
  <2>1. Stats' \subseteq Stats
    BY <1>1, <1>2, Nothings DEF Stats, ReadIO, views
  <2>2. QED
    BY <1>1, <2>1, RateSame DEF Rest, views
<1>6. Rank(NoScrub) = 1 /\ 1 <= Rank(pool) /\ Behind(NoScrub)
  BY ViewTypes, BehindNothing DEF Rest, RankInv
<1>7. RankInv'
  BY <1>1, <1>2, <1>6 DEF Rest, RankInv, HasList, Listed, views
<1>8. EventInv'
  <2>1. 0 <= 0 /\ 0 <= lastEvent
    BY BoundsAssumption DEF Types, TypeOK
  <2>2. QED
    BY <1>1, <1>2, <2>1 DEF EventInv
<1>9. ScrubInv => ScrubInv'
  BY <1>1, <1>2, <1>6 DEF ScrubInv, Behind, Before, HasList, Listed, views
<1>10. QED
  BY <1>1, <1>3, <1>4, <1>5, <1>7, <1>8, <1>9 DEF Rest

Inv == Types /\ Rest

LEMMA InvInit == Init => Inv
<1> SUFFICES ASSUME Init PROVE Inv
  OBVIOUS
<1>1. \A h \in Handlers : /\ handler[h] = Idle /\ EventOf(h) = 0
                          /\ IO(h) = NoIOStat /\ FrameScrub(h) = NoScrub
  BY Nothings DEF Init, EventOf, IO, FrameScrub
<1>0. \A r \in Refreshers : ReadIO(r) = NoIOStat /\ ~ HasList(r)
  BY Nothings DEF Init, ReadIO, HasList
<1>2. Types
  <2>1. handler \in [Handlers -> HandlerState] /\ \A h \in Handlers : handler[h].frame \in Frame
    BY Nothings DEF Init
  <2>2. {attached, linkUp, overlapped} \subseteq BOOLEAN
    BY DEF Init
  <2>3. refresh \in [Refreshers -> RefreshState]
    BY Nothings DEF Init
  <2>4. QED
    BY <1>1, <2>1, <2>2, <2>3, Nothings, BoundsAssumption DEF Init, Types, TypeOK, RefreshState
<1>3. AloneInv
  BY <1>1 DEF AloneInv
<1>4. RateInv
  <2>1. \A i \in Stats : i = NoIOStat
    BY <1>1, <1>0, Nothings DEF Stats, Init
  <2>2. NoIOStat.at <= 0 /\ 0 - NoIOStat.ops <= 0 - NoIOStat.at /\ Steady(NoIOStat, NoIOStat)
    BY Nothings DEF Steady
  <2>3. QED
    BY <2>1, <2>2 DEF RateInv, Init
<1>5. Rank(NoScrub) = 1 /\ 1 <= 1
  BY ViewTypes
<1>6. RankInv
  BY <1>1, <1>0, <1>5, Nothings DEF RankInv, Init
<1>7. EventInv
  BY <1>1 DEF EventInv, Init
<1>8. ScrubInv
  BY <1>1, <1>0, Nothings DEF ScrubInv, Behind, Before, Init
<1>9. QED
  BY <1>2, <1>3, <1>4, <1>6, <1>7, <1>8 DEF Inv, Rest

LEMMA InvStep == Inv /\ [Next]_vars => Inv'
<1> SUFFICES ASSUME Types, Rest, [Next]_vars PROVE Types' /\ Rest'
  BY DEF Inv
<1>1. CASE \/ PostAbandoned \/ SetTelemetryClient \/ LinkFails \/ LinkReturns \/ HubStarts
  <2>1. Types' /\ UNCHANGED <<hubPart, views, lastEvent, reader>>
    BY <1>1, QuietTypes
  <2>2. QED
    BY <2>1, RestStays
<1>2. CASE EmitEvent
  BY <1>2, EmitEventStep
<1>3. CASE ScrubStarts \/ ScrubEnds
  BY <1>3, PoolStep
<1>4. ASSUME NEW r \in Refreshers, RefreshStep(r) PROVE Types' /\ Rest'
  BY <1>4, ListStep, SampleStep, StoreStep DEF RefreshStep
<1>5. CASE Forward
  BY <1>5, ForwardStep
<1>6. CASE ReadCurrent \/ ReadPrevious
  BY <1>6, ReadStep
<1>7. CASE AgentRestart
  BY <1>7, AgentRestartStep
<1>8. CASE HubStops
  BY <1>8, HubStopsStep
<1>9. ASSUME NEW h \in Handlers, HandlerStep(h) PROVE Types' /\ Rest'
  BY <1>9, IngestStep, DetectStep, EvaluateStep, EmitStep DEF HandlerStep
<1>10. CASE UNCHANGED vars
  <2>1. Types'
    BY <1>10 DEF Types, TypeOK, EventOf, vars, agentVars, poolVars, collector, hubVars, upstream,
                 aggregator, history
  <2>2. UNCHANGED <<hubPart, views, lastEvent, reader>>
    BY <1>10 DEF hubPart, views, vars, agentVars, poolVars, collector, hubVars, aggregator
  <2>3. QED
    BY <2>1, <2>2, RestStays
<1>11. QED
  BY <1>1, <1>2, <1>3, <1>4, <1>5, <1>6, <1>7, <1>8, <1>9, <1>10
     DEF Next, AgentStep, HubStep, Failure

\* The telemetry path keeps its types in every step.
THEOREM HubTypes == Spec => []TypeOK
<1>1. Inv => TypeOK
  BY DEF Inv, Types
<1>2. QED
  BY InvInit, InvStep, <1>1, PTL DEF Spec

\* Send gets an event at most once and events in their order (evaluateAgentEvent), and a
\* completed scrub after its end, and again or after a later one only if a refresh stored
\* an older view in between (detectPoolTransitions); but the order is that of one handler
\* at a time.
THEOREM EventsAnnouncedOnce == Spec => AnnouncedOnce
<1>1. ASSUME Inv
      PROVE  \A h \in Handlers :
                 LET frame == handler[h].frame
                     curr == frame.sample.scrub
                 IN
                 /\ EmitNotification(h) /\ linkUp => announced < frame.event \/ overlapped
                 /\ DetectPoolTransitions(h) /\ ScrubCompleted(lastPool, curr) /\ linkUp =>
                        /\ Rank(curr) <= Rank(pool)
                        /\ \/ scrubAnnounced.n < curr.n
                           \/ scrubAnnounced.turn < curr.turn
                           \/ overlapped
  BY <1>1, EmitStep, DetectStep DEF Inv, EventOf, FrameScrub
<1>2. QED
  BY <1>1, InvInit, InvStep, PTL DEF Spec, AnnouncedOnce

\* The unsigned subtraction of rate never wraps.
LEMMA RatesBounded ==
    ASSUME Inv
    PROVE  OpsShown(reader, prevIOStat) <=
               IF reader.at > prevIOStat.at THEN reader.at - prevIOStat.at ELSE 0
<1> DEFINE i == reader
           j == prevIOStat
<1>1. i \in Stats /\ j \in Stats
  BY DEF Stats
<1>2. /\ i.at \in 0 .. MaxNews /\ i.ops \in 0 .. MaxNews
      /\ j.at \in 0 .. MaxNews /\ j.ops \in 0 .. MaxNews
  BY <1>1, StatTypes, Parts DEF Inv
<1>3. j.at <= i.at => i.ops - j.ops <= i.at - j.at
  BY <1>1 DEF Inv, Rest, RateInv, Steady
<1> HIDE DEF i, j
<1>4. CASE j = NoIOStat \/ i.at <= j.at \/ i.ops < j.ops
  <2>1. OpsShown(i, j) = 0
    BY <1>4 DEF OpsShown
  <2>2. QED
    BY <1>2, <2>1, BoundsAssumption DEF i, j
<1>5. CASE ~(j = NoIOStat \/ i.at <= j.at \/ i.ops < j.ops)
  <2>1. i.ops - j.ops \in 0 .. MaxNews /\ i.ops - j.ops <= i.at - j.at /\ i.at > j.at
    BY <1>2, <1>3, <1>5, BoundsAssumption
  <2>2. OpsShown(i, j) = Delta(i, j)
    BY <1>5 DEF OpsShown
  <2>3. Delta(i, j) = i.ops - j.ops
    BY <2>1, CounterAssumption, BoundsAssumption DEF Delta
  <2>4. QED
    BY <2>1, <2>2, <2>3 DEF i, j
<1>6. QED
  BY <1>4, <1>5

\* The rates of a page are never above what the pool did between the two samples, though
\* handleIOStatRows reads them under two locks and the counter may start again.
THEOREM RatesHonest == Spec => RatesNeverAboveActivity
<1>1. ASSUME Inv, [Next]_vars
      PROVE  ReadPrevious =>
                 OpsShown(reader, prevIOStat) <=
                     IF reader.at > prevIOStat.at THEN reader.at - prevIOStat.at ELSE 0
  BY <1>1, RatesBounded
<1>2. QED
  BY <1>1, InvInit, InvStep, PTL DEF Spec, RatesNeverAboveActivity

(***************************************************************************)
(* The link to Vigil (VigilLink), for any capacity of the channel and any  *)
(* number of frames and connections.                                       *)
(*                                                                         *)
(* What keeps the frames in order is that only the newest connection can   *)
(* be up (ConnInv): the loops of the older ones may hold frames and take   *)
(* more, but what they hold is lost. So what Vigil has got, what the loop  *)
(* of the connection that is up holds, and what is in the channel follow   *)
(* one another (TelemetryInv); TypedInv says the same of Send's frames.    *)
(***************************************************************************)

\* Only the newest connection is up, and those to come are untouched.
ConnInv ==
    /\ linkRun # "dialing" => used \in Conns
    /\ \A c \in Conns : net[c] = "up" => c = used /\ linkRun # "dialing"
    /\ \A c \in Conns : c > used => net[c] = "unused" /\ loop[c] = "none" /\ wasted[c] = 0
    /\ \A c \in Conns : net[c] = "unused" => c > used

\* A loop that has taken a frame after its connection was closed is about to fail.
WastedInv ==
    \A c \in Conns : \/ wasted[c] = 0
                     \/ wasted[c] = 1 /\ net[c] = "closed" /\ loop[c] \in {"write", "over"}

\* Every member of a sequence of frames is less than n.
Below(s, n) == \A i \in DOMAIN s : s[i] < n
Beyond(s, n) == \A i \in DOMAIN s : n < s[i]

TelemetryInv ==
    /\ Increasing(telemetry) /\ Increasing(queue)
    /\ Below(queue, pushed + 1) /\ Below(telemetry, pushed + 1)
    /\ \A i \in DOMAIN telemetry : Beyond(queue, telemetry[i])
    /\ \A c \in Conns : loop[c] = "write" =>
           /\ held[c] \in 1 .. pushed
           /\ Beyond(queue, held[c])
           /\ net[c] = "up" => Below(telemetry, held[c])

TypedInv ==
    /\ Increasing(typed)
    /\ Below(typed, sends + 1)
    /\ sender # NoSend => /\ sender.frame \in 1 .. sends /\ sender.on \in Conns
                          /\ Below(typed, sender.frame)

LinkInv == LinkTypeOK /\ ConnInv /\ WastedInv /\ TelemetryInv /\ TypedInv

(***************************************************************************)
(* Sequences of frames.                                                    *)
(***************************************************************************)

LEMMA AppendIncreasing ==
    ASSUME NEW s \in Seq(Nat), NEW n \in Nat, Increasing(s), Below(s, n)
    PROVE  /\ Append(s, n) \in Seq(Nat) /\ Increasing(Append(s, n))
           /\ \A m \in Nat : Below(s, m) /\ n < m => Below(Append(s, n), m)
           /\ \A m \in Nat : Beyond(s, m) /\ m < n => Beyond(Append(s, n), m)
BY DEF Increasing, Below, Beyond

LEMMA TailIncreasing ==
    ASSUME NEW s \in Seq(Nat), s # <<>>, Increasing(s)
    PROVE  /\ Tail(s) \in Seq(Nat) /\ Increasing(Tail(s)) /\ Head(s) \in Nat
           /\ Beyond(Tail(s), Head(s))
           /\ \A m \in Nat : Below(s, m) => Below(Tail(s), m) /\ Head(s) < m
           /\ \A m \in Nat : Beyond(s, m) => Beyond(Tail(s), m) /\ m < Head(s)
BY DEF Increasing, Below, Beyond

LEMMA BelowMore ==
    ASSUME NEW s \in Seq(Nat), NEW m \in Nat, NEW n \in Nat, Below(s, m), m <= n
    PROVE  Below(s, n)
BY DEF Below

LEMMA BelowFurther ==
    ASSUME NEW s \in Seq(Nat), NEW n \in Nat, Below(s, n + 1)
    PROVE  Below(s, n + 2)
<1>1. n + 1 \in Nat /\ n + 2 \in Nat /\ n + 1 <= n + 2
  OBVIOUS
<1>2. QED
  BY <1>1, BelowMore

LEMMA FrameSequences ==
    ASSUME NEW n \in Nat, NEW s \in Seq(1 .. n)
    PROVE  /\ \A e \in 1 .. n : /\ Append(s, e) \in Seq(1 .. n)
                               /\ Len(Append(s, e)) = Len(s) + 1
           /\ s # <<>> => /\ Head(s) \in 1 .. n /\ Tail(s) \in Seq(1 .. n)
                          /\ Len(Tail(s)) = Len(s) - 1
           /\ Len(s) \in Nat
OBVIOUS

LEMMA FramesAreNumbers == ASSUME NEW n \in Nat, NEW s \in Seq(1 .. n) PROVE s \in Seq(Nat)
OBVIOUS

(***************************************************************************)
(* The types, and the connections.                                         *)
(***************************************************************************)

LEMMA LinkInvInit == ASSUME LinkInit PROVE LinkInv
<1> USE LinkBoundsAssumption DEF LinkInit
<1>1. LinkTypeOK
  <2>1. /\ queue \in Seq(1 .. MaxFrames) /\ Len(queue) =< Capacity
        /\ telemetry \in Seq(1 .. MaxFrames) /\ typed \in Seq(1 .. MaxSends)
    OBVIOUS
  <2>2. /\ used \in 0 .. MaxConns /\ pushed \in 0 .. MaxFrames /\ sends \in 0 .. MaxSends
        /\ held \in [Conns -> 0 .. MaxFrames] /\ wasted \in [Conns -> 0 .. MaxFrames]
        /\ sender \in [frame : 0 .. MaxSends, on : {None} \cup Conns]
    BY DEF None, NoSend
  <2>3. QED
    BY <2>1, <2>2 DEF LinkTypeOK
<1>2. ConnInv /\ WastedInv
  BY DEF ConnInv, WastedInv, Conns
<1>3. TelemetryInv
  BY DEF TelemetryInv, Increasing, Below, Beyond
<1>4. TypedInv
  BY DEF TypedInv, Increasing, Below
<1>5. QED
  BY <1>1, <1>2, <1>3, <1>4 DEF LinkInv

LEMMA LinkTypeStep ==
    ASSUME LinkInv, [LinkNext]_linkVars
    PROVE  LinkTypeOK'
<1>0. LinkTypeOK /\ ConnInv /\ WastedInv /\ TelemetryInv /\ TypedInv
  BY DEF LinkInv
<1>1. /\ Capacity \in Nat /\ MaxFrames \in Nat /\ MaxSends \in Nat /\ MaxConns \in Nat
      /\ queue \in Seq(1 .. MaxFrames) /\ Len(queue) =< Capacity
      /\ telemetry \in Seq(1 .. MaxFrames) /\ typed \in Seq(1 .. MaxSends)
  BY <1>0, LinkBoundsAssumption DEF LinkTypeOK
<1>2. CASE Register \/ Wire
  BY <1>0, <1>2 DEF LinkTypeOK, Register, Wire, loopVars, sendVars
<1>3. CASE Dial
  BY <1>0, <1>1, <1>3 DEF LinkTypeOK, Dial, Conns, sendVars
<1>4. CASE ReadFails \/ Leave
  BY <1>0, <1>4 DEF LinkTypeOK, ReadFails, Leave, ConnInv, None, sendVars
<1>5. CASE Push
  <2>1. pushed + 1 \in 1 .. MaxFrames /\ pushed' = pushed + 1
    BY <1>0, <1>1, <1>5 DEF Push, LinkTypeOK
  <2>2. queue' \in Seq(1 .. MaxFrames) /\ Len(queue') =< Capacity
    <3>1. /\ Append(queue, pushed + 1) \in Seq(1 .. MaxFrames)
          /\ Len(Append(queue, pushed + 1)) = Len(queue) + 1
          /\ Len(queue) \in Nat
      BY <1>1, <2>1, FrameSequences
    <3>2. queue' = IF Len(queue) < Capacity THEN Append(queue, pushed + 1) ELSE queue
      BY <1>5 DEF Push
    <3>3. CASE Len(queue) < Capacity
      <4>1. Len(queue) + 1 =< Capacity
        BY <1>1, <3>1, <3>3
      <4>2. QED
        BY <3>1, <3>2, <3>3, <4>1
    <3>4. CASE ~ Len(queue) < Capacity
      BY <1>1, <3>2, <3>4
    <3>5. QED
      BY <3>3, <3>4
  <2>3. UNCHANGED <<kind, linkRunVars, loopVars, sendVars, telemetry, typed, wasted>>
    BY <1>5 DEF Push
  <2>4. QED
    BY <1>0, <2>1, <2>2, <2>3 DEF LinkTypeOK, linkRunVars, loopVars, sendVars
<1>6. CASE SendLook
  BY <1>0, <1>1, <1>6
     DEF LinkTypeOK, SendLook, NoSend, None, linkRunVars, loopVars
<1>7. CASE SendWrite
  <2>1. sender.frame \in 1 .. MaxSends
    BY <1>0, <1>1, <1>7 DEF SendWrite, TypedInv, LinkTypeOK
  <2>2. typed' \in Seq(1 .. MaxSends)
    BY <1>1, <1>7, <2>1, FrameSequences DEF SendWrite
  <2>3. sender' \in [frame : 0 .. MaxSends, on : {None} \cup Conns]
    BY <1>1, <1>7 DEF SendWrite, NoSend
  <2>4. UNCHANGED <<kind, linkRunVars, loopVars, queue, pushed, sends, telemetry, wasted>>
    BY <1>7 DEF SendWrite
  <2>5. QED
    BY <1>0, <2>2, <2>3, <2>4 DEF LinkTypeOK, linkRunVars, loopVars
<1>8. ASSUME NEW c \in Conns, Cut(c) \/ LoopEnds(c) PROVE LinkTypeOK'
  BY <1>0, <1>8 DEF LinkTypeOK, Cut, LoopEnds, EndLoop, linkRunVars, sendVars
<1>9. ASSUME NEW c \in Conns, Take(c) PROVE LinkTypeOK'
  <2>1. /\ Head(queue) \in 1 .. MaxFrames /\ Tail(queue) \in Seq(1 .. MaxFrames)
        /\ Len(Tail(queue)) =< Capacity
    BY <1>1, <1>9, FrameSequences DEF Take
  <2>2. wasted' \in [Conns -> 0 .. MaxFrames]
    <3>1. /\ net[c] = "closed" => wasted[c] = 0
          /\ wasted \in [Conns -> 0 .. MaxFrames]
      BY <1>0, <1>9 DEF WastedInv, Take, LinkTypeOK
    <3>2. 1 \in 0 .. MaxFrames
      BY <1>1, <2>1
    <3>3. wasted' = IF net[c] = "closed" THEN [wasted EXCEPT ![c] = wasted[c] + 1] ELSE wasted
      BY <1>9 DEF Take
    <3>4. net[c] = "closed" => wasted[c] + 1 \in 0 .. MaxFrames
      BY <3>1, <3>2
    <3>5. QED
      BY <3>1, <3>3, <3>4
  <2>3. /\ loop' \in [Conns -> {"none", "select", "write", "over"}]
        /\ held' \in [Conns -> 0 .. MaxFrames]
    <3>1. /\ loop \in [Conns -> {"none", "select", "write", "over"}]
          /\ held \in [Conns -> 0 .. MaxFrames]
      BY <1>0 DEF LinkTypeOK
    <3>a. Head(queue) \in 0 .. MaxFrames
      BY <1>1, <2>1
    <3>2. loop' = [loop EXCEPT ![c] = "write"] /\ held' = [held EXCEPT ![c] = Head(queue)]
      BY <1>9 DEF Take
    <3>3. QED
      BY <3>1, <3>2, <3>a
  <2>4. /\ queue' = Tail(queue)
        /\ UNCHANGED <<kind, linkRunVars, net, cancelled, pushed, sendVars, telemetry, typed>>
    BY <1>9 DEF Take
  <2>5. QED
    BY <1>0, <2>1, <2>2, <2>3, <2>4 DEF LinkTypeOK, linkRunVars, sendVars
<1>10. ASSUME NEW c \in Conns, Write(c) PROVE LinkTypeOK'
  <2>1. held[c] \in 1 .. MaxFrames
    BY <1>0, <1>1, <1>10 DEF Write, TelemetryInv, LinkTypeOK
  <2>2. telemetry' \in Seq(1 .. MaxFrames)
    BY <1>1, <1>10, <2>1, FrameSequences DEF Write, Written, NotWritten
  <2>3. /\ held' \in [Conns -> 0 .. MaxFrames]
        /\ loop' \in [Conns -> {"none", "select", "write", "over"}]
        /\ net' \in [Conns -> {"unused", "up", "cut", "closed"}]
    <3>1. /\ held \in [Conns -> 0 .. MaxFrames] /\ 0 \in 0 .. MaxFrames
          /\ loop \in [Conns -> {"none", "select", "write", "over"}]
          /\ net \in [Conns -> {"unused", "up", "cut", "closed"}]
      BY <1>0, <1>1 DEF LinkTypeOK
    <3>2. held' \in [Conns -> 0 .. MaxFrames]
      BY <1>10, <3>1 DEF Write
    <3>3. QED
      BY <1>10, <3>1, <3>2 DEF Write, Written, NotWritten, EndLoop
  <2>4. UNCHANGED <<kind, linkRunVars, cancelled, queue, pushed, sendVars, typed, wasted>>
    BY <1>10 DEF Write
  <2>5. QED
    BY <1>0, <2>2, <2>3, <2>4 DEF LinkTypeOK, linkRunVars, sendVars
<1>11. CASE UNCHANGED linkVars
  BY <1>0, <1>11 DEF LinkTypeOK, linkVars, linkRunVars, loopVars, sendVars
<1>12. QED
  BY <1>2, <1>3, <1>4, <1>5, <1>6, <1>7, <1>8, <1>9, <1>10, <1>11 DEF LinkNext

LEMMA ConnStep ==
    ASSUME LinkTypeOK, ConnInv, WastedInv, [LinkNext]_linkVars
    PROVE  ConnInv' /\ WastedInv'
<1>0. /\ net \in [Conns -> {"unused", "up", "cut", "closed"}]
      /\ loop \in [Conns -> {"none", "select", "write", "over"}]
      /\ wasted \in [Conns -> Nat]
      /\ used \in Nat /\ MaxConns \in Nat
  BY LinkBoundsAssumption DEF LinkTypeOK
<1> USE DEF Conns, ConnInv, WastedInv
<1>1. CASE Register \/ Wire \/ Push \/ SendLook \/ SendWrite
  BY <1>0, <1>1
     DEF Register, Wire, Push, SendLook, SendWrite, linkRunVars,
         loopVars, sendVars
<1>2. CASE Dial
  BY <1>0, <1>2 DEF Dial
<1>3. CASE ReadFails
  BY <1>0, <1>3 DEF ReadFails
<1>4. CASE Leave
  BY <1>0, <1>4 DEF Leave
<1>5. ASSUME NEW c \in Conns, Cut(c) PROVE ConnInv' /\ WastedInv'
  BY <1>0, <1>5 DEF Cut, linkRunVars
<1>6. ASSUME NEW c \in Conns, LoopEnds(c) PROVE ConnInv' /\ WastedInv'
  BY <1>0, <1>6 DEF LoopEnds, EndLoop, linkRunVars
<1>7. ASSUME NEW c \in Conns, Take(c) PROVE ConnInv' /\ WastedInv'
  <2>1. /\ loop[c] = "select" /\ loop' = [loop EXCEPT ![c] = "write"]
        /\ wasted' = IF net[c] = "closed" THEN [wasted EXCEPT ![c] = @ + 1] ELSE wasted
        /\ UNCHANGED <<net, used, linkRun>>
    BY <1>0, <1>7 DEF Take, linkRunVars
  <2>2. ConnInv'
    BY <1>0, <2>1
  <2>3. WastedInv'
    BY <1>0, <2>1
  <2>4. QED
    BY <2>2, <2>3
<1>8. ASSUME NEW c \in Conns, Write(c) PROVE ConnInv' /\ WastedInv'
  <2>1. loop[c] = "write" /\ UNCHANGED <<used, linkRun, wasted>>
    BY <1>0, <1>8 DEF Write, linkRunVars
  <2>2. \/ /\ net[c] \in {"up", "cut"} /\ net' = net
           /\ loop' = [loop EXCEPT ![c] = "select"]
        \/ /\ net[c] \in {"cut", "closed"} /\ net' = [net EXCEPT ![c] = "closed"]
           /\ loop' = [loop EXCEPT ![c] = "over"]
    BY <1>0, <1>8 DEF Write, Written, NotWritten, EndLoop
  <2>3. ConnInv'
    BY <1>0, <2>1, <2>2
  <2>4. WastedInv'
    BY <1>0, <2>1, <2>2
  <2>5. QED
    BY <2>3, <2>4
<1>9. CASE UNCHANGED linkVars
  BY <1>0, <1>9 DEF linkVars, linkRunVars, loopVars
<1>10. QED
  BY <1>1, <1>2, <1>3, <1>4, <1>5, <1>6, <1>7, <1>8, <1>9 DEF LinkNext

(***************************************************************************)
(* The frames.                                                             *)
(***************************************************************************)

LEMMA TelemetryStep ==
    ASSUME LinkTypeOK, ConnInv, TelemetryInv, [LinkNext]_linkVars
    PROVE  TelemetryInv'
<1> USE LinkBoundsAssumption DEF TelemetryInv
<1>0. /\ queue \in Seq(Nat) /\ telemetry \in Seq(Nat) /\ pushed \in Nat
      /\ \A i \in DOMAIN telemetry : telemetry[i] \in Nat
  BY FramesAreNumbers DEF LinkTypeOK
<1>1. CASE Register \/ Wire \/ ReadFails \/ SendLook \/ SendWrite
  BY <1>1
     DEF Register, Wire, ReadFails, SendLook, SendWrite, loopVars,
         linkRunVars, sendVars
<1>2. CASE Dial
  BY <1>2 DEF Dial, LinkTypeOK
<1>3. CASE Leave
  BY <1>3 DEF Leave, LinkTypeOK
<1>4. CASE Push
  <2>1. CASE queue' = queue
    <3>1. pushed' = pushed + 1 /\ pushed + 1 \in Nat /\ pushed + 2 \in Nat
      BY <1>0, <1>4 DEF Push
    <3>2. Below(queue, pushed + 2) /\ Below(telemetry, pushed + 2)
      BY <1>0, BelowFurther
    <3>3. Below(queue', pushed' + 1) /\ Below(telemetry, pushed' + 1)
      BY <1>0, <2>1, <3>1, <3>2
    <3>4. QED
      BY <1>0, <1>4, <2>1, <3>1, <3>3 DEF Push, loopVars
  <2>2. CASE queue' = Append(queue, pushed + 1)
    <3>0. pushed + 1 \in Nat /\ pushed + 2 \in Nat /\ pushed' = pushed + 1 /\ pushed + 1 < pushed + 2
      BY <1>0, <1>4 DEF Push
    <3>a. Below(queue, pushed + 2)
      BY <1>0, BelowFurther
    <3>1. /\ Increasing(queue') /\ Below(queue', pushed + 2)
          /\ \A m \in Nat : Beyond(queue, m) /\ m < pushed + 1 => Beyond(queue', m)
      BY <1>0, <2>2, <3>0, <3>a, AppendIncreasing
    <3>b. Below(queue', pushed' + 1)
      BY <1>0, <3>0, <3>1
    <3>2. \A i \in DOMAIN telemetry : Beyond(queue', telemetry[i])
      BY <1>0, <3>1 DEF Below
    <3>3. Below(telemetry, pushed' + 1)
      BY <1>0, <1>4, BelowMore DEF Push
    <3>4. QED
      BY <1>0, <1>4, <3>1, <3>2, <3>3, <3>b DEF Push, loopVars
  <2>3. QED
    BY <1>4, <2>1, <2>2 DEF Push
<1>5. ASSUME NEW c \in Conns, Cut(c) \/ LoopEnds(c) PROVE TelemetryInv'
  <2>1. UNCHANGED <<queue, telemetry, pushed, held>>
    BY <1>5 DEF Cut, LoopEnds
  <2>2. \A d \in Conns : /\ loop'[d] = "write" => loop[d] = "write"
                         /\ net'[d] = "up" => net[d] = "up"
    <3>1. /\ net \in [Conns -> {"unused", "up", "cut", "closed"}]
          /\ loop \in [Conns -> {"none", "select", "write", "over"}]
      BY DEF LinkTypeOK
    <3>2. /\ net' = net \/ net' = [net EXCEPT ![c] = "cut"] \/ net' = [net EXCEPT ![c] = "closed"]
          /\ loop' = loop \/ loop' = [loop EXCEPT ![c] = "over"]
      BY <1>5 DEF Cut, LoopEnds, EndLoop
    <3>3. QED
      BY <3>1, <3>2
  <2>3. ASSUME NEW d \in Conns, loop'[d] = "write"
        PROVE  /\ held'[d] \in 1 .. pushed' /\ Beyond(queue', held'[d])
               /\ net'[d] = "up" => Below(telemetry', held'[d])
    <3>1. loop[d] = "write" /\ (net'[d] = "up" => net[d] = "up")
      BY <2>2, <2>3
    <3>2. QED
      BY <2>1, <3>1
  <2>4. /\ Increasing(telemetry') /\ Increasing(queue')
        /\ Below(queue', pushed' + 1) /\ Below(telemetry', pushed' + 1)
        /\ \A i \in DOMAIN telemetry' : Beyond(queue', telemetry'[i])
    BY <2>1
  <2>5. QED
    BY <2>3, <2>4
<1>6. ASSUME NEW c \in Conns, Take(c) PROVE TelemetryInv'
  <2>1. /\ Increasing(queue') /\ Below(queue', pushed + 1)
        /\ held'[c] = Head(queue) /\ Head(queue) \in Nat /\ Beyond(queue', Head(queue))
        /\ Head(queue) < pushed + 1
        /\ \A m \in Nat : Beyond(queue, m) => Beyond(queue', m) /\ m < Head(queue)
    <3>1. /\ queue # <<>> /\ queue' = Tail(queue) /\ pushed + 1 \in Nat
          /\ held' = [held EXCEPT ![c] = Head(queue)] /\ Increasing(queue)
          /\ Below(queue, pushed + 1)
      BY <1>0, <1>6 DEF Take
    <3>2. held'[c] = Head(queue)
      BY <3>1 DEF LinkTypeOK
    <3>3. QED
      BY <1>0, <3>1, <3>2, TailIncreasing
  <2>2. /\ \A i \in DOMAIN telemetry : Beyond(queue', telemetry[i])
        /\ Below(telemetry, Head(queue))
    BY <1>0, <2>1 DEF Below
  <2>3. Head(queue) \in 1 .. pushed
    <3>1. queue # <<>> /\ queue \in Seq(1 .. MaxFrames)
      BY <1>6 DEF Take, LinkTypeOK
    <3>2. Head(queue) \in 1 .. MaxFrames
      BY <3>1
    <3>3. QED
      BY <1>0, <2>1, <3>2
  <2>4. UNCHANGED <<telemetry, pushed, net>>
    BY <1>6 DEF Take
  <2>5. ASSUME NEW d \in Conns, loop'[d] = "write", d # c
        PROVE  /\ held'[d] \in 1 .. pushed
               /\ Beyond(queue', held'[d])
               /\ net[d] = "up" => Below(telemetry, held'[d])
    <3>1. loop[d] = "write" /\ held'[d] = held[d]
      BY <1>6, <2>5 DEF Take, LinkTypeOK
    <3>2. QED
      BY <1>0, <2>1, <3>1
  <2>6. QED
    BY <2>1, <2>2, <2>3, <2>4, <2>5
<1>7. ASSUME NEW c \in Conns, Write(c) PROVE TelemetryInv'
  <2>1. CASE telemetry' = telemetry
    BY <1>7, <2>1 DEF Write, Written, NotWritten, EndLoop, LinkTypeOK
  <2>2. CASE net[c] = "up" /\ telemetry' = Append(telemetry, held[c])
    <3>1. held[c] \in 1 .. pushed /\ Beyond(queue, held[c]) /\ Below(telemetry, held[c])
      BY <1>7, <2>2 DEF Write
    <3>2. Increasing(telemetry') /\ Below(telemetry', pushed + 1)
      <4>1. /\ telemetry \in Seq(Nat) /\ held[c] \in Nat /\ pushed + 1 \in Nat
            /\ held[c] < pushed + 1 /\ Increasing(telemetry)
        BY <1>0, <3>1
      <4>2. Below(telemetry, pushed + 1)
        OBVIOUS
      <4> HIDE LinkBoundsAssumption DEF TelemetryInv
      <4>3. QED
        BY <2>2, <3>1, <4>1, <4>2, AppendIncreasing
    <3>3. \A i \in DOMAIN telemetry' : Beyond(queue, telemetry'[i])
      BY <1>0, <2>2, <3>1
    <3>4. UNCHANGED <<queue, pushed, net>>
      BY <1>7, <2>2 DEF Write, Written, NotWritten
    <3>5. ASSUME NEW d \in Conns, loop'[d] = "write"
          PROVE  held'[d] \in 1 .. pushed /\ Beyond(queue, held'[d]) /\ net[d] # "up"
      <4>1. d # c /\ loop[d] = "write" /\ held'[d] = held[d]
        BY <1>7, <3>5 DEF Write, Written, NotWritten, EndLoop, LinkTypeOK
      <4>2. QED
        BY <2>2, <4>1 DEF ConnInv
    <3>6. QED
      BY <3>2, <3>3, <3>4, <3>5
  <2>3. QED
    BY <1>7, <2>1, <2>2 DEF Write, Written, NotWritten
<1>8. CASE UNCHANGED linkVars
  BY <1>8 DEF linkVars, loopVars
<1>9. QED
  BY <1>1, <1>2, <1>3, <1>4, <1>5, <1>6, <1>7, <1>8 DEF LinkNext

LEMMA TypedStep ==
    ASSUME LinkTypeOK, TypedInv, [LinkNext]_linkVars
    PROVE  TypedInv'
<1> USE LinkBoundsAssumption DEF TypedInv
<1>0. typed \in Seq(Nat) /\ sends \in Nat
  BY FramesAreNumbers DEF LinkTypeOK
<1>1. CASE SendLook
  <2>1. Below(typed, sends' + 1) /\ UNCHANGED typed
    BY <1>0, <1>1, BelowMore DEF SendLook
  <2>2. sender' # NoSend => /\ sender'.frame \in 1 .. sends' /\ sender'.on \in Conns
                            /\ Below(typed, sender'.frame)
    BY <1>0, <1>1 DEF SendLook, LinkTypeOK, None
  <2>3. QED
    BY <2>1, <2>2
<1>2. CASE SendWrite
  <2>1. CASE typed' = typed
    BY <1>2, <2>1 DEF SendWrite
  <2>2. CASE typed' = Append(typed, sender.frame)
    <3>1. Increasing(typed') /\ Below(typed', sends + 1)
      BY <1>0, <1>2, <2>2, AppendIncreasing DEF SendWrite
    <3>2. QED
      BY <1>2, <3>1 DEF SendWrite
  <2>3. QED
    BY <1>2, <2>1, <2>2 DEF SendWrite
<1>3. ASSUME \/ Register \/ Wire \/ Dial \/ ReadFails \/ Leave \/ Push
             \/ (\E c \in Conns : Cut(c) \/ Take(c) \/ Write(c) \/ LoopEnds(c))
             \/ UNCHANGED linkVars
      PROVE  UNCHANGED <<typed, sendVars>>
  BY <1>3
     DEF Register, Wire, Dial, ReadFails, Leave, Push, Cut,
         Take, Write, LoopEnds, linkVars
<1>4. QED
  BY <1>1, <1>2, <1>3 DEF LinkNext, sendVars

LEMMA LinkInvAlways == LinkSpec => []LinkInv
<1>1. LinkInit => LinkInv
  BY LinkInvInit
<1>2. LinkInv /\ [LinkNext]_linkVars => LinkInv'
  BY LinkTypeStep, ConnStep, TelemetryStep, TypedStep DEF LinkInv
<1>3. QED
  BY <1>1, <1>2, PTL DEF LinkSpec

\* The state of the link keeps its types in every step.
THEOREM LinkTypes == LinkSpec => []LinkTypeOK
<1>0. LinkSpec => []LinkInv
  BY LinkInvAlways
<1>1. LinkInv => LinkTypeOK
  BY DEF LinkInv
<1>2. QED
  BY <1>0, <1>1, PTL

\* What Vigil gets is in the order in which it was handed over, and nothing comes twice,
\* though the loops of an old and a new connection empty one channel (forwardLoop, Send).
THEOREM FramesInOrderOnce == LinkSpec => []InOrderOnce
<1>0. LinkSpec => []LinkInv
  BY LinkInvAlways
<1>1. LinkInv => InOrderOnce
  BY DEF LinkInv, TelemetryInv, TypedInv, InOrderOnce
<1>2. QED
  BY <1>0, <1>1, PTL

\* A loop whose connection is closed costs the channel one frame at most: the write
\* that follows fails and ends the loop (forwardLoop).
THEOREM LittleWasted == LinkSpec => []OneFrameWasted
<1>0. LinkSpec => []LinkInv
  BY LinkInvAlways
<1>1. LinkInv => OneFrameWasted
  BY DEF LinkInv, WastedInv, OneFrameWasted
<1>2. QED
  BY <1>0, <1>1, PTL

(***************************************************************************)
(* VigilLink implements two lossy channels.                                *)
(***************************************************************************)

\* A frame that is written has been handed over, and is newer than those that came before.
LEMMA TelemetryArrives ==
    ASSUME LinkInv, NEW c \in Conns, Write(c)
    PROVE  UNCHANGED telemetry \/ \E n \in 1 .. pushed : Telemetry!Arrive(n)
<1>1. UNCHANGED pushed
  BY DEF Write, sendVars
<1>2. CASE UNCHANGED telemetry
  BY <1>2
<1>3. CASE telemetry' # telemetry
  <2>1. loop[c] = "write" /\ net[c] = "up" /\ telemetry' = Append(telemetry, held[c])
    BY <1>3 DEF Write, Written, NotWritten
  <2>2. held[c] \in 1 .. pushed /\ Below(telemetry, held[c])
    BY <2>1 DEF LinkInv, TelemetryInv
  <2>3. QED
    BY <1>1, <2>1, <2>2 DEF Telemetry!Arrive, Below
<1>4. QED
  BY <1>2, <1>3

LEMMA ChannelStep ==
    ASSUME LinkInv, [LinkNext]_linkVars
    PROVE  /\ [Telemetry!Next]_(<<pushed, telemetry>>)
           /\ [Typed!Next]_(<<sends, typed>>)
<1>1. CASE Push
  BY <1>1 DEF Push, sendVars, Telemetry!Next, Telemetry!HandOver
<1>2. CASE SendLook
  BY <1>2 DEF SendLook, Typed!Next, Typed!HandOver
<1>3. CASE SendWrite
  <2>1. UNCHANGED <<pushed, telemetry, sends>>
    BY <1>3 DEF SendWrite
  <2>2. CASE typed' = Append(typed, sender.frame)
    <3>1. sender.frame \in 1 .. sends /\ Below(typed, sender.frame)
      BY <1>3 DEF SendWrite, LinkInv, TypedInv
    <3>2. Typed!Arrive(sender.frame)
      BY <2>1, <2>2, <3>1 DEF Typed!Arrive, Below
    <3>3. QED
      BY <2>1, <3>1, <3>2 DEF Typed!Next
  <2>3. QED
    BY <1>3, <2>1, <2>2 DEF SendWrite
<1>4. ASSUME NEW c \in Conns, Write(c)
      PROVE  /\ [Telemetry!Next]_(<<pushed, telemetry>>)
             /\ [Typed!Next]_(<<sends, typed>>)
  <2>1. UNCHANGED <<pushed, sends, typed>>
    BY <1>4 DEF Write, sendVars
  <2>2. QED
    BY <1>4, <2>1, TelemetryArrives DEF Telemetry!Next
<1>5. ASSUME NEW c \in Conns, Cut(c) \/ Take(c) \/ LoopEnds(c)
      PROVE  UNCHANGED <<pushed, telemetry, sends, typed>>
  BY <1>5 DEF Cut, Take, LoopEnds, sendVars
<1>6. CASE Register \/ Wire \/ Dial \/ ReadFails \/ Leave \/ UNCHANGED linkVars
  BY <1>6 DEF Register, Wire, Dial, ReadFails, Leave, linkVars, sendVars
<1>7. QED
  BY <1>1, <1>2, <1>3, <1>4, <1>5, <1>6 DEF LinkNext

\* Every behaviour of the link is one of two lossy channels: frames are handed over by
\* Push and by Send's lookup, come with a write to a connection that is up, and nothing
\* else happens to either channel, however often the link is cut and dialled again.
THEOREM LinkImplementsChannels == LinkSpec => ImplementsChannels
<1>1. LinkInit => Telemetry!Init /\ Typed!Init
  BY DEF LinkInit, Telemetry!Init, Typed!Init
<1>2. LinkInv /\ [LinkNext]_linkVars
          => [Telemetry!Next]_(<<pushed, telemetry>>) /\ [Typed!Next]_(<<sends, typed>>)
  BY ChannelStep
<1>3. QED
  BY <1>1, <1>2, LinkInvAlways, PTL
     DEF LinkSpec, ImplementsChannels, Telemetry!Spec, Typed!Spec
=============================================================================
