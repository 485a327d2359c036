--------------------------- MODULE BurninHubProofs ---------------------------
(***************************************************************************)
(* Proofs about BurninHub for any number of agents, jobs, frames,          *)
(* connections and crashes.                                                *)
(*                                                                         *)
(* ConnInv and FrameInv say what a connection carries, AloneInv that two   *)
(* readers of one agent have a frame only after an overlap. With them the  *)
(* maps and the notifications of a job are followed through processFrame   *)
(* (StoreInv, PairInv), and the final frame of a job from the queue to the *)
(* clean-up (GhostInv).                                                    *)
(***************************************************************************)
EXTENDS BurninHub, TLAPS

Live(c) == handler[c] \notin {"none", "ended"}

\* A connection has frames only while it has a reader; what an agent writes to is its own.
ConnInv ==
    /\ hubRestarts =< crashes
    /\ \A c \in Conns : /\ ~ Live(c) => queue[c] = <<>>
                        /\ handler[c] = "ended" => c \in broken
    /\ \A a \in Agents : link[a] # NoConn => owner[link[a]] = a /\ handler[link[a]] # "none"

\* A connection carries the frames of its agent only.
FrameInv ==
    \A c \in Conns :
        /\ \A n \in 1 .. Len(queue[c]) : AgentOf[queue[c][n].job] = owner[c]
        /\ Busy(c) => AgentOf[JobOf(c)] = owner[c]

\* Two readers of an agent have a frame only if one has read it while the other was there.
AloneInv ==
    \A c, d \in Conns : Busy(c) /\ Busy(d) /\ owner[c] = owner[d] /\ c # d => owner[c] \in overlap

Handles(c, j) == Busy(c) /\ JobOf(c) = j

\* What the maps hold of a job while its frame is at a place of processFrame.
Agree(j) == (j \in smartDeltas => j \in activeProgress) /\ (j \in lastPhase <=> j \in activeProgress)

StoredAt(c, j) ==
    CASE handler[c] \in {"progressed", "phased"} -> j \in activeProgress
      [] handler[c] = "cleaning" -> j \in activeProgress /\ j \in lastPhase
      [] handler[c] = "cleanedPhase" -> j \in activeProgress /\ j \notin lastPhase
      [] handler[c] = "cleanedDeltas" -> j \notin lastPhase /\ j \notin smartDeltas
      [] OTHER -> Agree(j)

StoreInv ==
    \A j \in Jobs : AgentOf[j] \notin overlap =>
        /\ (\A c \in Conns : ~ Handles(c, j)) => Agree(j)
        /\ \A c \in Conns : Handles(c, j) => StoredAt(c, j)

PairInv ==
    \A j \in Jobs : AgentOf[j] \notin overlap /\ hubRestarts = 0 =>
        /\ started[j] = completed[j] + (IF j \in knownJobs THEN 1 ELSE 0)
        /\ \A c \in Conns : Handles(c, j) => /\ handler[c] = "unseen" => j \notin knownJobs
                                             /\ handler[c] = "seen" => j \in knownJobs

\* A frame of j is in no queue.
AllRead(j) == \A c \in Conns : \A n \in 1 .. Len(queue[c]) : queue[c][n].job # j

LastIsFinal(q, j) ==
    \E n \in 1 .. Len(q) : /\ q[n].job = j /\ q[n].kind \in {"COMPLETE", "CANCELLED"}
                           /\ \A m \in n + 1 .. Len(q) : q[m].job # j

\* A job that is done and of which nothing was lost: its final frame is still in a queue, or
\* it is being processed, or the job is not shown any more.
Concluded(j) ==
    \/ \E c \in Conns : LastIsFinal(queue[c], j)
    \/ /\ AllRead(j)
       /\ \/ \E c \in Conns : /\ Handles(c, j) /\ Final(c)
                              /\ handler[c] \notin {"evaluate", "unseen", "seen"}
          \/ /\ j \notin activeProgress
             /\ \A c \in Conns : Handles(c, j) => handler[c] \in {"evaluate", "unseen", "seen"}

GhostInv ==
    \A j \in Jobs : stage[j] = "done" /\ j \notin lost /\ AgentOf[j] \notin overlap => Concluded(j)

Inv == /\ TypeOK /\ ConnInv /\ FrameInv /\ AloneInv
       /\ OpenReaderIsTracked /\ StoreInv /\ PairInv /\ GhostInv

(***************************************************************************)
(* Sequences of frames.                                                    *)
(***************************************************************************)

LEMMA AppendFacts ==
    ASSUME NEW q \in Seq(Frame), NEW f \in Frame
    PROVE  /\ Append(q, f) \in Seq(Frame) /\ Len(Append(q, f)) = Len(q) + 1
           /\ Append(q, f)[Len(q) + 1] = f
           /\ \A n \in 1 .. Len(q) : Append(q, f)[n] = q[n]
OBVIOUS

LEMMA TailFacts ==
    ASSUME NEW q \in Seq(Frame), q # <<>>
    PROVE  /\ Tail(q) \in Seq(Frame) /\ Len(Tail(q)) = Len(q) - 1 /\ Len(q) \in Nat \ {0}
           /\ Head(q) = q[1] /\ Head(q) \in Frame
           /\ \A n \in 1 .. Len(q) - 1 : Tail(q)[n] = q[n + 1]
OBVIOUS

\* p is what is left of q, and what was cut is counted as lost.
Shorter(p, q, missing) ==
    /\ p \in Seq(Frame) /\ Len(p) =< Len(q)
    /\ \A n \in 1 .. Len(p) : p[n] = q[n]
    /\ \A n \in Len(p) + 1 .. Len(q) : q[n].job \in missing

LEMMA PrefixFacts ==
    ASSUME NEW q \in Seq(Frame), NEW p \in Prefixes(q)
    PROVE  Shorter(p, q, CutFrames(q, p)) /\ CutFrames(q, p) \subseteq Jobs
<1>1. PICK n \in 0 .. Len(q) : p = SubSeq(q, 1, n)
  BY DEF Prefixes
<1>2. p \in Seq(Frame) /\ Len(p) = n /\ \A m \in 1 .. n : p[m] = q[m]
  BY <1>1
<1>3. \A m \in n + 1 .. Len(q) : q[m].job \in CutFrames(q, p)
  BY <1>2 DEF CutFrames
<1>4. CutFrames(q, p) \subseteq Jobs
  <2>1. \A m \in n + 1 .. Len(q) : q[m] \in Frame
    OBVIOUS
  <2>2. \A f \in Frame : f.job \in Jobs
    BY DEF Frame
  <2>3. QED
    BY <1>2, <2>1, <2>2 DEF CutFrames
<1>5. QED
  BY <1>2, <1>3, <1>4 DEF Shorter

LEMMA WholeFacts ==
    ASSUME NEW q \in Seq(Frame), NEW missing PROVE Shorter(q, q, missing)
BY DEF Shorter

LEMMA FrameFacts ==
    /\ AnyFrame \in Frame
    /\ \A f \in Frame : f.job \in Jobs
    /\ \A j \in Jobs, kind \in {"progress", "COMPLETE", "CANCELLED"}, deltas \in BOOLEAN :
           [job |-> j, kind |-> kind, deltas |-> deltas] \in Frame
<1>1. \A j \in Jobs, kind \in {"progress", "COMPLETE", "CANCELLED"}, deltas \in BOOLEAN :
          [job |-> j, kind |-> kind, deltas |-> deltas] \in Frame
  BY DEF Frame
<1>2. \E f \in Frame : TRUE
  BY <1>1, JobsAssumption
<1>3. AnyFrame \in Frame
  BY <1>2 DEF AnyFrame
<1>4. QED
  BY <1>1, <1>3 DEF Frame

(***************************************************************************)
(* The types.                                                              *)
(***************************************************************************)

LEMMA InitTypes == Init => TypeOK
<1> SUFFICES ASSUME Init PROVE TypeOK
  OBVIOUS
<1>1. /\ stage \in [Jobs -> JobStage] /\ sent \in [Jobs -> 0 .. MaxProgress]
      /\ handler \in [Conns -> HandlerStage]
  BY HubBoundsAssumption DEF Init, JobStage, HandlerStage
<1>2. (CHOOSE a \in Agents : TRUE) \in Agents
  BY JobsAssumption, AgentOfAssumption
<1>3. owner \in [Conns -> Agents] /\ queue \in [Conns -> Seq(Frame)] /\ frame \in [Conns -> Frame]
  BY <1>2, FrameFacts DEF Init
<1>4. relay \in [Conns -> BOOLEAN] /\ upstream \in BOOLEAN
  <2>1. FALSE \in BOOLEAN
    OBVIOUS
  <2>2. relay = [c \in Conns |-> FALSE] /\ upstream = FALSE
    BY DEF Init
  <2>3. upstream \in BOOLEAN
    BY <2>2, Zenon
  <2>4. relay \in [Conns -> BOOLEAN]
    BY <2>1, <2>2, Zenon
  <2>5. QED
    BY <2>3, <2>4
<1>5. /\ link \in [Agents -> Conns \union {NoConn}] /\ conns \in [Agents -> Conns \union {NoConn}]
      /\ started \in [Jobs -> Nat] /\ completed \in [Jobs -> Nat]
      /\ crashes \in 0 .. MaxCrashes /\ hubRestarts \in 0 .. MaxCrashes
  BY HubBoundsAssumption DEF Init
<1>6. QED
  BY <1>1, <1>3, <1>4, <1>5 DEF Init, TypeOK

\* Where a frame of a job goes.
Grows(j) ==
    \A c \in Conns :
        \/ queue'[c] = queue[c]
        \/ /\ c = link[AgentOf[j]] /\ c \notin broken
           /\ \E f \in Frame : f.job = j /\ queue'[c] = Append(queue[c], f)

LEMMA SendFacts ==
    ASSUME TypeOK, NEW j \in Jobs, NEW kind \in {"progress", "COMPLETE", "CANCELLED"},
           NEW deltas \in BOOLEAN, Send(j, kind, deltas)
    PROVE  /\ queue' \in [Conns -> Seq(Frame)] /\ lost' \in SUBSET Jobs /\ lost \subseteq lost'
           /\ Grows(j)
           /\ j \in lost' \/ \E c \in Conns, f \in Frame :
                                 f.job = j /\ f.kind = kind /\ queue'[c] = Append(queue[c], f)
<1> DEFINE c == link[AgentOf[j]]
           f == [job |-> j, kind |-> kind, deltas |-> deltas]
<1>1. f \in Frame /\ f.job = j /\ f.kind = kind
  BY FrameFacts
<1>2. c \in Conns \union {NoConn} /\ queue \in [Conns -> Seq(Frame)] /\ lost \in SUBSET Jobs
  BY AgentOfAssumption DEF TypeOK
<1>3. CASE c = NoConn \/ c \in broken
  BY <1>2, <1>3 DEF Send, Grows
<1>4. CASE ~ (c = NoConn \/ c \in broken)
  <2>1. queue' = [queue EXCEPT ![c] = Append(@, f)] /\ lost' = lost /\ c \in Conns /\ c \notin broken
    BY <1>2, <1>4 DEF Send
  <2> HIDE DEF f
  <2>2. Append(queue[c], f) \in Seq(Frame)
    BY <1>1, <1>2, <2>1, AppendFacts
  <2>3. queue'[c] = Append(queue[c], f) /\ \A d \in Conns \ {c} : queue'[d] = queue[d]
    BY <1>2, <2>1
  <2>4. queue' \in [Conns -> Seq(Frame)]
    BY <1>2, <2>1, <2>2
  <2>5. Grows(j)
    BY <1>1, <2>1, <2>3 DEF Grows
  <2>6. QED
    BY <1>1, <1>2, <2>1, <2>3, <2>4, <2>5
<1>5. QED
  BY <1>3, <1>4

LEMMA BreakFacts ==
    ASSUME TypeOK, NEW c \in Conns, NEW p \in Prefixes(queue[c]), Break(c, p)
    PROVE  /\ queue' \in [Conns -> Seq(Frame)] /\ lost' \in SUBSET Jobs /\ lost \subseteq lost'
           /\ broken' = broken \union {c}
           /\ \A d \in Conns : Shorter(queue'[d], queue[d], lost')
           /\ \A d \in Conns : queue[d] = <<>> => queue'[d] = <<>>
<1>1. Shorter(p, queue[c], CutFrames(queue[c], p)) /\ CutFrames(queue[c], p) \subseteq Jobs
  BY PrefixFacts DEF TypeOK
<1>2. queue'[c] = p /\ lost' = lost \union CutFrames(queue[c], p) /\ broken' = broken \union {c}
  BY DEF Break, TypeOK
<1>3. \A d \in Conns \ {c} : queue'[d] = queue[d]
  BY DEF Break, TypeOK
<1>4. p \in Seq(Frame)
  BY <1>1 DEF Shorter
<1>5. queue' \in [Conns -> Seq(Frame)]
  BY <1>4 DEF Break, TypeOK
<1>6. Shorter(queue'[c], queue[c], lost')
  BY <1>1, <1>2 DEF Shorter
<1>7. \A d \in Conns \ {c} : Shorter(queue'[d], queue[d], lost')
  BY <1>3, WholeFacts DEF TypeOK
<1>8. queue[c] = <<>> => p = <<>>
  BY <1>1 DEF Shorter
<1>9. QED
  BY <1>1, <1>2, <1>3, <1>5, <1>6, <1>7, <1>8 DEF TypeOK

\* What an action leaves alone.
LEMMA JobTypes ==
    ASSUME TypeOK, NEW j \in Jobs, JobNext(j)
    PROVE  /\ stage' \in [Jobs -> JobStage] /\ sent' \in [Jobs -> 0 .. MaxProgress]
           /\ queue' \in [Conns -> Seq(Frame)] /\ lost' \in SUBSET Jobs /\ lost \subseteq lost'
           /\ Grows(j)
           /\ \A i \in Jobs \ {j} : stage'[i] = stage[i]
           /\ stage[j] # "done"
           /\ stage'[j] = "done" =>
                  j \in lost' \/ \E c \in Conns, f \in Frame :
                                     /\ f.job = j /\ f.kind \in {"COMPLETE", "CANCELLED"}
                                     /\ queue'[c] = Append(queue[c], f)
           /\ UNCHANGED <<link, owner, broken, readerVars, conns, storeVars, noteVars, upstream,
                          crashVars, overlap>>
<1>1. PICK to \in JobStage : JobStep(j, to)
  <2>1. \A s \in JobStage : stage[j] = s => s \in JobStage
    OBVIOUS
  <2>2. stage[j] \in JobStage
    BY DEF TypeOK
  <2>3. QED
    BY <2>2 DEF JobNext, StartJob, EmitProgress, EmitComplete, ReturnCancelled, EmitFinal, JobStage
<1>2. /\ stage' = [stage EXCEPT ![j] = to]
      /\ UNCHANGED <<link, owner, broken, readerVars, conns, storeVars, noteVars, upstream,
                     crashVars, overlap>>
  BY <1>1 DEF JobStep
<1>3. /\ stage' \in [Jobs -> JobStage] /\ stage'[j] = to
      /\ \A i \in Jobs \ {j} : stage'[i] = stage[i]
  BY <1>2 DEF TypeOK
<1>4. sent' \in [Jobs -> 0 .. MaxProgress] /\ stage[j] # "done"
  <2>1. sent \in [Jobs -> 0 .. MaxProgress] /\ MaxProgress \in Nat
    BY HubBoundsAssumption DEF TypeOK
  <2>2. ASSUME NEW deltas \in BOOLEAN, EmitProgress(j, deltas)
        PROVE  sent' \in [Jobs -> 0 .. MaxProgress]
    <3>1. sent' = [sent EXCEPT ![j] = @ + 1] /\ sent[j] < MaxProgress
      BY <2>2 DEF EmitProgress
    <3>2. sent[j] + 1 \in 0 .. MaxProgress
      BY <2>1, <3>1
    <3>3. QED
      BY <2>1, <3>1, <3>2
  <2>3. (\E deltas \in BOOLEAN : EmitProgress(j, deltas)) \/ sent' = sent
    BY DEF JobNext, StartJob, EmitComplete, ReturnCancelled, EmitFinal
  <2>4. stage[j] # "done"
    BY DEF JobNext, StartJob, EmitProgress, EmitComplete, ReturnCancelled, EmitFinal
  <2>5. QED
    BY <2>1, <2>2, <2>3, <2>4
<1>5. CASE UNCHANGED <<queue, lost>> /\ ~ EmitFinal(j)
  <2>1. stage'[j] # "done"
    BY <1>3, <1>4, <1>5, <1>2
       DEF JobNext, StartJob, EmitProgress, EmitComplete, ReturnCancelled, JobStep, TypeOK
  <2>2. QED
    BY <1>2, <1>3, <1>4, <1>5, <2>1 DEF Grows, TypeOK
<1>6. CASE \E kind \in {"progress", "COMPLETE", "CANCELLED"}, deltas \in BOOLEAN :
              Send(j, kind, deltas) /\ (stage'[j] = "done" => kind # "progress")
  <2>1. PICK kind \in {"progress", "COMPLETE", "CANCELLED"}, deltas \in BOOLEAN :
           Send(j, kind, deltas) /\ (stage'[j] = "done" => kind # "progress")
    BY <1>6
  <2>2. QED
    BY <1>2, <1>3, <1>4, <2>1, SendFacts
<1>7. QED
  <2>1. CASE StartJob(j) \/ ReturnCancelled(j)
    <3>1. UNCHANGED <<queue, lost>> /\ ~ EmitFinal(j)
      BY <2>1 DEF StartJob, ReturnCancelled, EmitFinal
    <3>2. QED
      BY <1>5, <3>1
  <2>2. CASE \E deltas \in BOOLEAN : EmitProgress(j, deltas)
    <3>1. PICK deltas \in BOOLEAN : EmitProgress(j, deltas)
      BY <2>2
    <3>2. Send(j, "progress", deltas) /\ stage'[j] # "done"
      BY <1>4, <3>1 DEF EmitProgress, JobStep, TypeOK
    <3>3. QED
      BY <1>6, <3>2
  <2>3. CASE \E deltas \in BOOLEAN : EmitComplete(j, deltas)
    BY <1>6, <2>3 DEF EmitComplete
  <2>4. CASE EmitFinal(j)
    <3>1. FALSE \in BOOLEAN
      OBVIOUS
    <3>2. Send(j, "COMPLETE", FALSE) \/ Send(j, "CANCELLED", FALSE)
      BY <2>4 DEF EmitFinal
    <3>3. QED
      BY <1>6, <3>1, <3>2
  <2>5. QED
    BY <2>1, <2>2, <2>3, <2>4 DEF JobNext

\* A step that leaves the frames being processed, the maps and the notifications alone, and
\* may only lose frames.
Quiet ==
    /\ UNCHANGED <<storeVars, noteVars, hubRestarts, overlap, frame, relay>>
    /\ lost \subseteq lost'
    /\ \A d \in Conns : /\ Shorter(queue'[d], queue[d], lost')
                        /\ Busy(d) \/ Busy(d)' => handler'[d] = handler[d]
                        /\ owner'[d] = owner[d] \/ handler[d] = "none"
    /\ \A j \in Jobs : stage'[j] = "done" => stage[j] = "done"

LinkAction ==
    \/ LinkNext
    \/ \E c \in Conns : Track(c) \/ EndReader(c)
    \/ SetUpstream
    \/ \E a \in Agents : AgentRestart(a)
    \/ UNCHANGED vars

LEMMA StageFacts ==
    /\ {"none", "upgraded", "reading", "received", "progressed", "phased", "cleaning",
        "cleanedPhase", "cleanedDeltas", "evaluate", "unseen", "seen", "ended"} = HandlerStage
    /\ {"idle", "first", "second", "finishing", "cancelling", "done", "dead"} = JobStage
BY DEF HandlerStage, JobStage

LEMMA ConnFacts == NoConn \notin Conns /\ Conns \subseteq Nat
BY HubBoundsAssumption DEF NoConn, Conns

LEMMA QuietStep ==
    ASSUME TypeOK, LinkAction
    PROVE  TypeOK' /\ Quiet
<1>1. /\ \A d \in Conns : \A missing : Shorter(queue[d], queue[d], missing)
      /\ stage \in [Jobs -> JobStage] /\ link \in [Agents -> Conns \union {NoConn}]
      /\ owner \in [Conns -> Agents] /\ handler \in [Conns -> HandlerStage]
      /\ conns \in [Agents -> Conns \union {NoConn}] /\ crashes \in 0 .. MaxCrashes
  BY WholeFacts DEF TypeOK
<1>2. ASSUME NEW a \in Agents, NoticeDisconnect(a) PROVE TypeOK' /\ Quiet
  <2>1. link' \in [Agents -> Conns \union {NoConn}]
    BY <1>1, <1>2 DEF NoticeDisconnect
  <2>2. TypeOK'
    BY <1>2, <2>1 DEF NoticeDisconnect, TypeOK, jobVars, readerVars, storeVars, noteVars,
                      crashVars, historyVars
  <2>3. Quiet
    BY <1>1, <1>2 DEF NoticeDisconnect, Quiet, jobVars, readerVars, storeVars, noteVars,
                      crashVars, historyVars
  <2>4. QED
    BY <2>2, <2>3
<1>3. ASSUME NEW a \in Agents, NEW c \in Conns, Dial(a, c) PROVE TypeOK' /\ Quiet
  <2>1. /\ link' \in [Agents -> Conns \union {NoConn}] /\ owner' \in [Conns -> Agents]
        /\ handler' \in [Conns -> HandlerStage]
    BY <1>1, <1>3, StageFacts DEF Dial
  <2>2. TypeOK'
    BY <1>3, <2>1 DEF Dial, TypeOK, jobVars, storeVars, noteVars, crashVars, historyVars
  <2>3. \A d \in Conns : /\ Busy(d) \/ Busy(d)' => handler'[d] = handler[d]
                         /\ owner'[d] = owner[d] \/ handler[d] = "none"
    BY <1>1, <1>3 DEF Dial, Busy
  <2>4. Quiet
    BY <1>1, <1>3, <2>3 DEF Dial, Quiet, jobVars, storeVars, noteVars, crashVars, historyVars
  <2>5. QED
    BY <2>2, <2>4
<1>4. ASSUME NEW c \in Conns, Disconnect(c) PROVE TypeOK' /\ Quiet
  <2>1. /\ queue' \in [Conns -> Seq(Frame)] /\ lost' \in SUBSET Jobs /\ lost \subseteq lost'
        /\ broken' = broken \union {c} /\ \A d \in Conns : Shorter(queue'[d], queue[d], lost')
    BY <1>4, BreakFacts DEF Disconnect
  <2>2. TypeOK'
    BY <1>4, <2>1 DEF Disconnect, TypeOK, jobVars, readerVars, storeVars, noteVars, crashVars
  <2>3. Quiet
    BY <1>4, <2>1 DEF Disconnect, Quiet, jobVars, readerVars, storeVars, noteVars, crashVars
  <2>4. QED
    BY <2>2, <2>3
<1>5. ASSUME NEW c \in Conns, Track(c) PROVE TypeOK' /\ Quiet
  <2>1. owner[c] \in Agents /\ conns[owner[c]] \in Conns \union {NoConn}
    BY <1>1
  <2>2. /\ conns' \in [Agents -> Conns \union {NoConn}] /\ handler' \in [Conns -> HandlerStage]
        /\ \A d \in Conns : Busy(d) \/ Busy(d)' => handler'[d] = handler[d]
    BY <1>1, <1>5, <2>1, StageFacts DEF Track, Busy
  <2>3. CASE conns[owner[c]] = NoConn
    <3>1. UNCHANGED <<queue, broken, lost>>
      BY <1>5, <2>3 DEF Track
    <3>2. TypeOK'
      BY <1>5, <2>2, <3>1 DEF Track, TypeOK, jobVars, storeVars, noteVars, crashVars
    <3>3. Quiet
      BY <1>1, <1>5, <2>2, <3>1 DEF Track, Quiet, jobVars, storeVars, noteVars, crashVars
    <3>4. QED
      BY <3>2, <3>3
  <2>4. CASE conns[owner[c]] # NoConn
    <3>1. PICK survives \in Prefixes(queue[conns[owner[c]]]) : Break(conns[owner[c]], survives)
      BY <1>5, <2>4 DEF Track
    <3>2. /\ queue' \in [Conns -> Seq(Frame)] /\ lost' \in SUBSET Jobs /\ lost \subseteq lost'
          /\ broken' = broken \union {conns[owner[c]]}
          /\ \A d \in Conns : Shorter(queue'[d], queue[d], lost')
      BY <2>1, <2>4, <3>1, BreakFacts
    <3>3. TypeOK'
      BY <1>5, <2>1, <2>2, <2>4, <3>2 DEF Track, TypeOK, jobVars, storeVars, noteVars, crashVars
    <3>4. Quiet
      BY <1>5, <2>2, <3>2 DEF Track, Quiet, jobVars, storeVars, noteVars, crashVars
    <3>5. QED
      BY <3>3, <3>4
  <2>5. QED
    BY <2>3, <2>4
<1>6. ASSUME NEW c \in Conns, EndReader(c) PROVE TypeOK' /\ Quiet
  <2>1. /\ conns' \in [Agents -> Conns \union {NoConn}] /\ handler' \in [Conns -> HandlerStage]
        /\ \A d \in Conns : Busy(d) \/ Busy(d)' => handler'[d] = handler[d]
    BY <1>1, <1>6, StageFacts DEF EndReader, Untrack, Busy
  <2>2. TypeOK'
    BY <1>6, <2>1 DEF EndReader, TypeOK, jobVars, linkVars, storeVars, noteVars, crashVars,
                      historyVars
  <2>3. Quiet
    BY <1>1, <1>6, <2>1 DEF EndReader, Quiet, jobVars, linkVars, storeVars, noteVars, crashVars,
                            historyVars
  <2>4. QED
    BY <2>2, <2>3
<1>7. ASSUME SetUpstream PROVE TypeOK' /\ Quiet
  <2>1. upstream' \in BOOLEAN
    <3>1. upstream' = TRUE
      BY <1>7 DEF SetUpstream
    <3>2. QED
      BY <3>1, Zenon
  <2>2. TypeOK'
    BY <1>7, <2>1 DEF SetUpstream, TypeOK, jobVars, linkVars, readerVars, storeVars, noteVars,
                      crashVars, historyVars
  <2>3. Quiet
    BY <1>1, <1>7 DEF SetUpstream, Quiet, jobVars, linkVars, readerVars, storeVars, noteVars,
                      crashVars, historyVars
  <2>4. QED
    BY <2>2, <2>3
<1>8. ASSUME NEW a \in Agents, AgentRestart(a) PROVE TypeOK' /\ Quiet
  <2>1. /\ stage' \in [Jobs -> JobStage] /\ link' \in [Agents -> Conns \union {NoConn}]
        /\ \A j \in Jobs : stage'[j] = "done" => stage[j] = "done"
    BY <1>1, <1>8, StageFacts DEF AgentRestart
  <2>2. crashes' \in 0 .. MaxCrashes
    BY <1>1, <1>8, HubBoundsAssumption DEF AgentRestart
  <2>3. CASE link[a] = NoConn
    <3>1. UNCHANGED <<queue, broken, lost>>
      BY <1>8, <2>3 DEF AgentRestart
    <3>2. TypeOK'
      BY <1>8, <2>1, <2>2, <3>1 DEF AgentRestart, TypeOK, readerVars, storeVars, noteVars
    <3>3. Quiet
      BY <1>1, <1>8, <2>1, <3>1 DEF AgentRestart, Quiet, readerVars, storeVars, noteVars
    <3>4. QED
      BY <3>2, <3>3
  <2>4. CASE link[a] # NoConn
    <3>1. PICK survives \in Prefixes(queue[link[a]]) : Break(link[a], survives)
      BY <1>8, <2>4 DEF AgentRestart
    <3>2. link[a] \in Conns
      BY <1>1, <2>4
    <3>3. /\ queue' \in [Conns -> Seq(Frame)] /\ lost' \in SUBSET Jobs /\ lost \subseteq lost'
          /\ broken' = broken \union {link[a]}
          /\ \A d \in Conns : Shorter(queue'[d], queue[d], lost')
      BY <3>1, <3>2, BreakFacts
    <3>4. TypeOK'
      BY <1>8, <2>1, <2>2, <3>2, <3>3 DEF AgentRestart, TypeOK, readerVars, storeVars, noteVars
    <3>5. Quiet
      BY <1>8, <2>1, <3>3 DEF AgentRestart, Quiet, readerVars, storeVars, noteVars
    <3>6. QED
      BY <3>4, <3>5
  <2>5. QED
    BY <2>3, <2>4
<1>9. ASSUME UNCHANGED vars PROVE TypeOK' /\ Quiet
  <2>1. TypeOK'
    BY <1>9 DEF vars, TypeOK, jobVars, linkVars, readerVars, storeVars, noteVars, crashVars,
                historyVars
  <2>2. Quiet
    BY <1>1, <1>9 DEF vars, Quiet, jobVars, linkVars, readerVars, storeVars, noteVars, crashVars,
                      historyVars
  <2>3. QED
    BY <2>1, <2>2
<1>10. QED
  BY <1>2, <1>3, <1>4, <1>5, <1>6, <1>7, <1>8, <1>9 DEF LinkAction, LinkNext

\* A step of processFrame is about its job only.
LEMMA ReaderFacts ==
    ASSUME TypeOK, NEW c \in Conns, ProcessFrame(c)
    PROVE  /\ TypeOK'
           /\ UNCHANGED <<jobVars, linkVars, conns, upstream, crashVars, historyVars>>
           /\ Busy(c) /\ JobOf(c) \in Jobs
           /\ \A d \in Conns \ {c} : handler'[d] = handler[d] /\ frame'[d] = frame[d]
           /\ handler'[c] = "reading" \/ (Busy(c)' /\ frame'[c] = frame[c])
           /\ \A k \in Jobs \ {JobOf(c)} :
                  /\ k \in activeProgress' <=> k \in activeProgress
                  /\ k \in smartDeltas' <=> k \in smartDeltas
                  /\ k \in lastPhase' <=> k \in lastPhase
                  /\ k \in knownJobs' <=> k \in knownJobs
                  /\ started'[k] = started[k] /\ completed'[k] = completed[k]
<1> DEFINE Inner == HandlerStage \ {"none", "upgraded", "reading", "ended"}
<1>1. /\ handler \in [Conns -> HandlerStage] /\ frame \in [Conns -> Frame]
      /\ relay \in [Conns -> BOOLEAN] /\ JobOf(c) \in Jobs
      /\ activeProgress \in SUBSET Jobs /\ smartDeltas \in SUBSET Jobs /\ lastPhase \in SUBSET Jobs
      /\ knownJobs \in SUBSET Jobs /\ started \in [Jobs -> Nat] /\ completed \in [Jobs -> Nat]
  BY FrameFacts DEF TypeOK, JobOf
<1>2. PICK from \in Inner, to \in Inner \union {"reading"} : ReaderStep(c, from, to)
  BY StageFacts
     DEF ProcessFrame, StoreProgress, StoreSmartDeltas, StorePhaseTransition, CleanupJobPhase,
         CleanupSmartDeltas, CleanupProgress, LookupKnown, MarkStarted, MarkComplete
<1>3. /\ handler[c] = from /\ handler' = [handler EXCEPT ![c] = to]
      /\ UNCHANGED <<jobVars, linkVars, conns, upstream, crashVars, historyVars>>
      /\ to # "reading" => UNCHANGED <<frame, relay>>
      /\ to = "reading" => /\ frame' = [frame EXCEPT ![c] = AnyFrame]
                           /\ relay' = [relay EXCEPT ![c] = FALSE]
  BY <1>2 DEF ReaderStep
<1>4. /\ handler' \in [Conns -> HandlerStage] /\ handler'[c] = to
      /\ \A d \in Conns \ {c} : handler'[d] = handler[d]
  BY <1>1, <1>3, StageFacts
<1>5. frame' \in [Conns -> Frame] /\ \A d \in Conns \ {c} : frame'[d] = frame[d]
  BY <1>1, <1>3, FrameFacts
<1>6. relay' \in [Conns -> BOOLEAN]
  <2>1. FALSE \in BOOLEAN
    OBVIOUS
  <2>2. [relay EXCEPT ![c] = FALSE] \in [Conns -> BOOLEAN]
    BY <1>1, <2>1, Zenon
  <2>3. CASE to = "reading"
    BY <1>3, <2>2, <2>3, Zenon
  <2>4. CASE to # "reading"
    <3>1. relay' = relay
      BY <1>3, <2>4
    <3>2. QED
      BY <1>1, <3>1, Zenon
  <2>5. QED
    BY <2>3, <2>4
<1>7. Busy(c)
  BY <1>2, <1>3 DEF Busy
<1>8. handler'[c] = "reading" \/ (Busy(c)' /\ frame'[c] = frame[c])
  <2>1. to # "reading" => frame'[c] = frame[c]
    BY <1>3
  <2>2. to # "reading" => Busy(c)'
    <3>1. to # "reading" => to \notin {"none", "upgraded", "reading", "ended"}
      BY <1>2
    <3>2. QED
      BY <1>4, <3>1 DEF Busy
  <2>3. QED
    BY <1>4, <2>1, <2>2
<1>9. /\ activeProgress' \in SUBSET Jobs
      /\ \A k \in Jobs \ {JobOf(c)} : k \in activeProgress' <=> k \in activeProgress
  BY <1>1 DEF ProcessFrame, StoreProgress, StoreSmartDeltas, StorePhaseTransition, CleanupJobPhase,
              CleanupSmartDeltas, CleanupProgress, LookupKnown, MarkStarted, MarkComplete, storeVars
<1>10. /\ smartDeltas' \in SUBSET Jobs
       /\ \A k \in Jobs \ {JobOf(c)} : k \in smartDeltas' <=> k \in smartDeltas
  BY <1>1 DEF ProcessFrame, StoreProgress, StoreSmartDeltas, StorePhaseTransition, CleanupJobPhase,
              CleanupSmartDeltas, CleanupProgress, LookupKnown, MarkStarted, MarkComplete, storeVars
<1>11. /\ lastPhase' \in SUBSET Jobs
       /\ \A k \in Jobs \ {JobOf(c)} : k \in lastPhase' <=> k \in lastPhase
  BY <1>1 DEF ProcessFrame, StoreProgress, StoreSmartDeltas, StorePhaseTransition, CleanupJobPhase,
              CleanupSmartDeltas, CleanupProgress, LookupKnown, MarkStarted, MarkComplete, storeVars
<1>12. /\ knownJobs' \in SUBSET Jobs /\ started' \in [Jobs -> Nat] /\ completed' \in [Jobs -> Nat]
       /\ \A k \in Jobs \ {JobOf(c)} : /\ k \in knownJobs' <=> k \in knownJobs
                                       /\ started'[k] = started[k] /\ completed'[k] = completed[k]
  <2>1. CASE MarkStarted(c)
    BY <1>1, <2>1 DEF MarkStarted
  <2>2. CASE MarkComplete(c)
    BY <1>1, <2>2 DEF MarkComplete, Forgotten
  <2>3. CASE ~ MarkStarted(c) /\ ~ MarkComplete(c)
    BY <1>1, <2>3 DEF ProcessFrame, StoreProgress, StoreSmartDeltas, StorePhaseTransition,
                      CleanupJobPhase, CleanupSmartDeltas, CleanupProgress, LookupKnown, noteVars
  <2>4. QED
    BY <2>1, <2>2, <2>3
<1>13. TypeOK'
  BY <1>3, <1>4, <1>5, <1>6, <1>9, <1>10, <1>11, <1>12
     DEF TypeOK, jobVars, linkVars, crashVars, historyVars
<1>14. QED
  BY <1>1, <1>3, <1>4, <1>5, <1>7, <1>8, <1>9, <1>10, <1>11, <1>12, <1>13

LEMMA ReadFacts ==
    ASSUME TypeOK, NEW c \in Conns, ReadMessage(c)
    PROVE  /\ TypeOK'
           /\ handler[c] = "reading" /\ handler'[c] = "received" /\ queue[c] # <<>>
           /\ queue'[c] = Tail(queue[c]) /\ frame'[c] = queue[c][1] /\ frame'[c] \in Frame
           /\ \A d \in Conns \ {c} : /\ handler'[d] = handler[d] /\ frame'[d] = frame[d]
                                     /\ queue'[d] = queue[d]
           /\ overlap \subseteq overlap'
           /\ owner[c] \notin overlap' =>
                  \A d \in Conns \ {c} : owner[d] = owner[c] => ~ Live(d)
           /\ UNCHANGED <<jobVars, link, owner, broken, conns, storeVars, noteVars, upstream,
                          crashVars, lost>>
<1>1. /\ handler \in [Conns -> HandlerStage] /\ frame \in [Conns -> Frame]
      /\ queue \in [Conns -> Seq(Frame)] /\ owner \in [Conns -> Agents]
      /\ overlap \in SUBSET Agents
  BY DEF TypeOK
<1>2. /\ handler[c] = "reading" /\ queue[c] # <<>>
      /\ frame' = [frame EXCEPT ![c] = Head(queue[c])]
      /\ queue' = [queue EXCEPT ![c] = Tail(@)]
      /\ handler' = [handler EXCEPT ![c] = "received"]
      /\ UNCHANGED <<jobVars, link, owner, broken, conns, storeVars, noteVars, upstream,
                     crashVars, lost>>
  BY DEF ReadMessage
<1>3. /\ Tail(queue[c]) \in Seq(Frame) /\ Head(queue[c]) \in Frame
      /\ Head(queue[c]) = queue[c][1]
  BY <1>1, <1>2, TailFacts
<1>4. /\ queue' \in [Conns -> Seq(Frame)] /\ queue'[c] = Tail(queue[c])
      /\ \A d \in Conns \ {c} : queue'[d] = queue[d]
  BY <1>1, <1>2, <1>3
<1>5. /\ frame' \in [Conns -> Frame] /\ frame'[c] = Head(queue[c])
      /\ \A d \in Conns \ {c} : frame'[d] = frame[d]
  BY <1>1, <1>2, <1>3
<1>6. /\ handler' \in [Conns -> HandlerStage] /\ handler'[c] = "received"
      /\ \A d \in Conns \ {c} : handler'[d] = handler[d]
  BY <1>1, <1>2, StageFacts
<1>7. /\ overlap' \in SUBSET Agents /\ overlap \subseteq overlap'
      /\ owner[c] \notin overlap' => \A d \in Conns \ {c} : owner[d] = owner[c] => ~ Live(d)
  BY <1>1 DEF ReadMessage, Live
<1>8. relay' \in [Conns -> BOOLEAN]
  <2>1. relay' = [relay EXCEPT ![c] = upstream]
    BY DEF ReadMessage
  <2>2. relay \in [Conns -> BOOLEAN] /\ upstream \in BOOLEAN
    BY DEF TypeOK
  <2>3. QED
    BY <2>1, <2>2, Zenon
<1>9. TypeOK'
  BY <1>2, <1>4, <1>5, <1>6, <1>7, <1>8 DEF TypeOK, jobVars, storeVars, noteVars, crashVars
<1>10. QED
  BY <1>2, <1>3, <1>4, <1>5, <1>6, <1>7, <1>9

LEMMA HubRestartFacts ==
    ASSUME TypeOK, ConnInv, HubRestart
    PROVE  /\ TypeOK'
           /\ \A c \in Conns : /\ queue'[c] = <<>>
                               /\ handler'[c] = IF handler[c] = "none" THEN "none" ELSE "ended"
           /\ broken' = broken \union {c \in Conns : handler[c] # "none"}
           /\ activeProgress' = {} /\ smartDeltas' = {} /\ lastPhase' = {}
           /\ crashes' = crashes + 1 /\ hubRestarts' = hubRestarts + 1
           /\ UNCHANGED <<link, owner>>
<1>1. /\ handler \in [Conns -> HandlerStage] /\ hubRestarts \in Nat /\ crashes \in Nat
      /\ lost \in SUBSET Jobs /\ hubRestarts =< crashes /\ broken \in SUBSET Conns
  BY HubBoundsAssumption DEF TypeOK, ConnInv
<1>2. /\ queue' = [c \in Conns |-> <<>>] /\ frame' = [c \in Conns |-> AnyFrame]
      /\ handler' = [c \in Conns |-> IF handler[c] = "none" THEN "none" ELSE "ended"]
      /\ conns' = [a \in Agents |-> NoConn] /\ relay' = [c \in Conns |-> FALSE]
      /\ crashes < MaxCrashes /\ crashes' = crashes + 1 /\ hubRestarts' = hubRestarts + 1
      /\ lost' = lost \union {j \in Jobs : InTransit(j)} /\ upstream' = FALSE
      /\ broken' = broken \union {c \in Conns : handler[c] # "none"}
      /\ activeProgress' = {} /\ smartDeltas' = {} /\ lastPhase' = {} /\ knownJobs' = {}
      /\ UNCHANGED <<jobVars, link, owner, started, completed, overlap>>
  BY DEF HubRestart
<1>3. /\ queue' \in [Conns -> Seq(Frame)] /\ frame' \in [Conns -> Frame]
      /\ handler' \in [Conns -> HandlerStage] /\ conns' \in [Agents -> Conns \union {NoConn}]
  BY <1>1, <1>2, FrameFacts, StageFacts
<1>4. crashes' \in 0 .. MaxCrashes /\ hubRestarts' \in 0 .. MaxCrashes
  BY <1>1, <1>2, HubBoundsAssumption
<1>5. lost' \in SUBSET Jobs /\ broken' \in SUBSET Conns
  BY <1>1, <1>2
<1>6. relay' \in [Conns -> BOOLEAN] /\ upstream' \in BOOLEAN
  <2>1. FALSE \in BOOLEAN
    OBVIOUS
  <2>2. relay' = [c \in Conns |-> FALSE] /\ upstream' = FALSE
    BY <1>2
  <2>3. relay' \in [Conns -> BOOLEAN]
    BY <2>1, <2>2, Zenon
  <2>4. upstream' \in BOOLEAN
    BY <2>2, Zenon
  <2>5. QED
    BY <2>3, <2>4
<1>7. TypeOK'
  BY <1>2, <1>3, <1>4, <1>5, <1>6 DEF TypeOK, jobVars
<1>8. QED
  BY <1>2, <1>7

(***************************************************************************)
(* The invariants, each over every kind of step.                           *)
(***************************************************************************)

\* The parts of TypeOK the proofs below use.
LEMMA Known ==
    ASSUME TypeOK
    PROVE  /\ stage \in [Jobs -> JobStage] /\ link \in [Agents -> Conns \union {NoConn}]
           /\ owner \in [Conns -> Agents] /\ queue \in [Conns -> Seq(Frame)]
           /\ handler \in [Conns -> HandlerStage] /\ frame \in [Conns -> Frame]
           /\ conns \in [Agents -> Conns \union {NoConn}]
           /\ started \in [Jobs -> Nat] /\ completed \in [Jobs -> Nat]
           /\ crashes \in Nat /\ hubRestarts \in Nat
           /\ \A c \in Conns : \A n \in 1 .. Len(queue[c]) : queue[c][n] \in Frame
           /\ \A c \in Conns : JobOf(c) \in Jobs /\ Len(queue[c]) \in Nat
<1>1. /\ queue \in [Conns -> Seq(Frame)] /\ frame \in [Conns -> Frame]
  BY DEF TypeOK
<1>2. \A c \in Conns : queue[c] \in Seq(Frame) /\ frame[c] \in Frame
  BY <1>1
<1>3. \A c \in Conns : Len(queue[c]) \in Nat /\ \A n \in 1 .. Len(queue[c]) : queue[c][n] \in Frame
  BY <1>2
<1>4. \A c \in Conns : JobOf(c) \in Jobs
  BY <1>2, FrameFacts DEF JobOf
<1>5. QED
  BY <1>1, <1>3, <1>4, HubBoundsAssumption DEF TypeOK

StepKinds ==
    \/ LinkAction
    \/ \E j \in Jobs : JobNext(j)
    \/ \E c \in Conns : ReadMessage(c) \/ ProcessFrame(c)
    \/ HubRestart

LEMMA Kinds == ASSUME [Next]_vars PROVE StepKinds
BY DEF Next, StepKinds, LinkAction, ReaderNext

LEMMA TypeStep == ASSUME TypeOK, ConnInv, [Next]_vars PROVE TypeOK'
<1>1. ASSUME NEW j \in Jobs, JobNext(j) PROVE TypeOK'
  BY <1>1, JobTypes DEF TypeOK, readerVars, storeVars, noteVars, crashVars
<1>2. CASE LinkAction
  BY <1>2, QuietStep
<1>3. ASSUME NEW c \in Conns, ReadMessage(c) PROVE TypeOK'
  BY <1>3, ReadFacts
<1>4. ASSUME NEW c \in Conns, ProcessFrame(c) PROVE TypeOK'
  BY <1>4, ReaderFacts
<1>5. CASE HubRestart
  BY <1>5, HubRestartFacts
<1>6. QED
  BY <1>1, <1>2, <1>3, <1>4, <1>5, Kinds DEF StepKinds

LEMMA ShorterFacts ==
    ASSUME NEW p, NEW q \in Seq(Frame), NEW missing, Shorter(p, q, missing)
    PROVE  q = <<>> => p = <<>>
BY DEF Shorter

LEMMA ConnStep == ASSUME TypeOK, ConnInv, [Next]_vars PROVE ConnInv'
<1>1. /\ owner \in [Conns -> Agents] /\ queue \in [Conns -> Seq(Frame)]
      /\ handler \in [Conns -> HandlerStage] /\ link \in [Agents -> Conns \union {NoConn}]
      /\ conns \in [Agents -> Conns \union {NoConn}]
      /\ crashes \in Nat /\ hubRestarts \in Nat
      /\ NoConn \notin Conns
  BY Known, ConnFacts
<1>2. /\ hubRestarts =< crashes
      /\ \A c \in Conns : /\ ~ Live(c) => queue[c] = <<>>
                          /\ handler[c] = "ended" => c \in broken
      /\ \A a \in Agents : link[a] # NoConn => owner[link[a]] = a /\ handler[link[a]] # "none"
  BY DEF ConnInv
<1>3. ASSUME NEW a \in Agents, NEW c \in Conns, Dial(a, c) PROVE ConnInv'
  <2>1. /\ link' = [link EXCEPT ![a] = c] /\ owner' = [owner EXCEPT ![c] = a]
        /\ handler' = [handler EXCEPT ![c] = "upgraded"] /\ handler[c] = "none"
        /\ UNCHANGED <<queue, broken, crashVars>>
    BY <1>3 DEF Dial
  <2>2. hubRestarts' =< crashes'
    BY <1>2, <2>1 DEF crashVars
  <2>3. \A d \in Conns : (~ Live(d) => queue[d] = <<>>)'
    BY <1>1, <1>2, <2>1 DEF Live
  <2>4. \A d \in Conns : handler'[d] = "ended" => d \in broken'
    BY <1>1, <1>2, <2>1
  <2>5. ASSUME NEW b \in Agents, link'[b] # NoConn
        PROVE  owner'[link'[b]] = b /\ handler'[link'[b]] # "none"
    <3>1. CASE b = a
      BY <1>1, <2>1, <3>1
    <3>2. CASE b # a
      <4>1. link'[b] = link[b] /\ link[b] \in Conns /\ link[b] # c
        BY <1>1, <1>2, <2>1, <2>5, <3>2
      <4>2. QED
        BY <1>1, <1>2, <2>1, <2>5, <4>1
    <3>3. QED
      BY <3>1, <3>2
  <2>6. QED
    BY <2>2, <2>3, <2>4, <2>5 DEF ConnInv
<1>4. ASSUME LinkAction, ~ \E a \in Agents, c \in Conns : Dial(a, c) PROVE ConnInv'
  <2>1. Quiet
    BY <1>4, QuietStep
  <2>2. \A d \in Conns : queue[d] = <<>> => queue'[d] = <<>>
    BY <1>1, <2>1, ShorterFacts DEF Quiet
  <2>3. owner' = owner /\ hubRestarts' =< crashes' /\ broken \subseteq broken'
    BY <1>1, <1>2, <1>4
       DEF LinkAction, LinkNext, NoticeDisconnect, Disconnect, Break, Track, EndReader, SetUpstream,
           AgentRestart, vars, crashVars, linkVars
  <2>4. \A b \in Agents : link'[b] # NoConn => link'[b] = link[b]
    BY <1>1, <1>4
       DEF LinkAction, LinkNext, NoticeDisconnect, Disconnect, Track, EndReader, SetUpstream,
           AgentRestart, vars, linkVars
  <2>5. \/ handler' = handler
        \/ \E c \in Conns : /\ handler[c] = "upgraded" /\ handler' = [handler EXCEPT ![c] = "reading"]
        \/ \E c \in Conns : /\ c \in broken /\ queue[c] = <<>> /\ handler[c] = "reading"
                            /\ handler' = [handler EXCEPT ![c] = "ended"]
    BY <1>4 DEF LinkAction, LinkNext, NoticeDisconnect, Disconnect, Track, EndReader, SetUpstream,
                AgentRestart, vars, readerVars
  <2>6. \A d \in Conns : /\ handler'[d] = "none" <=> handler[d] = "none"
                         /\ handler'[d] = "ended" => \/ handler[d] = "ended"
                                                     \/ d \in broken /\ queue[d] = <<>>
    BY <1>1, <2>5
  <2>7. QED
    BY <1>1, <1>2, <2>2, <2>3, <2>4, <2>6 DEF ConnInv, Live
<1>5. ASSUME NEW j \in Jobs, JobNext(j) PROVE ConnInv'
  <2>1. Grows(j) /\ UNCHANGED <<link, owner, broken, readerVars, crashVars>>
    BY <1>5, JobTypes
  <2>2. link[AgentOf[j]] \in Conns /\ link[AgentOf[j]] \notin broken => Live(link[AgentOf[j]])
    BY <1>1, <1>2, AgentOfAssumption DEF Live
  <2>3. \A d \in Conns : queue'[d] = queue[d] \/ Live(d)
    BY <2>1, <2>2 DEF Grows
  <2>4. QED
    BY <1>2, <2>1, <2>3 DEF ConnInv, Live, readerVars, crashVars
<1>6. ASSUME NEW c \in Conns, ReadMessage(c) PROVE ConnInv'
  <2>1. /\ handler[c] = "reading" /\ handler'[c] = "received"
        /\ \A d \in Conns \ {c} : handler'[d] = handler[d] /\ queue'[d] = queue[d]
        /\ UNCHANGED <<link, owner, broken, crashVars>>
    BY <1>6, ReadFacts
  <2>2. \A d \in Conns : (~ Live(d) => queue[d] = <<>>)'
    BY <1>2, <2>1 DEF Live
  <2>3. \A d \in Conns : /\ handler'[d] = "ended" => handler[d] = "ended"
                         /\ handler'[d] = "none" => handler[d] = "none"
    BY <2>1
  <2>4. QED
    BY <1>1, <1>2, <2>1, <2>2, <2>3 DEF ConnInv, crashVars
<1>7. ASSUME NEW c \in Conns, ProcessFrame(c) PROVE ConnInv'
  <2>1. /\ Busy(c) /\ (handler'[c] = "reading" \/ Busy(c)')
        /\ \A d \in Conns \ {c} : handler'[d] = handler[d]
        /\ UNCHANGED <<linkVars, crashVars>>
    BY <1>7, ReaderFacts
  <2>2. \A d \in Conns : /\ handler'[d] = "ended" <=> handler[d] = "ended"
                         /\ handler'[d] = "none" <=> handler[d] = "none"
    BY <2>1 DEF Busy
  <2>3. QED
    BY <1>1, <1>2, <2>1, <2>2 DEF ConnInv, Live, linkVars, crashVars
<1>8. ASSUME HubRestart PROVE ConnInv'
  <2>1. /\ \A c \in Conns : /\ queue'[c] = <<>>
                            /\ handler'[c] = IF handler[c] = "none" THEN "none" ELSE "ended"
        /\ broken' = broken \union {c \in Conns : handler[c] # "none"}
        /\ crashes' = crashes + 1 /\ hubRestarts' = hubRestarts + 1
        /\ UNCHANGED <<link, owner>>
    BY <1>8, HubRestartFacts
  <2>2. hubRestarts' =< crashes'
    BY <1>1, <1>2, <2>1
  <2>3. QED
    BY <1>1, <1>2, <2>1, <2>2 DEF ConnInv
<1>9. QED
  BY <1>3, <1>4, <1>5, <1>6, <1>7, <1>8, Kinds DEF StepKinds

LEMMA OpenReaderStep ==
    ASSUME TypeOK, ConnInv, OpenReaderIsTracked, [Next]_vars
    PROVE  OpenReaderIsTracked'
<1>1. /\ owner \in [Conns -> Agents] /\ handler \in [Conns -> HandlerStage]
      /\ conns \in [Agents -> Conns \union {NoConn}] /\ NoConn \notin Conns
  BY Known, ConnFacts
<1>2. /\ \A d \in Conns : Reads(d) /\ d \notin broken => conns[owner[d]] = d
      /\ \A d \in Conns : handler[d] = "ended" => d \in broken
  BY DEF OpenReaderIsTracked, ConnInv
<1>3. ASSUME NEW a \in Agents, NEW c \in Conns, Dial(a, c) PROVE OpenReaderIsTracked'
  <2>1. /\ owner' = [owner EXCEPT ![c] = a] /\ handler' = [handler EXCEPT ![c] = "upgraded"]
        /\ UNCHANGED <<conns, broken>>
    BY <1>3 DEF Dial
  <2>2. QED
    BY <1>1, <1>2, <2>1 DEF OpenReaderIsTracked, Reads
<1>4. ASSUME NEW c \in Conns, Track(c) PROVE OpenReaderIsTracked'
  <2>1. /\ conns' = [conns EXCEPT ![owner[c]] = c] /\ handler' = [handler EXCEPT ![c] = "reading"]
        /\ owner' = owner
        /\ IF conns[owner[c]] = NoConn THEN broken' = broken
           ELSE broken' = broken \union {conns[owner[c]]}
    BY <1>4 DEF Track, Break
  <2>2. SUFFICES ASSUME NEW d \in Conns, Reads(d)', d \notin broken'
                 PROVE  conns'[owner[d]] = d
    BY <2>1 DEF OpenReaderIsTracked
  <2>3. CASE d = c
    BY <1>1, <2>1, <2>3
  <2>4. CASE d # c
    <3>1. handler'[d] = handler[d] /\ d \notin broken
      BY <1>1, <2>1, <2>2, <2>4
    <3>2. conns[owner[d]] = d
      BY <1>2, <2>2, <3>1 DEF Reads
    <3>3. owner[d] # owner[c]
      BY <1>1, <2>1, <2>2, <2>4, <3>2
    <3>4. QED
      BY <1>1, <2>1, <3>2, <3>3
  <2>5. QED
    BY <2>3, <2>4
<1>5. ASSUME NEW c \in Conns, EndReader(c) PROVE OpenReaderIsTracked'
  <2>1. /\ handler' = [handler EXCEPT ![c] = "ended"] /\ UNCHANGED <<owner, broken>> /\ c \in broken
        /\ conns' = [conns EXCEPT ![owner[c]] = IF @ = c THEN NoConn ELSE @]
    BY <1>5 DEF EndReader, Untrack, linkVars
  <2>2. \A d \in Conns \ {c} : conns[owner[d]] = d => conns'[owner[d]] = d
    BY <1>1, <2>1
  <2>3. QED
    BY <1>1, <1>2, <2>1, <2>2 DEF OpenReaderIsTracked, Reads
<1>6. ASSUME UNCHANGED <<owner, handler, conns>>, broken \subseteq broken'
      PROVE  OpenReaderIsTracked'
  BY <1>2, <1>6 DEF OpenReaderIsTracked, Reads
<1>7. ASSUME LinkAction, ~ \E a \in Agents, c \in Conns : Dial(a, c), ~ \E c \in Conns : Track(c),
             ~ \E c \in Conns : EndReader(c)
      PROVE  UNCHANGED <<owner, handler, conns>> /\ broken \subseteq broken'
  BY <1>7 DEF LinkAction, LinkNext, NoticeDisconnect, Disconnect, Break, SetUpstream,
              AgentRestart, vars, linkVars, readerVars
<1>8. ASSUME NEW j \in Jobs, JobNext(j) PROVE OpenReaderIsTracked'
  <2>1. UNCHANGED <<owner, broken, readerVars, conns>>
    BY <1>8, JobTypes
  <2>2. QED
    BY <1>6, <2>1 DEF readerVars
<1>9. ASSUME NEW c \in Conns, ReadMessage(c) PROVE OpenReaderIsTracked'
  <2>1. /\ handler[c] = "reading" /\ handler'[c] = "received"
        /\ \A d \in Conns \ {c} : handler'[d] = handler[d]
        /\ UNCHANGED <<owner, broken, conns>>
    BY <1>9, ReadFacts
  <2>2. \A d \in Conns : Reads(d)' => Reads(d)
    BY <2>1 DEF Reads
  <2>3. QED
    BY <1>2, <2>1, <2>2 DEF OpenReaderIsTracked
<1>10. ASSUME NEW c \in Conns, ProcessFrame(c) PROVE OpenReaderIsTracked'
  <2>1. /\ Busy(c) /\ \A d \in Conns \ {c} : handler'[d] = handler[d]
        /\ UNCHANGED <<linkVars, conns>>
    BY <1>10, ReaderFacts
  <2>2. \A d \in Conns : Reads(d)' => Reads(d)
    BY <2>1 DEF Reads, Busy
  <2>3. QED
    BY <1>2, <2>1, <2>2 DEF OpenReaderIsTracked, linkVars
<1>11. ASSUME HubRestart PROVE OpenReaderIsTracked'
  <2>1. \A d \in Conns : handler'[d] \in {"none", "ended"}
    BY <1>11, HubRestartFacts
  <2>2. QED
    BY <2>1 DEF OpenReaderIsTracked, Reads
<1>12. QED
  BY <1>3, <1>4, <1>5, <1>6, <1>7, <1>8, <1>9, <1>10, <1>11, Kinds DEF StepKinds

LEMMA FrameStep ==
    ASSUME TypeOK, ConnInv, FrameInv, [Next]_vars
    PROVE  FrameInv'
<1>1. /\ queue \in [Conns -> Seq(Frame)] /\ \A d \in Conns : Len(queue[d]) \in Nat
      /\ \A d \in Conns : handler[d] = "none" => queue[d] = <<>>
      /\ \A b \in Agents : link[b] # NoConn => owner[link[b]] = b
      /\ NoConn \notin Conns
  BY Known, ConnFacts DEF ConnInv, Live
<1>2. \A d \in Conns : /\ \A n \in 1 .. Len(queue[d]) : AgentOf[queue[d][n].job] = owner[d]
                       /\ Busy(d) => AgentOf[JobOf(d)] = owner[d]
  BY DEF FrameInv
<1>3. ASSUME LinkAction PROVE FrameInv'
  <2>1. TypeOK' /\ Quiet
    BY <1>3, QuietStep
  <2>2. /\ UNCHANGED frame
        /\ \A d \in Conns : /\ Len(queue'[d]) =< Len(queue[d])
                            /\ \A n \in 1 .. Len(queue'[d]) : queue'[d][n] = queue[d][n]
                            /\ Busy(d)' => Busy(d)
                            /\ owner'[d] = owner[d] \/ handler[d] = "none"
    BY <2>1 DEF Quiet, Shorter, Busy
  <2>3. \A d \in Conns : Len(queue'[d]) \in Nat
    <3>1. queue' \in [Conns -> Seq(Frame)]
      BY <2>1 DEF TypeOK
    <3>2. QED
      BY <3>1
  <2>4. ASSUME NEW d \in Conns
        PROVE  /\ \A n \in 1 .. Len(queue'[d]) : AgentOf[queue'[d][n].job] = owner'[d]
               /\ Busy(d)' => AgentOf[frame'[d].job] = owner'[d]
    <3>1. CASE owner'[d] = owner[d]
      BY <1>1, <1>2, <2>2, <2>3, <3>1 DEF JobOf
    <3>2. CASE handler[d] = "none"
      <4>1. Len(queue'[d]) = 0 /\ ~ Busy(d)
        BY <1>1, <2>2, <2>3, <3>2 DEF Busy
      <4>2. QED
        BY <2>2, <2>3, <4>1
    <3>3. QED
      BY <2>2, <3>1, <3>2
  <2>5. QED
    BY <2>4 DEF FrameInv, JobOf
<1>4. ASSUME NEW j \in Jobs, JobNext(j) PROVE FrameInv'
  <2>1. Grows(j) /\ UNCHANGED <<owner, readerVars>>
    BY <1>4, JobTypes
  <2>2. ASSUME NEW d \in Conns
        PROVE  \A n \in 1 .. Len(queue'[d]) : AgentOf[queue'[d][n].job] = owner[d]
    <3>1. CASE queue'[d] = queue[d]
      BY <1>2, <3>1
    <3>2. CASE queue'[d] # queue[d]
      <4>1. PICK f \in Frame : f.job = j /\ queue'[d] = Append(queue[d], f)
        BY <2>1, <3>2 DEF Grows
      <4>2. d = link[AgentOf[j]]
        BY <2>1, <3>2 DEF Grows
      <4>3. owner[d] = AgentOf[j]
        BY <1>1, <4>2, AgentOfAssumption
      <4>4. /\ Len(queue'[d]) = Len(queue[d]) + 1 /\ queue'[d][Len(queue[d]) + 1] = f
            /\ \A n \in 1 .. Len(queue[d]) : queue'[d][n] = queue[d][n]
        BY <1>1, <4>1, AppendFacts
      <4>5. \A n \in 1 .. Len(queue'[d]) : n \in 1 .. Len(queue[d]) \/ n = Len(queue[d]) + 1
        BY <1>1, <4>4
      <4>6. QED
        BY <1>2, <4>1, <4>3, <4>4, <4>5
    <3>3. QED
      BY <3>1, <3>2
  <2>3. QED
    BY <1>2, <2>1, <2>2 DEF FrameInv, readerVars, Busy, JobOf
<1>5. ASSUME NEW c \in Conns, ReadMessage(c) PROVE FrameInv'
  <2>1. /\ queue[c] # <<>> /\ queue'[c] = Tail(queue[c]) /\ frame'[c] = queue[c][1]
        /\ \A d \in Conns \ {c} : /\ handler'[d] = handler[d] /\ frame'[d] = frame[d]
                                  /\ queue'[d] = queue[d]
        /\ owner' = owner
    BY <1>5, ReadFacts
  <2>2. /\ Len(queue'[c]) = Len(queue[c]) - 1 /\ Len(queue[c]) \in Nat \ {0}
        /\ \A n \in 1 .. Len(queue[c]) - 1 : queue'[c][n] = queue[c][n + 1]
    BY <1>1, <2>1, TailFacts
  <2>3. ASSUME NEW n \in 1 .. Len(queue'[c]) PROVE AgentOf[queue'[c][n].job] = owner[c]
    <3>1. n \in 1 .. Len(queue[c]) - 1 /\ n + 1 \in 1 .. Len(queue[c])
      BY <2>2
    <3>2. queue'[c][n] = queue[c][n + 1]
      BY <2>2, <3>1
    <3>3. AgentOf[queue[c][n + 1].job] = owner[c]
      BY <1>2, <3>1
    <3>4. QED
      BY <3>2, <3>3
  <2>4. AgentOf[frame'[c].job] = owner[c]
    BY <1>2, <2>1, <2>2
  <2>5. ASSUME NEW d \in Conns
        PROVE  /\ \A n \in 1 .. Len(queue'[d]) : AgentOf[queue'[d][n].job] = owner'[d]
               /\ Busy(d)' => AgentOf[frame'[d].job] = owner'[d]
    <3>1. CASE d = c
      BY <2>1, <2>3, <2>4, <3>1
    <3>2. CASE d # c
      BY <1>2, <2>1, <3>2 DEF Busy, JobOf
    <3>3. QED
      BY <3>1, <3>2
  <2>6. QED
    BY <2>5 DEF FrameInv, JobOf
<1>6. ASSUME NEW c \in Conns, ProcessFrame(c) PROVE FrameInv'
  <2>1. /\ Busy(c) /\ (handler'[c] = "reading" \/ (Busy(c)' /\ frame'[c] = frame[c]))
        /\ \A d \in Conns \ {c} : handler'[d] = handler[d] /\ frame'[d] = frame[d]
        /\ UNCHANGED <<owner, queue>>
    BY <1>6, ReaderFacts DEF linkVars
  <2>2. \A d \in Conns : Busy(d)' => Busy(d) /\ frame'[d] = frame[d]
    BY <2>1 DEF Busy
  <2>3. QED
    BY <1>2, <2>1, <2>2 DEF FrameInv, JobOf
<1>7. ASSUME HubRestart PROVE FrameInv'
  <2>1. \A d \in Conns : queue'[d] = <<>> /\ handler'[d] \in {"none", "ended"}
    BY <1>7, HubRestartFacts
  <2>2. QED
    BY <2>1 DEF FrameInv, Busy
<1>8. QED
  BY <1>3, <1>4, <1>5, <1>6, <1>7, Kinds DEF StepKinds

LEMMA AloneStep ==
    ASSUME TypeOK, ConnInv, AloneInv, [Next]_vars
    PROVE  AloneInv'
<1>1. \A c, d \in Conns : Busy(c) /\ Busy(d) /\ owner[c] = owner[d] /\ c # d => owner[c] \in overlap
  BY DEF AloneInv
<1>2. ASSUME LinkAction PROVE AloneInv'
  <2>1. Quiet
    BY <1>2, QuietStep
  <2>2. \A d \in Conns : Busy(d)' => Busy(d) /\ owner'[d] = owner[d]
    BY <2>1 DEF Quiet, Busy
  <2>3. QED
    BY <1>1, <2>1, <2>2 DEF AloneInv, Quiet
<1>3. ASSUME NEW j \in Jobs, JobNext(j) PROVE AloneInv'
  <2>1. UNCHANGED <<owner, readerVars, overlap>>
    BY <1>3, JobTypes
  <2>2. QED
    BY <1>1, <2>1 DEF AloneInv, Busy, readerVars
<1>4. ASSUME NEW c \in Conns, ReadMessage(c) PROVE AloneInv'
  <2>1. /\ \A d \in Conns \ {c} : handler'[d] = handler[d]
        /\ overlap \subseteq overlap' /\ owner' = owner
        /\ owner[c] \notin overlap' => \A d \in Conns \ {c} : owner[d] = owner[c] => ~ Live(d)
    BY <1>4, ReadFacts
  <2>2. \A d \in Conns \ {c} : Busy(d)' => Busy(d) /\ Live(d)
    BY <2>1 DEF Busy, Live
  <2>3. QED
    BY <1>1, <2>1, <2>2 DEF AloneInv
<1>5. ASSUME NEW c \in Conns, ProcessFrame(c) PROVE AloneInv'
  <2>1. /\ Busy(c) /\ \A d \in Conns \ {c} : handler'[d] = handler[d]
        /\ UNCHANGED <<owner, overlap>>
    BY <1>5, ReaderFacts DEF linkVars, historyVars
  <2>2. \A d \in Conns : Busy(d)' => Busy(d)
    BY <2>1 DEF Busy
  <2>3. QED
    BY <1>1, <2>1, <2>2 DEF AloneInv
<1>6. ASSUME HubRestart PROVE AloneInv'
  <2>1. \A d \in Conns : handler'[d] \in {"none", "ended"}
    BY <1>6, HubRestartFacts
  <2>2. QED
    BY <2>1 DEF AloneInv, Busy
<1>7. QED
  BY <1>2, <1>3, <1>4, <1>5, <1>6, Kinds DEF StepKinds

\* Without an overlap, a job has one frame in processFrame at a time.
LEMMA OnlyHandler ==
    ASSUME FrameInv, AloneInv, NEW c \in Conns, NEW d \in Conns, c # d, NEW j,
           Handles(c, j), AgentOf[j] \notin overlap
    PROVE  ~ Handles(d, j)
BY DEF FrameInv, AloneInv, Handles

\* Steps that leave the readers with a frame alone.
LEMMA CalmStores ==
    ASSUME StoreInv, UNCHANGED <<storeVars, frame, overlap>>,
           \A d \in Conns : Busy(d) \/ Busy(d)' => handler'[d] = handler[d]
    PROVE  StoreInv'
<1>1. \A d \in Conns, j \in Jobs : /\ Handles(d, j)' <=> Handles(d, j)
                                   /\ Handles(d, j) => handler'[d] = handler[d]
  BY DEF Handles, JobOf, Busy
<1>2. \A j \in Jobs : Agree(j)' <=> Agree(j)
  BY DEF Agree, storeVars
<1>3. \A d \in Conns, j \in Jobs : handler'[d] = handler[d] => (StoredAt(d, j)' <=> StoredAt(d, j))
  BY <1>2 DEF StoredAt, storeVars
<1>4. QED
  BY <1>1, <1>2, <1>3 DEF StoreInv

LEMMA CalmPairs ==
    ASSUME PairInv, UNCHANGED <<noteVars, frame, overlap, hubRestarts>>,
           \A d \in Conns : Busy(d) \/ Busy(d)' => handler'[d] = handler[d]
    PROVE  PairInv'
<1>1. \A d \in Conns, j \in Jobs : /\ Handles(d, j)' <=> Handles(d, j)
                                   /\ Handles(d, j) => handler'[d] = handler[d]
  BY DEF Handles, JobOf, Busy
<1>2. QED
  BY <1>1 DEF PairInv, noteVars

\* The first frame of the queue of c is being processed now, and no other of its job.
LEMMA ReadsAlone ==
    ASSUME TypeOK, FrameInv, NEW c \in Conns, ReadMessage(c)
    PROVE  /\ \A j \in Jobs, d \in Conns \ {c} :
                  Handles(d, j)' <=> Handles(d, j)
           /\ \A j \in Jobs : ~ Handles(c, j) /\ (Handles(c, j)' => j = queue[c][1].job)
           /\ AgentOf[queue[c][1].job] = owner[c]
           /\ \A d \in Conns \ {c} :
                  owner[c] \notin overlap' => ~ Handles(d, queue[c][1].job)
<1>1. /\ queue[c] # <<>> /\ frame'[c] = queue[c][1] /\ handler[c] = "reading"
      /\ \A d \in Conns \ {c} : handler'[d] = handler[d] /\ frame'[d] = frame[d]
      /\ owner[c] \notin overlap' => \A d \in Conns \ {c} : owner[d] = owner[c] => ~ Live(d)
  BY ReadFacts
<1>2. Len(queue[c]) \in Nat \ {0}
  BY <1>1, Known, TailFacts
<1>3. AgentOf[queue[c][1].job] = owner[c]
  BY <1>2 DEF FrameInv
<1>4. \A d \in Conns : Handles(d, queue[c][1].job) => owner[d] = owner[c] /\ Live(d)
  BY <1>3 DEF FrameInv, Handles, Busy, Live
<1>5. QED
  BY <1>1, <1>3, <1>4 DEF Handles, JobOf, Busy

LEMMA StoreStep ==
    ASSUME TypeOK, ConnInv, FrameInv, AloneInv, StoreInv, [Next]_vars
    PROVE  StoreInv'
<1>1. \A j \in Jobs : AgentOf[j] \notin overlap =>
          /\ (\A d \in Conns : ~ Handles(d, j)) => Agree(j)
          /\ \A d \in Conns : Handles(d, j) => StoredAt(d, j)
  BY DEF StoreInv
<1>2. ASSUME LinkAction PROVE StoreInv'
  BY <1>2, QuietStep, CalmStores DEF Quiet
<1>3. ASSUME NEW j \in Jobs, JobNext(j) PROVE StoreInv'
  <2>1. UNCHANGED <<readerVars, storeVars, overlap>>
    BY <1>3, JobTypes
  <2>2. QED
    BY <2>1, CalmStores DEF readerVars
<1>4. ASSUME NEW c \in Conns, ReadMessage(c) PROVE StoreInv'
  <2>1. /\ handler'[c] = "received" /\ \A d \in Conns \ {c} : handler'[d] = handler[d]
        /\ overlap \subseteq overlap' /\ UNCHANGED storeVars
    BY <1>4, ReadFacts
  <2>2. SUFFICES ASSUME NEW j \in Jobs, AgentOf[j] \notin overlap'
                 PROVE  /\ (\A d \in Conns : ~ Handles(d, j)') => Agree(j)'
                        /\ \A d \in Conns : Handles(d, j)' => StoredAt(d, j)'
    BY DEF StoreInv
  <2>3. AgentOf[j] \notin overlap /\ (Agree(j)' <=> Agree(j))
    BY <2>1, <2>2 DEF Agree, storeVars
  <2>4. \A d \in Conns \ {c} : StoredAt(d, j)' <=> StoredAt(d, j)
    BY <2>1, <2>3 DEF StoredAt, storeVars
  <2>5. StoredAt(c, j)' <=> Agree(j)
    BY <2>1, <2>3 DEF StoredAt
  <2>6. CASE Handles(c, j)'
    <3>1. \A d \in Conns : ~ Handles(d, j)
      BY <1>4, <2>2, <2>6, ReadsAlone
    <3>2. QED
      BY <1>1, <1>4, <2>3, <2>5, <2>6, <3>1, ReadsAlone
  <2>7. CASE ~ Handles(c, j)'
    BY <1>1, <1>4, <2>3, <2>4, <2>7, ReadsAlone
  <2>8. QED
    BY <2>6, <2>7
<1>5. ASSUME NEW c \in Conns, ProcessFrame(c) PROVE StoreInv'
  <2>0. PICK i \in Jobs : i = JobOf(c)
    BY <1>5, ReaderFacts
  <2>1. /\ Busy(c) /\ i \in Jobs
        /\ \A d \in Conns \ {c} : handler'[d] = handler[d] /\ frame'[d] = frame[d]
        /\ handler'[c] = "reading" \/ (Busy(c)' /\ frame'[c] = frame[c])
        /\ UNCHANGED overlap
        /\ \A k \in Jobs \ {i} : /\ k \in activeProgress' <=> k \in activeProgress
                                 /\ k \in smartDeltas' <=> k \in smartDeltas
                                 /\ k \in lastPhase' <=> k \in lastPhase
    BY <1>5, <2>0, ReaderFacts DEF historyVars
  <2>2. ASSUME NEW k \in Jobs \ {i}, AgentOf[k] \notin overlap
        PROVE  /\ (\A d \in Conns : ~ Handles(d, k)') => Agree(k)'
               /\ \A d \in Conns : Handles(d, k)' => StoredAt(d, k)'
    <3>1. \A d \in Conns : /\ Handles(d, k)' <=> Handles(d, k)
                           /\ Handles(d, k) => handler'[d] = handler[d] /\ d # c
      BY <2>0, <2>1 DEF Handles, JobOf, Busy
    <3>2. Agree(k)' <=> Agree(k)
      BY <2>1 DEF Agree
    <3>3. \A d \in Conns : handler'[d] = handler[d] => (StoredAt(d, k)' <=> StoredAt(d, k))
      BY <2>1, <3>2 DEF StoredAt
    <3>4. QED
      BY <1>1, <2>2, <3>1, <3>2, <3>3
  <2>3. ASSUME AgentOf[i] \notin overlap
        PROVE  /\ StoredAt(c, i) /\ \A d \in Conns \ {c} : ~ Handles(d, i)
               /\ Handles(c, i)' <=> handler'[c] # "reading"
               /\ \A d \in Conns \ {c} : ~ Handles(d, i)'
    <3>1. Handles(c, i)
      BY <2>0, <2>1 DEF Handles
    <3>2. \A d \in Conns \ {c} : ~ Handles(d, i)
      BY <2>3, <3>1, OnlyHandler
    <3>3. StoredAt(c, i)
      BY <1>1, <2>1, <2>3, <3>1
    <3>4. Handles(c, i)' <=> handler'[c] # "reading"
      BY <2>0, <2>1 DEF Handles, Busy, JobOf
    <3>5. \A d \in Conns \ {c} : ~ Handles(d, i)'
      BY <2>1, <3>2 DEF Handles, Busy, JobOf
    <3>6. QED
      BY <3>2, <3>3, <3>4, <3>5
  <2>4. ASSUME AgentOf[i] \notin overlap PROVE StoredAt(c, i)'
    <3>0. StoredAt(c, i) /\ handler \in [Conns -> HandlerStage] /\ JobOf(c) = i
      BY <2>0, <2>3, <2>4, Known
    <3>1. CASE StoreProgress(c)
      BY <3>0, <3>1 DEF StoreProgress, ReaderStep, StoredAt, Agree
    <3>2. CASE StoreSmartDeltas(c)
      BY <3>0, <3>2 DEF StoreSmartDeltas, ReaderStep, StoredAt
    <3>3. CASE StorePhaseTransition(c)
      BY <3>0, <3>3 DEF StorePhaseTransition, ReaderStep, StoredAt, Agree
    <3>4. CASE CleanupJobPhase(c)
      BY <3>0, <3>4 DEF CleanupJobPhase, ReaderStep, StoredAt
    <3>5. CASE CleanupSmartDeltas(c)
      BY <3>0, <3>5 DEF CleanupSmartDeltas, ReaderStep, StoredAt
    <3>6. CASE CleanupProgress(c)
      BY <3>0, <3>6 DEF CleanupProgress, ReaderStep, StoredAt, Agree
    <3>7. CASE LookupKnown(c) \/ MarkStarted(c) \/ MarkComplete(c)
      <4>1. handler[c] \in {"evaluate", "unseen", "seen"} /\ UNCHANGED storeVars
        BY <3>7 DEF LookupKnown, MarkStarted, MarkComplete, ReaderStep
      <4>2. handler'[c] \in {"reading", "unseen", "seen"}
        BY <3>0, <3>7 DEF LookupKnown, MarkStarted, MarkComplete, ReaderStep
      <4>3. QED
        BY <3>0, <4>1, <4>2 DEF StoredAt, Agree, storeVars
    <3>8. QED
      BY <1>5, <3>1, <3>2, <3>3, <3>4, <3>5, <3>6, <3>7 DEF ProcessFrame
  <2>5. ASSUME AgentOf[i] \notin overlap
        PROVE  /\ (\A d \in Conns : ~ Handles(d, i)') => Agree(i)'
               /\ \A d \in Conns : Handles(d, i)' => StoredAt(d, i)'
    <3>1. handler'[c] = "reading" => Agree(i)'
      BY <2>4, <2>5 DEF StoredAt
    <3>2. QED
      BY <2>3, <2>4, <2>5, <3>1
  <2>6. QED
    BY <2>1, <2>2, <2>5 DEF StoreInv
<1>6. ASSUME HubRestart PROVE StoreInv'
  <2>1. /\ \A d \in Conns : handler'[d] \in {"none", "ended"}
        /\ activeProgress' = {} /\ smartDeltas' = {} /\ lastPhase' = {}
    BY <1>6, HubRestartFacts
  <2>2. QED
    BY <2>1 DEF StoreInv, Handles, Busy, Agree
<1>7. QED
  BY <1>2, <1>3, <1>4, <1>5, <1>6, Kinds DEF StepKinds

LEMMA PairStep ==
    ASSUME TypeOK, ConnInv, FrameInv, AloneInv, PairInv, [Next]_vars
    PROVE  PairInv'
<1>1. \A j \in Jobs : AgentOf[j] \notin overlap /\ hubRestarts = 0 =>
          /\ started[j] = completed[j] + (IF j \in knownJobs THEN 1 ELSE 0)
          /\ \A d \in Conns : Handles(d, j) => /\ handler[d] = "unseen" => j \notin knownJobs
                                               /\ handler[d] = "seen" => j \in knownJobs
  BY DEF PairInv
<1>2. ASSUME LinkAction PROVE PairInv'
  BY <1>2, QuietStep, CalmPairs DEF Quiet
<1>3. ASSUME NEW j \in Jobs, JobNext(j) PROVE PairInv'
  <2>1. UNCHANGED <<readerVars, noteVars, crashVars, overlap>>
    BY <1>3, JobTypes
  <2>2. QED
    BY <2>1, CalmPairs DEF readerVars, crashVars
<1>4. ASSUME NEW c \in Conns, ReadMessage(c) PROVE PairInv'
  <2>1. /\ handler'[c] = "received" /\ \A d \in Conns \ {c} : handler'[d] = handler[d]
        /\ overlap \subseteq overlap' /\ UNCHANGED <<noteVars, crashVars>>
    BY <1>4, ReadFacts
  <2>2. SUFFICES ASSUME NEW j \in Jobs, AgentOf[j] \notin overlap', hubRestarts = 0
                 PROVE  \A d \in Conns : Handles(d, j)' =>
                            /\ handler'[d] = "unseen" => j \notin knownJobs
                            /\ handler'[d] = "seen" => j \in knownJobs
    BY <1>1, <2>1 DEF PairInv, noteVars, crashVars
  <2>3. QED
    BY <1>1, <1>4, <2>1, <2>2, ReadsAlone
<1>5. ASSUME NEW c \in Conns, ProcessFrame(c) PROVE PairInv'
  <2>1. PICK i \in Jobs : i = JobOf(c)
    BY <1>5, ReaderFacts
  <2>2. /\ Busy(c)
        /\ \A d \in Conns \ {c} : handler'[d] = handler[d] /\ frame'[d] = frame[d]
        /\ handler'[c] = "reading" \/ (Busy(c)' /\ frame'[c] = frame[c])
        /\ UNCHANGED <<overlap, hubRestarts>>
        /\ \A k \in Jobs \ {i} : /\ k \in knownJobs' <=> k \in knownJobs
                                 /\ started'[k] = started[k] /\ completed'[k] = completed[k]
    BY <1>5, <2>1, ReaderFacts DEF historyVars, crashVars
  <2>3. \A k \in Jobs \ {i}, d \in Conns :
            Handles(d, k)' => Handles(d, k) /\ handler'[d] = handler[d]
    BY <2>1, <2>2 DEF Handles, JobOf, Busy
  <2>4. ASSUME AgentOf[i] \notin overlap, hubRestarts = 0
        PROVE  /\ started'[i] = completed'[i] + (IF i \in knownJobs' THEN 1 ELSE 0)
               /\ \A d \in Conns : Handles(d, i)' => /\ handler'[d] = "unseen" => i \notin knownJobs'
                                                     /\ handler'[d] = "seen" => i \in knownJobs'
    <3>1. Handles(c, i)
      BY <2>1, <2>2 DEF Handles
    <3>2. \A d \in Conns \ {c} : ~ Handles(d, i)'
      <4>1. \A d \in Conns \ {c} : ~ Handles(d, i)
        BY <2>4, <3>1, OnlyHandler
      <4>2. QED
        BY <2>2, <4>1 DEF Handles, Busy, JobOf
    <3>3. /\ started[i] = completed[i] + (IF i \in knownJobs THEN 1 ELSE 0)
          /\ handler[c] = "unseen" => i \notin knownJobs
          /\ handler[c] = "seen" => i \in knownJobs
      BY <1>1, <2>4, <3>1
    <3>4. /\ handler \in [Conns -> HandlerStage] /\ started \in [Jobs -> Nat]
          /\ completed \in [Jobs -> Nat]
      BY Known
    <3>5. CASE LookupKnown(c)
      <4>1. /\ UNCHANGED noteVars /\ handler'[c] = "unseen" => i \notin knownJobs
            /\ handler'[c] = "seen" => i \in knownJobs
        BY <2>1, <3>4, <3>5 DEF LookupKnown, ReaderStep
      <4>2. UNCHANGED noteVars
        BY <3>5 DEF LookupKnown
      <4>3. QED
        BY <3>2, <3>3, <4>1, <4>2 DEF noteVars
    <3>6. CASE MarkStarted(c)
      <4>1. /\ handler[c] = "unseen" /\ handler'[c] = "seen" /\ knownJobs' = knownJobs \union {i}
            /\ started' = [started EXCEPT ![i] = @ + 1] /\ completed' = completed
        BY <2>1, <3>4, <3>6 DEF MarkStarted, ReaderStep
      <4>2. QED
        BY <3>2, <3>3, <3>4, <4>1
    <3>7. CASE MarkComplete(c)
      <4>1. /\ handler[c] = "seen" /\ handler'[c] = "reading" /\ started' = started
            /\ \/ /\ knownJobs' = knownJobs \ {i}
                  /\ completed' = [completed EXCEPT ![i] = @ + 1]
               \/ knownJobs' = knownJobs /\ completed' = completed
        BY <2>1, <3>4, <3>7 DEF MarkComplete, ReaderStep, Forgotten
      <4>2. started'[i] = completed'[i] + (IF i \in knownJobs' THEN 1 ELSE 0)
        BY <3>3, <3>4, <4>1
      <4>3. QED
        BY <3>2, <4>1, <4>2
    <3>8. CASE ~ LookupKnown(c) /\ ~ MarkStarted(c) /\ ~ MarkComplete(c)
      <4>1. UNCHANGED noteVars
        BY <1>5, <3>8
           DEF ProcessFrame, StoreProgress, StoreSmartDeltas, StorePhaseTransition,
               CleanupJobPhase, CleanupSmartDeltas, CleanupProgress, noteVars
      <4>2. handler'[c] \notin {"unseen", "seen"}
        BY <1>5, <3>4, <3>8
           DEF ProcessFrame, StoreProgress, StoreSmartDeltas, StorePhaseTransition,
               CleanupJobPhase, CleanupSmartDeltas, CleanupProgress, ReaderStep
      <4>3. QED
        BY <3>2, <3>3, <4>1, <4>2 DEF noteVars
    <3>9. QED
      BY <3>5, <3>6, <3>7, <3>8
  <2>5. QED
    BY <1>1, <2>2, <2>3, <2>4 DEF PairInv
<1>6. ASSUME HubRestart PROVE PairInv'
  <2>1. hubRestarts' # 0
    BY <1>6, HubRestartFacts, Known
  <2>2. QED
    BY <2>1 DEF PairInv
<1>7. QED
  BY <1>2, <1>3, <1>4, <1>5, <1>6, Kinds DEF StepKinds

(***************************************************************************)
(* The final frame of a job: it is the last of the job in its queue.       *)
(***************************************************************************)

LEMMA FinalAppended ==
    ASSUME NEW q \in Seq(Frame), NEW f \in Frame, f.kind \in {"COMPLETE", "CANCELLED"}
    PROVE  LastIsFinal(Append(q, f), f.job)
<1>1. Len(Append(q, f)) = Len(q) + 1 /\ Append(q, f)[Len(q) + 1] = f /\ Len(q) \in Nat
  BY AppendFacts
<1>2. \A m \in Len(q) + 1 + 1 .. Len(Append(q, f)) : FALSE
  BY <1>1
<1>3. QED
  BY <1>1, <1>2 DEF LastIsFinal

LEMMA FinalStays ==
    ASSUME NEW q \in Seq(Frame), NEW f \in Frame, NEW j, f.job # j, LastIsFinal(q, j)
    PROVE  LastIsFinal(Append(q, f), j)
<1>1. /\ Len(Append(q, f)) = Len(q) + 1 /\ Append(q, f)[Len(q) + 1] = f /\ Len(q) \in Nat
      /\ \A n \in 1 .. Len(q) : Append(q, f)[n] = q[n]
  BY AppendFacts
<1>2. PICK n \in 1 .. Len(q) : /\ q[n].job = j /\ q[n].kind \in {"COMPLETE", "CANCELLED"}
                               /\ \A m \in n + 1 .. Len(q) : q[m].job # j
  BY DEF LastIsFinal
<1>3. ASSUME NEW m \in n + 1 .. Len(q) + 1 PROVE Append(q, f)[m].job # j
  <2>1. CASE m = Len(q) + 1
    BY <1>1, <2>1
  <2>2. CASE m # Len(q) + 1
    <3>1. m \in 1 .. Len(q) /\ m \in n + 1 .. Len(q)
      BY <1>1, <2>2
    <3>2. QED
      BY <1>1, <1>2, <3>1
  <2>3. QED
    BY <2>1, <2>2
<1>4. n \in 1 .. Len(q) + 1 /\ Append(q, f)[n] = q[n]
  BY <1>1
<1>5. QED
  BY <1>1, <1>2, <1>3, <1>4 DEF LastIsFinal

LEMMA FinalNotLost ==
    ASSUME NEW q \in Seq(Frame), NEW p, NEW missing, NEW j, Shorter(p, q, missing), j \notin missing,
           LastIsFinal(q, j)
    PROVE  LastIsFinal(p, j)
<1>1. /\ Len(p) \in Nat /\ Len(q) \in Nat /\ Len(p) =< Len(q)
      /\ \A n \in 1 .. Len(p) : p[n] = q[n]
      /\ \A n \in Len(p) + 1 .. Len(q) : q[n].job \in missing
  BY DEF Shorter
<1>2. PICK n \in 1 .. Len(q) : /\ q[n].job = j /\ q[n].kind \in {"COMPLETE", "CANCELLED"}
                               /\ \A m \in n + 1 .. Len(q) : q[m].job # j
  BY DEF LastIsFinal
<1>3. n \in 1 .. Len(p)
  <2>1. n \notin Len(p) + 1 .. Len(q)
    BY <1>1, <1>2
  <2>2. QED
    BY <1>1, <2>1
<1>4. \A m \in n + 1 .. Len(p) : m \in 1 .. Len(p) /\ m \in n + 1 .. Len(q)
  BY <1>1, <1>3
<1>5. QED
  BY <1>1, <1>2, <1>3, <1>4 DEF LastIsFinal

LEMMA FinalComes ==
    ASSUME NEW q \in Seq(Frame), q # <<>>, NEW j, LastIsFinal(q, j)
    PROVE  \/ LastIsFinal(Tail(q), j)
           \/ /\ q[1].job = j /\ q[1].kind \in {"COMPLETE", "CANCELLED"}
              /\ \A n \in 1 .. Len(Tail(q)) : Tail(q)[n].job # j
<1>1. /\ Len(Tail(q)) = Len(q) - 1 /\ Len(q) \in Nat \ {0}
      /\ \A n \in 1 .. Len(q) - 1 : Tail(q)[n] = q[n + 1]
  BY TailFacts
<1>2. PICK n \in 1 .. Len(q) : /\ q[n].job = j /\ q[n].kind \in {"COMPLETE", "CANCELLED"}
                               /\ \A m \in n + 1 .. Len(q) : q[m].job # j
  BY DEF LastIsFinal
<1>3. ASSUME NEW m \in n .. Len(q) - 1 PROVE Tail(q)[m].job # j
  <2>1. m \in 1 .. Len(q) - 1 /\ m + 1 \in n + 1 .. Len(q)
    BY <1>1
  <2>2. QED
    BY <1>1, <1>2, <2>1
<1>4. CASE n = 1
  BY <1>1, <1>2, <1>3, <1>4
<1>5. CASE n # 1
  <2>1. n - 1 \in 1 .. Len(Tail(q)) /\ n - 1 + 1 = n
    BY <1>1, <1>5
  <2>2. Tail(q)[n - 1] = q[n]
    BY <1>1, <2>1
  <2>3. QED
    BY <1>1, <1>2, <1>3, <2>1, <2>2 DEF LastIsFinal
<1>6. QED
  BY <1>4, <1>5

LEMMA GhostStep ==
    ASSUME TypeOK, ConnInv, FrameInv, AloneInv, GhostInv, [Next]_vars
    PROVE  GhostInv'
<1>0. /\ queue \in [Conns -> Seq(Frame)] /\ TypeOK'
      /\ \A d \in Conns : Len(queue[d]) \in Nat
  BY Known, TypeStep
<1>1. \A j \in Jobs : stage[j] = "done" /\ j \notin lost /\ AgentOf[j] \notin overlap => Concluded(j)
  BY DEF GhostInv
<1>2. ASSUME LinkAction PROVE GhostInv'
  <2>1. /\ UNCHANGED <<activeProgress, overlap, frame>> /\ lost \subseteq lost'
        /\ \A d \in Conns : /\ Shorter(queue'[d], queue[d], lost')
                            /\ Busy(d) \/ Busy(d)' => handler'[d] = handler[d]
        /\ \A j \in Jobs : stage'[j] = "done" => stage[j] = "done"
    BY <1>2, QuietStep DEF Quiet, storeVars
  <2>2. SUFFICES ASSUME NEW j \in Jobs, stage[j] = "done", j \notin lost', AgentOf[j] \notin overlap
                 PROVE  Concluded(j)'
    BY <2>1 DEF GhostInv
  <2>3. Concluded(j)
    BY <1>1, <2>1, <2>2
  <2>4. CASE \E d \in Conns : LastIsFinal(queue[d], j)
    <3>1. PICK d \in Conns : LastIsFinal(queue[d], j)
      BY <2>4
    <3>2. LastIsFinal(queue'[d], j)
      BY <1>0, <2>1, <2>2, <3>1, FinalNotLost
    <3>3. QED
      BY <3>2 DEF Concluded
  <2>5. CASE ~ \E d \in Conns : LastIsFinal(queue[d], j)
    <3>1. AllRead(j)'
      <4>1. \A d \in Conns : \A n \in 1 .. Len(queue'[d]) : /\ n \in 1 .. Len(queue[d])
                                                            /\ queue'[d][n] = queue[d][n]
        <5>1. \A d \in Conns : Len(queue'[d]) \in Nat
          BY <1>0, Known DEF TypeOK
        <5>2. QED
          BY <1>0, <2>1, <5>1 DEF Shorter
      <4>2. QED
        BY <2>3, <2>5, <4>1 DEF Concluded, AllRead
    <3>2. \A d \in Conns : /\ Handles(d, j)' <=> Handles(d, j)
                           /\ Handles(d, j) => handler'[d] = handler[d]
                           /\ Final(d)' <=> Final(d)
      BY <2>1 DEF Handles, JobOf, Busy, Final
    <3>3. QED
      BY <2>1, <2>3, <2>5, <3>1, <3>2 DEF Concluded
  <2>6. QED
    BY <2>4, <2>5
<1>3. ASSUME NEW i \in Jobs, JobNext(i) PROVE GhostInv'
  <2>1. /\ UNCHANGED <<readerVars, storeVars, overlap>> /\ lost \subseteq lost' /\ Grows(i)
        /\ \A j \in Jobs \ {i} : stage'[j] = stage[j]
        /\ stage'[i] = "done" =>
               i \in lost' \/ \E d \in Conns, f \in Frame :
                                  /\ f.job = i /\ f.kind \in {"COMPLETE", "CANCELLED"}
                                  /\ queue'[d] = Append(queue[d], f)
    BY <1>3, JobTypes
  <2>2. ASSUME stage'[i] = "done", i \notin lost' PROVE Concluded(i)'
    <3>1. PICK d \in Conns, f \in Frame : /\ f.job = i /\ f.kind \in {"COMPLETE", "CANCELLED"}
                                          /\ queue'[d] = Append(queue[d], f)
      BY <2>1, <2>2
    <3>2. LastIsFinal(queue'[d], i)
      BY <1>0, <3>1, FinalAppended
    <3>3. QED
      BY <3>2 DEF Concluded
  <2>3. ASSUME NEW j \in Jobs \ {i}, Concluded(j) PROVE Concluded(j)'
    <3>1. \A d \in Conns : \/ queue'[d] = queue[d]
                           \/ \E f \in Frame : f.job = i /\ queue'[d] = Append(queue[d], f)
      BY <2>1 DEF Grows
    <3>2. CASE \E d \in Conns : LastIsFinal(queue[d], j)
      <4>1. PICK d \in Conns : LastIsFinal(queue[d], j)
        BY <3>2
      <4>2. LastIsFinal(queue'[d], j)
        BY <1>0, <3>1, <4>1, FinalStays
      <4>3. QED
        BY <4>2 DEF Concluded
    <3>3. CASE ~ \E d \in Conns : LastIsFinal(queue[d], j)
      <4>1. AllRead(j)'
        <5>1. SUFFICES ASSUME NEW d \in Conns, NEW n \in 1 .. Len(queue'[d])
                       PROVE  queue'[d][n].job # j
          BY DEF AllRead
        <5>2. CASE queue'[d] = queue[d]
          BY <2>3, <3>3, <5>2 DEF Concluded, AllRead
        <5>3. CASE queue'[d] # queue[d]
          <6>1. PICK f \in Frame : f.job = i /\ queue'[d] = Append(queue[d], f)
            BY <3>1, <5>3
          <6>2. /\ Len(queue'[d]) = Len(queue[d]) + 1 /\ queue'[d][Len(queue[d]) + 1] = f
                /\ \A m \in 1 .. Len(queue[d]) : queue'[d][m] = queue[d][m]
            BY <1>0, <6>1, AppendFacts
          <6>3. n \in 1 .. Len(queue[d]) \/ n = Len(queue[d]) + 1
            BY <1>0, <6>2
          <6>4. \A m \in 1 .. Len(queue[d]) : queue[d][m].job # j
            BY <2>3, <3>3 DEF Concluded, AllRead
          <6>5. QED
            BY <6>1, <6>2, <6>3, <6>4
        <5>4. QED
          BY <5>2, <5>3
      <4>2. \A d \in Conns : /\ Handles(d, j)' <=> Handles(d, j)
                             /\ handler'[d] = handler[d]
                             /\ Final(d)' <=> Final(d)
        BY <2>1 DEF Handles, JobOf, Busy, Final, readerVars
      <4>3. activeProgress' = activeProgress
        BY <2>1 DEF storeVars
      <4>4. QED
        BY <2>3, <3>3, <4>1, <4>2, <4>3 DEF Concluded
    <3>4. QED
      BY <3>2, <3>3
  <2>4. QED
    BY <1>1, <2>1, <2>2, <2>3 DEF GhostInv
<1>4. ASSUME NEW c \in Conns, ReadMessage(c) PROVE GhostInv'
  <2>1. /\ queue[c] # <<>> /\ queue'[c] = Tail(queue[c]) /\ frame'[c] = queue[c][1]
        /\ handler'[c] = "received"
        /\ \A d \in Conns \ {c} : /\ handler'[d] = handler[d] /\ frame'[d] = frame[d]
                                  /\ queue'[d] = queue[d]
        /\ overlap \subseteq overlap'
        /\ owner[c] \notin overlap' => \A d \in Conns \ {c} : owner[d] = owner[c] => ~ Live(d)
        /\ UNCHANGED <<jobVars, storeVars, lost>>
    BY <1>4, ReadFacts
  <2>2. SUFFICES ASSUME NEW j \in Jobs, AgentOf[j] \notin overlap', Concluded(j) PROVE Concluded(j)'
    BY <1>1, <2>1 DEF GhostInv, jobVars
  <2>3. /\ Len(queue'[c]) = Len(queue[c]) - 1 /\ Len(queue[c]) \in Nat \ {0}
        /\ \A n \in 1 .. Len(queue[c]) - 1 : queue'[c][n] = queue[c][n + 1]
    BY <1>0, <2>1, TailFacts
  <2>4. CASE \E d \in Conns \ {c} : LastIsFinal(queue[d], j)
    BY <2>1, <2>4 DEF Concluded
  <2>5. CASE LastIsFinal(queue[c], j)
    <3>1. CASE LastIsFinal(Tail(queue[c]), j)
      BY <2>1, <3>1 DEF Concluded
    <3>2. CASE ~ LastIsFinal(Tail(queue[c]), j)
      <4>1. /\ queue[c][1].job = j /\ queue[c][1].kind \in {"COMPLETE", "CANCELLED"}
            /\ \A n \in 1 .. Len(queue'[c]) : queue'[c][n].job # j
        BY <1>0, <2>1, <2>5, <3>2, FinalComes
      <4>2. AgentOf[j] = owner[c]
        BY <1>4, <4>1, ReadsAlone
      <4>3. ASSUME NEW d \in Conns \ {c}, NEW n \in 1 .. Len(queue[d])
            PROVE  queue[d][n].job # j
        <5>1. CASE owner[d] = owner[c]
          <6>1. queue[d] = <<>>
            BY <2>1, <2>2, <4>2, <5>1 DEF ConnInv
          <6>2. Len(queue[d]) = 0
            BY <6>1
          <6>3. QED
            BY <6>2
        <5>2. CASE owner[d] # owner[c]
          BY <4>2, <5>2 DEF FrameInv
        <5>3. QED
          BY <5>1, <5>2
      <4>4. AllRead(j)'
        <5>1. \A d \in Conns \ {c} : \A n \in 1 .. Len(queue'[d]) : queue'[d][n].job # j
          BY <2>1, <4>3
        <5>2. QED
          BY <4>1, <5>1 DEF AllRead
      <4>5. Handles(c, j)' /\ Final(c)'
        BY <2>1, <4>1 DEF Handles, Busy, JobOf, Final
      <4>6. handler'[c] \notin {"evaluate", "unseen", "seen"}
        BY <2>1
      <4>7. QED
        BY <4>4, <4>5, <4>6 DEF Concluded
    <3>3. QED
      BY <3>1, <3>2
  <2>6. CASE ~ \E d \in Conns : LastIsFinal(queue[d], j)
    <3>1. AllRead(j)
      BY <2>2, <2>6 DEF Concluded
    <3>2. \A n \in 1 .. Len(queue'[c]) : queue'[c][n].job # j
      <4>1. \A n \in 1 .. Len(queue'[c]) : n + 1 \in 1 .. Len(queue[c]) /\ queue'[c][n] = queue[c][n + 1]
        BY <2>3
      <4>2. QED
        BY <3>1, <4>1 DEF AllRead
    <3>3. AllRead(j)'
      <4>1. \A d \in Conns \ {c} : \A n \in 1 .. Len(queue'[d]) : queue'[d][n].job # j
        BY <2>1, <3>1 DEF AllRead
      <4>2. QED
        BY <3>2, <4>1 DEF AllRead
    <3>4. queue[c][1].job # j
      BY <2>3, <3>1 DEF AllRead
    <3>5. ~ Handles(c, j) /\ ~ Handles(c, j)'
      BY <1>4, <3>4, ReadsAlone
    <3>6. \A d \in Conns \ {c} : /\ Handles(d, j)' <=> Handles(d, j)
                                 /\ Final(d)' <=> Final(d)
      BY <2>1 DEF Handles, Busy, JobOf, Final
    <3>7. activeProgress' = activeProgress
      BY <2>1 DEF storeVars
    <3>8. QED
      BY <2>1, <2>2, <2>6, <3>3, <3>5, <3>6, <3>7 DEF Concluded
  <2>7. QED
    BY <2>4, <2>5, <2>6
<1>5. ASSUME NEW c \in Conns, ProcessFrame(c) PROVE GhostInv'
  <2>1. PICK i \in Jobs : i = JobOf(c)
    BY <1>5, ReaderFacts
  <2>2. /\ Busy(c)
        /\ \A d \in Conns \ {c} : handler'[d] = handler[d] /\ frame'[d] = frame[d]
        /\ handler'[c] = "reading" \/ (Busy(c)' /\ frame'[c] = frame[c])
        /\ UNCHANGED <<stage, queue, overlap, lost>>
        /\ \A k \in Jobs \ {i} : k \in activeProgress' <=> k \in activeProgress
    BY <1>5, <2>1, ReaderFacts DEF historyVars, jobVars, linkVars
  <2>3. SUFFICES ASSUME NEW j \in Jobs, AgentOf[j] \notin overlap, Concluded(j) PROVE Concluded(j)'
    BY <1>1, <2>2 DEF GhostInv
  <2>4. CASE \E d \in Conns : LastIsFinal(queue[d], j)
    BY <2>2, <2>4 DEF Concluded
  <2>5. CASE ~ \E d \in Conns : LastIsFinal(queue[d], j)
    <3>1. AllRead(j) /\ AllRead(j)'
      BY <2>2, <2>3, <2>5 DEF Concluded, AllRead
    <3>2. \A d \in Conns \ {c} : /\ Handles(d, j)' <=> Handles(d, j)
                                 /\ Final(d)' <=> Final(d)
      BY <2>2 DEF Handles, Busy, JobOf, Final
    <3>3. CASE j # i
      <4>1. ~ Handles(c, j) /\ ~ Handles(c, j)'
        BY <2>1, <2>2, <3>3 DEF Handles, Busy, JobOf
      <4>2. QED
        BY <2>2, <2>3, <2>5, <3>1, <3>2, <3>3, <4>1 DEF Concluded
    <3>4. CASE j = i
      <4>1. Handles(c, j) /\ handler \in [Conns -> HandlerStage]
        BY <2>1, <2>2, <3>4, Known DEF Handles
      <4>2. \A d \in Conns \ {c} : ~ Handles(d, j)
        BY <2>3, <4>1, OnlyHandler
      <4>3. \A d \in Conns \ {c} : ~ Handles(d, j)'
        BY <3>2, <4>2
      <4>4. CASE /\ Final(c) /\ handler[c] \notin {"evaluate", "unseen", "seen"}
        <5>1. CASE CleanupProgress(c)
          <6>1. handler'[c] = "evaluate" /\ j \notin activeProgress'
            BY <2>1, <3>4, <4>1, <5>1 DEF CleanupProgress, ReaderStep
          <6>2. \A d \in Conns : Handles(d, j)' => handler'[d] \in {"evaluate", "unseen", "seen"}
            BY <4>3, <6>1
          <6>3. QED
            BY <3>1, <6>1, <6>2 DEF Concluded
        <5>2. CASE ~ CleanupProgress(c)
          <6>1. handler'[c] \in {"progressed", "phased", "cleaning", "cleanedPhase", "cleanedDeltas"}
            BY <1>5, <4>1, <4>4, <5>2
               DEF ProcessFrame, StoreProgress, StoreSmartDeltas, StorePhaseTransition, EndsJob,
                   CleanupJobPhase, CleanupSmartDeltas, LookupKnown, MarkStarted, MarkComplete,
                   ReaderStep
          <6>2. frame'[c] = frame[c] /\ Busy(c)'
            BY <2>2, <6>1
          <6>3. Handles(c, j)' /\ Final(c)'
            BY <2>1, <3>4, <4>4, <6>2 DEF Handles, JobOf, Final
          <6>4. QED
            BY <3>1, <6>1, <6>3 DEF Concluded
        <5>3. QED
          BY <5>1, <5>2
      <4>5. CASE ~ (Final(c) /\ handler[c] \notin {"evaluate", "unseen", "seen"})
        <5>1. j \notin activeProgress /\ handler[c] \in {"evaluate", "unseen", "seen"}
          BY <2>3, <2>5, <4>1, <4>2, <4>5 DEF Concluded
        <5>2. /\ activeProgress' = activeProgress
              /\ handler'[c] \in {"reading", "unseen", "seen"}
          BY <1>5, <4>1, <5>1
             DEF ProcessFrame, StoreProgress, StoreSmartDeltas, StorePhaseTransition,
                 CleanupJobPhase, CleanupSmartDeltas, CleanupProgress, LookupKnown, MarkStarted,
                 MarkComplete, ReaderStep, storeVars
        <5>3. \A d \in Conns : Handles(d, j)' => handler'[d] \in {"evaluate", "unseen", "seen"}
          BY <4>3, <5>2 DEF Handles, Busy
        <5>4. QED
          BY <3>1, <5>1, <5>2, <5>3 DEF Concluded
      <4>6. QED
        BY <4>4, <4>5
    <3>5. QED
      BY <3>3, <3>4
  <2>6. QED
    BY <2>4, <2>5
<1>6. ASSUME HubRestart PROVE GhostInv'
  <2>1. /\ \A d \in Conns : queue'[d] = <<>> /\ handler'[d] \in {"none", "ended"}
        /\ activeProgress' = {}
    BY <1>6, HubRestartFacts
  <2>2. \A d \in Conns : Len(queue'[d]) = 0
    BY <2>1
  <2>3. \A j \in Jobs : AllRead(j)'
    BY <2>2 DEF AllRead
  <2>4. QED
    BY <2>1, <2>3 DEF GhostInv, Concluded, Handles, Busy
<1>7. QED
  BY <1>2, <1>3, <1>4, <1>5, <1>6, Kinds DEF StepKinds

(***************************************************************************)
(* The theorems.                                                           *)
(***************************************************************************)

LEMMA InitInv == Init => Inv
<1> SUFFICES ASSUME Init PROVE Inv
  OBVIOUS
<1>1. TypeOK
  BY InitTypes
<1>2. /\ \A c \in Conns : /\ handler[c] = "none" /\ queue[c] = <<>> /\ Len(queue[c]) = 0
                          /\ ~ Busy(c) /\ ~ Reads(c)
      /\ \A a \in Agents : link[a] = NoConn
      /\ \A j \in Jobs : stage[j] = "idle" /\ started[j] = 0 /\ completed[j] = 0
      /\ activeProgress = {} /\ smartDeltas = {} /\ lastPhase = {} /\ knownJobs = {}
      /\ crashes = 0 /\ hubRestarts = 0
  BY DEF Init, Busy, Reads
<1>3. ConnInv /\ FrameInv /\ AloneInv /\ OpenReaderIsTracked
  BY <1>2 DEF ConnInv, FrameInv, AloneInv, OpenReaderIsTracked
<1>4. StoreInv /\ PairInv /\ GhostInv
  BY <1>2 DEF StoreInv, PairInv, GhostInv, Handles, Agree
<1>5. QED
  BY <1>1, <1>3, <1>4 DEF Inv

LEMMA InvHolds == Spec => []Inv
<1>1. Inv /\ [Next]_vars => Inv'
  <2> SUFFICES ASSUME Inv, [Next]_vars PROVE Inv'
    OBVIOUS
  <2>1. /\ TypeOK /\ ConnInv /\ FrameInv /\ AloneInv
        /\ OpenReaderIsTracked /\ StoreInv /\ PairInv /\ GhostInv
    BY DEF Inv
  <2>2. TypeOK' /\ ConnInv' /\ FrameInv' /\ AloneInv'
    BY <2>1, TypeStep, ConnStep, FrameStep, AloneStep
  <2>3. OpenReaderIsTracked' /\ StoreInv' /\ PairInv' /\ GhostInv'
    BY <2>1, OpenReaderStep, StoreStep, PairStep, GhostStep
  <2>4. QED
    BY <2>2, <2>3 DEF Inv
<1>2. QED
  BY InitInv, <1>1, PTL DEF Spec

\* Every variable of the telemetry path has its type.
THEOREM HubTypes == Spec => []TypeOK
<1>1. Inv => TypeOK
  BY DEF Inv
<1>2. QED
  BY InvHolds, <1>1, PTL

\* HandleAgentTelemetry and its untracking when a read loop returns: the connection of an open
\* reader is the one Aggregator.conns names, whatever connections of the agent follow another.
THEOREM ReadersTracked == Spec => []OpenReaderIsTracked
<1>1. Inv => OpenReaderIsTracked
  BY DEF Inv
<1>2. QED
  BY InvHolds, <1>1, PTL

\* storeProgressLocally, storePhaseTransition and cleanupIfComplete: the three maps of the
\* aggregator agree on a job that no reader is processing a frame of.
THEOREM StoresAlwaysAgree == Spec => []StoresAgree
<1>1. Inv => StoresAgree
  <2> SUFFICES ASSUME StoreInv PROVE StoresAgree
    BY DEF Inv
  <2>1. QED
    BY DEF StoreInv, StoresAgree, Handles, Agree
<1>2. QED
  BY InvHolds, <1>1, PTL

\* evaluateJobLifecycle: between two frames of a job its job_started and job_complete
\* notifications pair up.
THEOREM NotificationsPair == Spec => []NotificationsPairUp
<1>1. Inv => NotificationsPairUp
  <2> SUFFICES ASSUME PairInv PROVE NotificationsPairUp
    BY DEF Inv
  <2>1. QED
    BY DEF PairInv, NotificationsPairUp
<1>2. QED
  BY InvHolds, <1>1, PTL

\* cleanupIfComplete and writeJSON: a job that has ended stays in GET /api/jobs/active only by a
\* frame that was lost, or by two readers of its agent at once.
THEOREM GhostsOnlyByLoss == Spec => []GhostJobOnlyByLoss
<1>1. Inv => GhostJobOnlyByLoss
  <2> SUFFICES ASSUME Inv, NEW j \in activeProgress, stage[j] = "done", ~ InTransit(j),
                      j \notin lost, AgentOf[j] \notin overlap
               PROVE  FALSE
    BY DEF GhostJobOnlyByLoss
  <2>1. j \in Jobs /\ Concluded(j)
    BY DEF Inv, TypeOK, GhostInv
  <2>2. \A c \in Conns : ~ LastIsFinal(queue[c], j)
    BY DEF InTransit, LastIsFinal
  <2>3. \A c \in Conns : ~ Handles(c, j)
    BY DEF InTransit, Handles
  <2>4. QED
    BY <2>1, <2>2, <2>3 DEF Concluded
<1>2. QED
  BY InvHolds, <1>1, PTL
=============================================================================
