------------------------------ MODULE VigilLink ------------------------------
(***************************************************************************)
(* The upstream link of the hubs: registration with the Vigil server, then *)
(* one WebSocket after another for as long as the hub runs.                *)
(*                                                                         *)
(* Frames go up in two ways. The aggregators of snapraid and zfs-manager   *)
(* push telemetry into a channel that the forwarding loop of a connection  *)
(* empties; every add-on also sends typed frames (Send). The loop belongs  *)
(* to the connection it was started for, and a new connection starts a new *)
(* one: for a while both take frames from the channel.                     *)
(*                                                                         *)
(* The network may cut a connection without telling: writes then succeed   *)
(* and are lost, until one fails or no ping has come for a minute.         *)
(***************************************************************************)
EXTENDS Integers, Sequences

CONSTANTS Kinds,       \* the add-ons looked at
          Capacity,    \* of the channel
          MaxFrames,   \* bound: frames pushed into it
          MaxSends,    \* bound: typed frames
          MaxConns     \* bound: connections; the last one is not cut

ASSUME KindsAssumption == Kinds \subseteq {"burnin", "snapraid", "zfs"}
ASSUME LinkBoundsAssumption == {Capacity, MaxFrames, MaxSends, MaxConns} \subseteq Nat

Conns == 1 .. MaxConns
None == 0

VARIABLES kind,        \* the add-on
          registered,  \* Register has returned
          wired,       \* the aggregator has been given the client
          linkRun,     \* the goroutine of Run: "dialing", "reading" or "leaving"
          used,        \* the number of connections made; the last is the one of Run
          conn,        \* t.conn: the connection that Send uses
          net,         \* what has become of each connection
          loop, held,  \* the forwarding loop of each, and the frame in its hands
          cancelled,   \* the loops whose context is cancelled
          queue,       \* the channel
          pushed,      \* the number of frames pushed
          sends,       \* the number of typed frames
          sender       \* a call of Send: the frame and the connection it has looked up

\* What Vigil has received, in order; and, for each connection, how many frames its loop
\* has taken from the channel after the connection was closed.
VARIABLES telemetry, typed, wasted

linkRunVars == <<registered, wired, linkRun, used, conn>>
loopVars == <<net, loop, held, cancelled>>
sendVars == <<sends, sender>>
linkVars == <<kind, linkRunVars, loopVars, queue, pushed, sendVars, telemetry, typed, wasted>>

NoSend == [frame |-> 0, on |-> None]

LinkTypeOK ==
    /\ kind \in Kinds
    /\ registered \in BOOLEAN /\ wired \in BOOLEAN
    /\ linkRun \in {"dialing", "reading", "leaving"}
    /\ used \in 0 .. MaxConns /\ conn \in {None} \cup Conns
    /\ net \in [Conns -> {"unused", "up", "cut", "closed"}]
    /\ loop \in [Conns -> {"none", "select", "write", "over"}]
    /\ held \in [Conns -> 0 .. MaxFrames]
    /\ cancelled \subseteq Conns
    /\ queue \in Seq(1 .. MaxFrames) /\ Len(queue) =< Capacity
    /\ pushed \in 0 .. MaxFrames /\ sends \in 0 .. MaxSends
    /\ sender \in [frame : 0 .. MaxSends, on : {None} \cup Conns]
    /\ telemetry \in Seq(1 .. MaxFrames) /\ typed \in Seq(1 .. MaxSends)
    /\ wasted \in [Conns -> 0 .. MaxFrames]

LinkInit ==
    /\ kind \in Kinds
    /\ registered = FALSE /\ wired = FALSE
    /\ linkRun = "dialing" /\ used = 0 /\ conn = None
    /\ net = [c \in Conns |-> "unused"]
    /\ loop = [c \in Conns |-> "none"] /\ held = [c \in Conns |-> 0] /\ cancelled = {}
    /\ queue = <<>> /\ pushed = 0 /\ sends = 0 /\ sender = NoSend
    /\ telemetry = <<>> /\ typed = <<>> /\ wasted = [c \in Conns |-> 0]

(***************************************************************************)
(* Registration and Run.                                                   *)
(***************************************************************************)
\* Register retries until the server answers.
Register ==
    /\ ~registered
    /\ registered' = TRUE
    /\ UNCHANGED <<kind, wired, linkRun, used, conn, loopVars, queue, pushed, sendVars, telemetry, typed, wasted>>

\* The hubs' main: burn-in waits for the first connection (Ready), the others do not.
Wire ==
    /\ registered /\ ~wired
    /\ kind = "burnin" => used > 0
    /\ wired' = TRUE
    /\ UNCHANGED <<kind, registered, linkRun, used, conn, loopVars, queue, pushed, sendVars, telemetry, typed, wasted>>

\* connectAndServe after a dial that succeeds; the loop starts.
Dial ==
    LET c == used + 1 IN
    /\ registered /\ (kind = "burnin" \/ wired)
    /\ linkRun = "dialing" /\ used < MaxConns
    /\ used' = c /\ conn' = c /\ linkRun' = "reading"
    /\ net' = [net EXCEPT ![c] = "up"]
    /\ loop' = [loop EXCEPT ![c] = "select"]
    /\ UNCHANGED <<kind, registered, wired, held, cancelled, queue, pushed, sendVars, telemetry, typed, wasted>>

\* The network drops the connection and tells nobody.
Cut(c) ==
    /\ net[c] = "up" /\ c < MaxConns
    /\ net' = [net EXCEPT ![c] = "cut"]
    /\ UNCHANGED <<kind, linkRunVars, loop, held, cancelled, queue, pushed, sendVars, telemetry, typed, wasted>>

\* Mutant: a connection without a read deadline.
ReadFailsWhenClosed ==
    /\ linkRun = "reading" /\ net[used] = "closed"
    /\ linkRun' = "leaving"
    /\ cancelled' = cancelled \cup {used}
    /\ UNCHANGED <<kind, registered, wired, used, conn, net, loop, held, queue, pushed, sendVars,
                   telemetry, typed, wasted>>

\* ReadMessage fails, because of its deadline or because a loop closed the connection;
\* the deferred calls begin with serveCancel.
ReadFails ==
    /\ linkRun = "reading" /\ net[used] \in {"cut", "closed"}
    /\ linkRun' = "leaving"
    /\ cancelled' = cancelled \cup {used}
    /\ UNCHANGED <<kind, registered, wired, used, conn, net, loop, held, queue, pushed, sendVars,
                   telemetry, typed, wasted>>

\* The deferred close.
Leave ==
    /\ linkRun = "leaving"
    /\ linkRun' = "dialing" /\ conn' = None
    /\ net' = [net EXCEPT ![used] = "closed"]
    /\ UNCHANGED <<kind, registered, wired, used, loop, held, cancelled, queue, pushed, sendVars,
                   telemetry, typed, wasted>>

(***************************************************************************)
(* The channel and the forwarding loops.                                   *)
(***************************************************************************)
\* IngestAgentFrame: a full channel drops the frame.
Push ==
    /\ kind # "burnin" /\ pushed < MaxFrames
    /\ pushed' = pushed + 1
    /\ queue' = IF Len(queue) < Capacity THEN Append(queue, pushed + 1) ELSE queue
    /\ UNCHANGED <<kind, linkRunVars, loopVars, sendVars, telemetry, typed, wasted>>

\* select: of its ready cases Go takes any, so that a cancelled loop may go on.
Take(c) ==
    /\ loop[c] = "select" /\ queue # <<>>
    /\ loop' = [loop EXCEPT ![c] = "write"]
    /\ held' = [held EXCEPT ![c] = Head(queue)]
    /\ queue' = Tail(queue)
    /\ wasted' = IF net[c] = "closed" THEN [wasted EXCEPT ![c] = @ + 1] ELSE wasted
    /\ UNCHANGED <<kind, linkRunVars, net, cancelled, pushed, sendVars, telemetry, typed>>

\* The goroutine of the loop returns and closes its connection.
EndLoop(c) == /\ loop' = [loop EXCEPT ![c] = "over"]
              /\ net' = [net EXCEPT ![c] = "closed"]

\* Mutant: the loop writes to the client's current connection.
WrittenToCurrent(c) ==
    /\ net[c] \in {"up", "cut", "closed"}
    /\ telemetry' = IF conn # None /\ net[conn] = "up" THEN Append(telemetry, held[c]) ELSE telemetry
    /\ loop' = [loop EXCEPT ![c] = "select"]
    /\ UNCHANGED net

Written(c) ==
    /\ net[c] \in {"up", "cut"}
    /\ telemetry' = IF net[c] = "up" THEN Append(telemetry, held[c]) ELSE telemetry
    /\ loop' = [loop EXCEPT ![c] = "select"]
    /\ UNCHANGED net

\* Mutant: the loop goes on after an error.
NotWrittenGoesOn(c) ==
    /\ net[c] \in {"cut", "closed"}
    /\ loop' = [loop EXCEPT ![c] = "select"]
    /\ UNCHANGED <<net, telemetry>>

NotWritten(c) ==
    /\ net[c] \in {"cut", "closed"}
    /\ EndLoop(c)
    /\ UNCHANGED telemetry

\* writeFrame on the connection of the loop; after an error the frame is gone.
Write(c) ==
    /\ loop[c] = "write"
    /\ Written(c) \/ NotWritten(c)
    /\ held' = [held EXCEPT ![c] = 0]
    /\ UNCHANGED <<kind, linkRunVars, cancelled, queue, pushed, sendVars, typed, wasted>>

\* The context is cancelled, or a heartbeat cannot be written.
LoopEnds(c) ==
    /\ loop[c] = "select"
    /\ c \in cancelled \/ net[c] \in {"cut", "closed"}
    /\ EndLoop(c)
    /\ UNCHANGED <<kind, linkRunVars, held, cancelled, queue, pushed, sendVars, telemetry, typed, wasted>>

(***************************************************************************)
(* Typed frames.                                                           *)
(***************************************************************************)
\* Send looks the connection up, and drops the frame if there is none.
SendLook ==
    /\ wired /\ sends < MaxSends /\ sender = NoSend
    /\ sends' = sends + 1
    /\ sender' = IF conn = None THEN NoSend ELSE [frame |-> sends + 1, on |-> conn]
    /\ UNCHANGED <<kind, linkRunVars, loopVars, queue, pushed, telemetry, typed, wasted>>

\* It writes to the connection it has looked up, whatever has become of it.
SendWrite ==
    /\ sender # NoSend
    /\ typed' = IF net[sender.on] = "up" THEN Append(typed, sender.frame) ELSE typed
    /\ sender' = NoSend
    /\ UNCHANGED <<kind, linkRunVars, loopVars, queue, pushed, sends, telemetry, wasted>>

LinkNext ==
    \/ Register \/ Wire \/ Dial \/ ReadFails \/ Leave
    \/ Push \/ SendLook \/ SendWrite
    \/ \E c \in Conns : Cut(c) \/ Take(c) \/ Write(c) \/ LoopEnds(c)

LinkSpec == LinkInit /\ [][LinkNext]_linkVars

\* The retries of Register and Run, the read deadline and the goroutines go on. That a
\* heartbeat on a cut connection fails is not assumed: the kernel may buffer it.
Fairness ==
    /\ WF_linkVars(Register) /\ WF_linkVars(Wire) /\ WF_linkVars(Dial)
    /\ WF_linkVars(ReadFails) /\ WF_linkVars(Leave)
    /\ \A c \in Conns : WF_linkVars(Take(c)) /\ WF_linkVars(Write(c))

FairLinkSpec == LinkSpec /\ Fairness

(***************************************************************************)
(* Properties.                                                             *)
(***************************************************************************)
Increasing(s) == \A i, j \in DOMAIN s : i < j => s[i] < s[j]

\* The two ways up are lossy channels side by side: whatever becomes of the connections,
\* Vigil gets no frame before it was handed over, none twice, and none after a later one
\* (Push of the aggregators with forwardLoop, and Send).
Telemetry == INSTANCE LossyChannel WITH handed <- pushed, got <- telemetry
Typed == INSTANCE LossyChannel WITH handed <- sends, got <- typed
ImplementsChannels == Telemetry!Spec /\ Typed!Spec

\* So Vigil gets the frames of the channel, and typed frames, in the order in which they
\* were handed over and none twice, though the loops of an old and a new connection take
\* frames side by side (forwardLoop, writeFrame, Send).
InOrderOnce == Increasing(telemetry) /\ Increasing(typed)

\* A loop whose connection has been closed takes at most one more frame from the
\* channel, and loses it (forwardLoop).
OneFrameWasted == \A c \in Conns : wasted[c] =< 1

\* The link comes back after every cut and what is in the channel goes out (Run, the
\* read deadline of connectAndServe).
LinkRecovers ==
    /\ []<>(conn # None /\ net[conn] = "up")
    /\ []<>(queue = <<>>)
=============================================================================
