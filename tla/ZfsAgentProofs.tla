--------------------------- MODULE ZfsAgentProofs ---------------------------
(***************************************************************************)
(* Proofs about ZfsReplication for any tasks, prefixes and retentions, and *)
(* any number of runs, snapshots and chunks, and about ZfsOperations, the  *)
(* other writer of the agent's pool, in the second part.                   *)
(*                                                                         *)
(* A task whose chain nobody else has reached into has one run at most     *)
(* that has taken a snapshot (AloneInv), and until that run ends its       *)
(* snapshot is the last that the retention of the task sees (RunInv). So   *)
(* the retention destroys older ones only, on the source and at the        *)
(* destination, and what is last at the destination stays on the source    *)
(* (ChainInv), be it this run's snapshot or that of an earlier one.        *)
(***************************************************************************)
EXTENDS ZfsReplication, ZfsOperations, FiniteSetTheorems, WellFoundedInduction, TLAPS

\* Places at which a run has a snapshot of its own, and those after its receive.
Carrying == {"list", "resolve", "start", "pipe", "drain", "retain", "destroy",
             "destRetain", "destDestroy", "bookmark"}
Delivered == {"retain", "destroy", "destRetain", "destDestroy", "bookmark"}
ReplicationOnly == Carrying \ {"retain", "destroy"}

Carries(r) == run[r].snap # NoSnap

\* The task and the snapshot of a run go with its place.
PlaceInv ==
    \A r \in Runs :
        /\ Active(r) \/ At(r, "waiting") => run[r].task \in Tasks
        /\ Carries(r) <=> run[r].at \in Carrying
        /\ Carries(r) => run[r].snap.prefix = Prefix[run[r].task]
        /\ At(r, "scrub") => Kind[run[r].task] = "scrub"
        /\ run[r].at \in ReplicationOnly => Kind[run[r].task] = "replication"

\* A snapshot's place in the order of creation is one that has been given out, and the
\* snapshots of a destination come from its task, a replication.
NumberInv ==
    /\ \A s \in src : s.at =< taken
    /\ \A t \in Tasks : \A s \in dst[t] :
           s.at =< taken /\ s.prefix = Prefix[t] /\ Kind[t] = "replication"
    /\ \A r \in Runs : Carries(r) => run[r].snap.at =< taken

\* An undisturbed task has one run with a snapshot.
AloneInv ==
    \A q, r \in Runs :
        Carries(q) /\ Carries(r) /\ run[q].task = run[r].task /\ run[r].task \notin disturbed => q = r

Latest(s, snaps) == \A x \in snaps : x.at =< s.at

\* While that run is on its way, its snapshot is on the source, the last one there that
\* the retention of its task sees, and no older than any at the destination; so neither
\* retention takes it for a victim, and once received it stays at the destination.
RunInv ==
    \A r \in Runs : Carries(r) /\ run[r].task \notin disturbed =>
        /\ run[r].snap \in src
        /\ Latest(run[r].snap, Matching(run[r].task, src))
        /\ Latest(run[r].snap, dst[run[r].task])
        /\ run[r].at \in {"destroy", "destDestroy"} => \A v \in run[r].victims : v.at < run[r].snap.at
        /\ run[r].at \in Delivered /\ Kind[run[r].task] = "replication"
               => run[r].snap \in dst[run[r].task]

\* A snapshot that is last at an undisturbed destination is on the source.
ChainInv ==
    \A t \in Tasks \ disturbed : dst[t] # {} => \E s \in dst[t] \cap src : Latest(s, dst[t])

Rest == PlaceInv /\ NumberInv /\ AloneInv /\ RunInv /\ ChainInv

Inv == TypeOK /\ Rest

(***************************************************************************)
(* Snapshots, and the locals of a run.                                     *)
(***************************************************************************)

\* What the invariant reads of a run's locals besides its place and its victims.
Same(x, y) == x.task = y.task /\ x.snap = y.snap

LEMMA Smallest ==
    ASSUME NEW T \in SUBSET Nat, T # {}
    PROVE  \E n \in T : \A m \in T : n =< m
<1> DEFINE R == {ss \in Nat \X Nat : ss[1] < ss[2]}
<1>1. IsWellFoundedOn(R, Nat)
  BY NatLessThanWellFounded DEF OpToRel
<1>2. PICK n \in T : \A m \in T : ~ (<<m, n>> \in R)
  <2> HIDE DEF R
  <2> QED
    BY <1>1, WFMin
<1>3. \A m \in T : ~ m < n
  BY <1>2
<1>4. QED
  BY <1>3

LEMMA SnapFacts ==
    /\ \A s \in Snap : s.at \in 1..MaxSnaps /\ s.at \in Nat /\ s.prefix \in TaskPrefixes
    /\ \A p \in TaskPrefixes, n \in 1..MaxSnaps :
           LET s == [prefix |-> p, at |-> n] IN s \in Snap /\ s.prefix = p /\ s.at = n
    /\ \A s, x \in Snap : s.at = x.at /\ s.prefix = x.prefix => s = x
    /\ \A t \in Tasks : Prefix[t] \in TaskPrefixes
BY BoundsAssumption DEF Snap, TaskPrefixes

LEMMA OldestFacts ==
    ASSUME NEW S \in SUBSET Snap, S # {}
    PROVE  Oldest(S) \in S
<1> DEFINE T == {s.at : s \in S}
<1>1. T \in SUBSET Nat /\ T # {}
  BY SnapFacts
<1>2. PICK n \in T : \A m \in T : n =< m
  BY <1>1, Smallest
<1>3. \E s \in S : \A x \in S : s.at <= x.at
  BY <1>2
<1>4. QED
  BY <1>3 DEF Oldest

LEMMA NewestFacts ==
    ASSUME NEW S \in SUBSET Snap, S # {}
    PROVE  Newest(S) \in S
<1> DEFINE T == {MaxSnaps - s.at : s \in S}
<1>1. T \in SUBSET Nat /\ T # {}
  BY SnapFacts, BoundsAssumption
<1>2. PICK n \in T : \A m \in T : n =< m
  BY <1>1, Smallest
<1>3. PICK s \in S : MaxSnaps - s.at = n
  BY <1>2
<1>4. \A x \in S : ~ (x.at > s.at)
  <2> SUFFICES ASSUME NEW x \in S, x.at > s.at PROVE FALSE
    OBVIOUS
  <2>1. MaxSnaps - x.at \in T
    OBVIOUS
  <2>2. MaxSnaps - s.at =< MaxSnaps - x.at
    BY <1>2, <1>3, <2>1
  <2>3. QED
    BY <2>2, SnapFacts, BoundsAssumption
<1>5. Newer(S, s) = {}
  BY <1>4 DEF Newer
<1>6. QED
  BY <1>5 DEF Newest

LEMMA RunFacts ==
    /\ NotStarted \in Run /\ NotStarted.snap = NoSnap /\ NotStarted.at = "idle"
    /\ \A p \in Location : /\ Gone(p) \in Run /\ Gone(p).snap = NoSnap /\ Gone(p).at = p
                           /\ Gone(p).victims = {} /\ Gone(p).task = NoTask
    /\ \A x \in Run : /\ x.task \in Tasks \union {NoTask} /\ x.at \in Location /\ x.victims \in SUBSET Snap
                      /\ x.snap \in Snap \union {NoSnap} /\ x.base \in Snap \union {NoSnap}
                      /\ x.left \in 0..MaxChunks /\ x.recv \in {"up", "dead", "gone"}
                      /\ x.seen \in SUBSET Snap
<1>1. /\ NotStarted \in Run /\ NotStarted.snap = NoSnap /\ NotStarted.at = "idle"
      /\ NotStarted.victims = {} /\ NotStarted.task = NoTask
  BY BoundsAssumption DEF NotStarted, Run, Location
<1>2. ASSUME NEW p \in Location
      PROVE  /\ Gone(p) \in Run /\ Gone(p).snap = NoSnap /\ Gone(p).at = p
             /\ Gone(p).victims = {} /\ Gone(p).task = NoTask
  BY <1>1, <1>2 DEF Run, Gone
<1>3. QED
  BY <1>1, <1>2 DEF Run

(***************************************************************************)
(* Three kinds of step, and what they leave of the invariant.              *)
(***************************************************************************)

\* Run r takes a step, the others do not.
Moved(r) == run' \in [Runs -> Run] /\ \A q \in Runs \ {r} : run'[q] = run[q]

ChainSame == UNCHANGED <<src, dst, taken, disturbed>>

LEMMA Places ==
    /\ Carrying \subseteq Location /\ Delivered \subseteq Carrying /\ ReplicationOnly \subseteq Carrying
    /\ {"idle", "waiting", "skipped", "announce", "scrub", "snapshot", "report", "over", "dead"}
           \cap Carrying = {}
    /\ Carrying = ReplicationOnly \cup {"retain", "destroy"}
    /\ {"retain", "destroy"} \subseteq Delivered
BY DEF Carrying, Delivered, ReplicationOnly, Location

\* What PlaceInv says of one run's locals.
InPlace(x) ==
    /\ x.at \notin {"idle", "skipped", "report", "over", "dead"} => x.task \in Tasks
    /\ x.snap # NoSnap <=> x.at \in Carrying
    /\ x.snap # NoSnap => x.snap.prefix = Prefix[x.task]
    /\ x.at = "scrub" => Kind[x.task] = "scrub"
    /\ x.at \in ReplicationOnly => Kind[x.task] = "replication"

LEMMA PlaceInPlace == PlaceInv <=> \A r \in Runs : InPlace(run[r])
BY DEF PlaceInv, InPlace, Active, Over, At, Carries

\* The run keeps its task and its snapshot, and nothing happens to the snapshots.
LEMMA KeepingStep ==
    ASSUME Inv, NEW r \in Runs, Moved(r), ChainSame, Carries(r), Same(run[r], run'[r]),
           run'[r].at \in Carrying,
           run'[r].at \in ReplicationOnly => Kind[run[r].task] = "replication",
           run'[r].at \in Delivered => run[r].at \in Delivered,
           run[r].task \notin disturbed /\ run'[r].at \in {"destroy", "destDestroy"}
               => \A v \in run'[r].victims : v.at < run[r].snap.at
    PROVE  Rest'
<1>0. /\ PlaceInv /\ NumberInv /\ AloneInv /\ RunInv /\ ChainInv
      /\ src' = src /\ dst' = dst /\ taken' = taken /\ disturbed' = disturbed
      /\ \A q \in Runs : run'[q].task = run[q].task /\ run'[q].snap = run[q].snap
      /\ \A q \in Runs \ {r} : run'[q] = run[q]
  BY DEF Inv, Rest, ChainSame, Moved, Same
<1>1. PlaceInv'
  <2>1. \A q \in Runs : InPlace(run[q])
    BY <1>0, PlaceInPlace
  <2>2. InPlace(run'[r])
    BY <1>0, <2>1, Places DEF InPlace, Carries
  <2>3. \A q \in Runs : InPlace(run'[q])
    BY <1>0, <2>1, <2>2
  <2>4. QED
    BY <2>3 DEF PlaceInv, InPlace, Active, Over, At, Carries
<1>2. NumberInv'
  BY <1>0 DEF NumberInv, Carries
<1>3. AloneInv'
  BY <1>0 DEF AloneInv, Carries
<1>4. RunInv'
  <2> SUFFICES ASSUME NEW q \in Runs, Carries(q)', run'[q].task \notin disturbed'
               PROVE  /\ run'[q].snap \in src'
                      /\ Latest(run'[q].snap, Matching(run'[q].task, src'))
                      /\ Latest(run'[q].snap, dst'[run'[q].task])
                      /\ run'[q].at \in {"destroy", "destDestroy"}
                             => \A v \in run'[q].victims : v.at < run'[q].snap.at
                      /\ run'[q].at \in Delivered /\ Kind[run'[q].task] = "replication"
                             => run'[q].snap \in dst'[run'[q].task]
    BY DEF RunInv, Matching, Latest
  <2>1. Carries(q) /\ run[q].task \notin disturbed
    BY <1>0 DEF Carries
  <2>2. CASE q = r
    BY <1>0, <2>1, <2>2 DEF RunInv
  <2>3. CASE q # r
    BY <1>0, <2>1, <2>3 DEF RunInv
  <2>4. QED
    BY <2>2, <2>3
<1>5. ChainInv'
  BY <1>0 DEF ChainInv, Latest
<1>6. QED
  BY <1>1, <1>2, <1>3, <1>4, <1>5 DEF Rest

\* The run has no snapshot afterwards: it begins, is refused or ends.
LEMMA EmptyHandedStep ==
    ASSUME Inv, NEW r \in Runs, Moved(r), ChainSame, run'[r].snap = NoSnap,
           run'[r].at \notin Carrying, InPlace(run'[r])
    PROVE  Rest'
<1>0. /\ PlaceInv /\ NumberInv /\ AloneInv /\ RunInv /\ ChainInv
      /\ src' = src /\ dst' = dst /\ taken' = taken /\ disturbed' = disturbed
      /\ \A q \in Runs \ {r} : run'[q] = run[q]
      /\ \A q \in Runs : run'[q].snap # NoSnap => q # r /\ run'[q] = run[q]
  BY DEF Inv, Rest, ChainSame, Moved
<1>1. PlaceInv'
  <2>1. \A q \in Runs : InPlace(run[q])
    BY <1>0, PlaceInPlace
  <2>2. \A q \in Runs : InPlace(run'[q])
    BY <1>0, <2>1
  <2>3. QED
    BY <2>2 DEF PlaceInv, InPlace, Active, Over, At, Carries
<1>2. NumberInv'
  BY <1>0 DEF NumberInv, Carries
<1>3. AloneInv'
  BY <1>0 DEF AloneInv, Carries
<1>4. RunInv'
  BY <1>0 DEF RunInv, Carries, Matching, Latest
<1>5. ChainInv'
  BY <1>0 DEF ChainInv, Latest
<1>6. QED
  BY <1>1, <1>2, <1>3, <1>4, <1>5 DEF Rest

\* What was received last is last at the destination.
LEMMA ReceivedFacts ==
    ASSUME TypeOK, NEW r \in Runs, Carries(r), run[r].task \in Tasks
    PROVE  /\ Received(r) \in SUBSET Snap /\ run[r].snap \in Received(r)
           /\ \A x \in Received(r) : x \in dst[run[r].task] \/ x = run[r].snap
<1>1. run[r].snap \in Snap /\ dst[run[r].task] \in SUBSET Snap
  BY RunFacts DEF TypeOK, Carries
<1>2. QED
  BY <1>1 DEF Received

\* What the invariant says of a destination after the receive of an undisturbed task.
LEMMA ReceivedChain ==
    ASSUME Inv, NEW r \in Runs, Carries(r)
    PROVE  /\ run[r].task \in Tasks
           /\ \A s \in Received(r) : s.at =< taken /\ s.prefix = Prefix[run[r].task]
           /\ run[r].task \notin disturbed =>
                /\ Latest(run[r].snap, Received(r)) /\ run[r].snap \in Received(r) \cap src
<1>1. TypeOK /\ PlaceInv /\ NumberInv /\ RunInv
  BY DEF Inv, Rest
<1>2. run[r].task \in Tasks /\ run[r].snap.prefix = Prefix[run[r].task] /\ run[r].snap.at =< taken
  BY <1>1, Places DEF PlaceInv, NumberInv, Carries, Active, Over, At
<1>3. \A x \in Received(r) : x \in dst[run[r].task] \/ x = run[r].snap
  BY <1>1, <1>2, ReceivedFacts
<1>4. \A s \in Received(r) : s.at =< taken /\ s.prefix = Prefix[run[r].task]
  BY <1>1, <1>2, <1>3 DEF NumberInv
<1>5. ASSUME run[r].task \notin disturbed
      PROVE  Latest(run[r].snap, Received(r)) /\ run[r].snap \in Received(r) \cap src
  <2>1. run[r].snap \in src /\ Latest(run[r].snap, dst[run[r].task]) /\ run[r].snap.at \in Nat
    BY <1>1, <1>5, SnapFacts DEF RunInv, TypeOK
  <2>2. QED
    BY <1>1, <1>2, <1>3, <2>1, ReceivedFacts DEF Latest
<1>6. QED
  BY <1>2, <1>4, <1>5

\* zfs receive adds the run's snapshot to the destination of its task; the run goes on to
\* the retention, or ends.
LEMMA ReceivingStep ==
    ASSUME Inv, NEW r \in Runs, Moved(r), Carries(r), Kind[run[r].task] = "replication",
           dst' = [dst EXCEPT ![run[r].task] = Received(r)],
           UNCHANGED <<src, taken, disturbed>>,
           \/ Same(run[r], run'[r]) /\ run'[r].at = "retain"
           \/ run'[r].snap = NoSnap /\ run'[r].at \in {"report", "over", "dead"}
    PROVE  Rest'
<1> DEFINE t == run[r].task
<1>0. /\ TypeOK /\ PlaceInv /\ NumberInv /\ AloneInv /\ RunInv /\ ChainInv
      /\ src' = src /\ taken' = taken /\ disturbed' = disturbed
      /\ \A q \in Runs \ {r} : run'[q] = run[q]
      /\ dst \in [Tasks -> SUBSET Snap]
  BY DEF Inv, Rest, Moved, TypeOK
<1>1. /\ t \in Tasks
      /\ \A s \in Received(r) : s.at =< taken /\ s.prefix = Prefix[t]
      /\ t \notin disturbed => Latest(run[r].snap, Received(r)) /\ run[r].snap \in Received(r) \cap src
  BY ReceivedChain
<1>2. dst'[t] = Received(r) /\ \A u \in Tasks \ {t} : dst'[u] = dst[u]
  BY <1>0, <1>1
<1>3. PlaceInv'
  <2>1. \A q \in Runs : InPlace(run[q])
    BY <1>0, PlaceInPlace
  <2>2. InPlace(run'[r])
    BY <2>1, <1>1, Places DEF InPlace, Same, Carries, ReplicationOnly
  <2>3. \A q \in Runs : InPlace(run'[q])
    BY <1>0, <2>1, <2>2
  <2>4. QED
    BY <2>3 DEF PlaceInv, InPlace, Active, Over, At, Carries
<1>4. NumberInv'
  <2>1. \A q \in Runs : Carries(q)' => run'[q].snap.at =< taken
    BY <1>0 DEF NumberInv, Carries, Same
  <2>2. \A u \in Tasks : \A s \in dst'[u] : s.at =< taken /\ s.prefix = Prefix[u] /\ Kind[u] = "replication"
    BY <1>0, <1>1, <1>2 DEF NumberInv
  <2>3. QED
    BY <1>0, <2>1, <2>2 DEF NumberInv
<1>5. AloneInv'
  BY <1>0 DEF AloneInv, Carries, Same
<1>6. RunInv'
  <2> SUFFICES ASSUME NEW q \in Runs, Carries(q)', run'[q].task \notin disturbed'
               PROVE  /\ run'[q].snap \in src'
                      /\ Latest(run'[q].snap, Matching(run'[q].task, src'))
                      /\ Latest(run'[q].snap, dst'[run'[q].task])
                      /\ run'[q].at \in {"destroy", "destDestroy"}
                             => \A v \in run'[q].victims : v.at < run'[q].snap.at
                      /\ run'[q].at \in Delivered /\ Kind[run'[q].task] = "replication"
                             => run'[q].snap \in dst'[run'[q].task]
    BY DEF RunInv, Matching, Latest
  <2>1. Carries(q) /\ run[q].task \notin disturbed /\ run'[q].task = run[q].task /\ run'[q].snap = run[q].snap
    BY <1>0 DEF Carries, Same
  <2>2. run[q].snap \in src /\ Latest(run[q].snap, Matching(run[q].task, src))
    BY <1>0, <2>1 DEF RunInv
  <2>3. CASE q = r
    <3>1. run'[r].at = "retain"
      BY <2>3 DEF Carries
    <3>2. QED
      BY <1>0, <1>1, <1>2, <2>1, <2>2, <2>3, <3>1
  <2>4. CASE q # r
    <3>1. run[q].task # t
      BY <1>0, <2>1, <2>4 DEF AloneInv
    <3>2. run[q].task \in Tasks
      BY <2>1, ReceivedChain
    <3>3. dst'[run[q].task] = dst[run[q].task]
      BY <1>2, <3>1, <3>2
    <3>4. QED
      BY <1>0, <2>1, <2>4, <3>3 DEF RunInv
  <2>5. QED
    BY <2>3, <2>4
<1>7. ChainInv'
  <2> SUFFICES ASSUME NEW u \in Tasks \ disturbed, dst'[u] # {}
               PROVE  \E s \in dst'[u] \cap src : Latest(s, dst'[u])
    BY <1>0 DEF ChainInv, Latest
  <2>1. CASE u = t
    BY <1>1, <1>2, <2>1
  <2>2. CASE u # t
    BY <1>0, <1>2, <2>2 DEF ChainInv
  <2>3. QED
    BY <2>1, <2>2
<1>8. QED
  BY <1>3, <1>4, <1>5, <1>6, <1>7 DEF Rest

\* CreateSnapshot: the tasks that would see the new snapshot while a run of theirs has one
\* are disturbed from now on.
LEMMA CreateStep ==
    ASSUME Inv, NEW r \in Runs, CreateSnapshot(r), Moved(r),
           NEW new \in Snap, new.prefix = Prefix[run[r].task], new.at = taken + 1,
           src' = src \union {new}, run'[r].task = run[r].task, run'[r].snap = new,
           run'[r].at = IF Kind[run[r].task] = "replication" THEN "list" ELSE "retain"
    PROVE  Rest'
<1> DEFINE t == run[r].task
<1>0. /\ TypeOK /\ PlaceInv /\ NumberInv /\ AloneInv /\ RunInv /\ ChainInv
      /\ dst' = dst /\ taken' = taken + 1 /\ disturbed' = disturbed \union Overtaken(t)
      /\ \A q \in Runs \ {r} : run'[q] = run[q]
      /\ At(r, "snapshot") /\ taken \in Nat
      /\ dst \in [Tasks -> SUBSET Snap] /\ src \in SUBSET Snap
  BY BoundsAssumption DEF Inv, Rest, Moved, TypeOK, CreateSnapshot
<1>1. /\ t \in Tasks /\ ~ Carries(r) /\ run[r].snap = NoSnap
  BY <1>0, Places DEF PlaceInv, Active, Over, At, Carries
<1>2. /\ \A s \in src : s.at \in Nat /\ s.at < new.at
      /\ \A u \in Tasks : \A s \in dst[u] : s.at \in Nat /\ s.at < new.at
      /\ new.at \in Nat /\ new # NoSnap
  BY <1>0, SnapFacts, NoSnapAssumption DEF NumberInv
<1>3. ASSUME NEW q \in Runs, q # r, Carries(q), run[q].task \notin disturbed'
      PROVE  <<Prefix[run[q].task], Prefix[t]>> \notin Covers /\ run[q].task # t
  <2>1. Active(q) /\ run[q].snap # NoSnap
    BY <1>0, <1>3, Places DEF PlaceInv, Active, Over, At, Carries
  <2>2. <<Prefix[run[q].task], Prefix[t]>> \notin Covers
    BY <1>0, <1>3, <2>1 DEF Overtaken
  <2>3. QED
    BY <1>1, <2>2, PrefixAssumption, SnapFacts
<1>4. PlaceInv'
  <2>1. \A q \in Runs : InPlace(run[q])
    BY <1>0, PlaceInPlace
  <2>2. InPlace(run'[r])
    <3>1. CASE Kind[t] = "replication"
      BY <1>1, <1>2, <3>1, Places DEF InPlace, Carrying
    <3>2. CASE Kind[t] # "replication"
      BY <1>1, <1>2, <3>2, Places DEF InPlace, Carrying, ReplicationOnly
    <3>3. QED
      BY <3>1, <3>2
  <2>3. \A q \in Runs : InPlace(run'[q])
    BY <1>0, <2>1, <2>2
  <2>4. QED
    BY <2>3 DEF PlaceInv, InPlace, Active, Over, At, Carries
<1>5. NumberInv'
  <2>1. \A q \in Runs : Carries(q)' => run'[q].snap.at =< taken'
    <3> SUFFICES ASSUME NEW q \in Runs, Carries(q)' PROVE run'[q].snap.at =< taken'
      OBVIOUS
    <3>1. CASE q = r
      BY <1>0, <3>1
    <3>2. CASE q # r
      <4>1. run'[q] = run[q] /\ Carries(q)
        BY <1>0, <3>2 DEF Carries
      <4>2. run[q].snap \in Snap /\ run[q].snap.at =< taken
        BY <1>0, <4>1, RunFacts DEF NumberInv, TypeOK, Carries
      <4>3. QED
        BY <1>0, <4>1, <4>2, SnapFacts
    <3>3. QED
      BY <3>1, <3>2
  <2>2. \A u \in Tasks : \A s \in dst'[u] : s.at =< taken' /\ s.prefix = Prefix[u] /\ Kind[u] = "replication"
    BY <1>0, <1>2 DEF NumberInv
  <2>3. \A s \in src' : s.at =< taken'
    BY <1>0, <1>2
  <2>4. QED
    BY <2>1, <2>2, <2>3 DEF NumberInv
<1>6. AloneInv'
  <2> SUFFICES ASSUME NEW p \in Runs, NEW q \in Runs, Carries(p)', Carries(q)',
                      run'[p].task = run'[q].task, run'[q].task \notin disturbed', p # q
               PROVE  FALSE
    BY DEF AloneInv
  <2>1. CASE p # r /\ q # r
    BY <1>0, <2>1 DEF AloneInv, Carries
  <2>2. CASE p = r
    BY <1>0, <1>3, <2>2 DEF Carries
  <2>3. CASE q = r
    BY <1>0, <1>3, <2>3 DEF Carries
  <2>4. QED
    BY <2>1, <2>2, <2>3
<1>7. RunInv'
  <2> SUFFICES ASSUME NEW q \in Runs, Carries(q)', run'[q].task \notin disturbed'
               PROVE  /\ run'[q].snap \in src'
                      /\ Latest(run'[q].snap, Matching(run'[q].task, src'))
                      /\ Latest(run'[q].snap, dst'[run'[q].task])
                      /\ run'[q].at \in {"destroy", "destDestroy"}
                             => \A v \in run'[q].victims : v.at < run'[q].snap.at
                      /\ run'[q].at \in Delivered /\ Kind[run'[q].task] = "replication"
                             => run'[q].snap \in dst'[run'[q].task]
    BY DEF RunInv, Matching, Latest
  <2>1. CASE q = r
    <3>1. Latest(new, src') /\ Latest(new, dst[t])
      BY <1>1, <1>2 DEF Latest
    <3>2. run'[q].at \notin {"destroy", "destDestroy"}
      BY <2>1
    <3>3. Kind[t] = "replication" => run'[q].at \notin Delivered
      BY <2>1 DEF Delivered
    <3>4. QED
      BY <1>0, <2>1, <3>1, <3>2, <3>3 DEF Latest, Matching
  <2>2. CASE q # r
    <3>1. run'[q] = run[q] /\ Carries(q) /\ run[q].task \notin disturbed
      BY <1>0, <2>2 DEF Carries
    <3>2. <<Prefix[run[q].task], Prefix[t]>> \notin Covers
      BY <1>3, <2>2, <3>1
    <3>3. Matching(run[q].task, src') = Matching(run[q].task, src)
      BY <3>2 DEF Matching
    <3>4. QED
      BY <1>0, <3>1, <3>3 DEF RunInv
  <2>3. QED
    BY <2>1, <2>2
<1>8. ChainInv'
  BY <1>0 DEF ChainInv, Latest
<1>9. QED
  BY <1>4, <1>5, <1>6, <1>7, <1>8 DEF Rest

\* A snapshot of the source is destroyed: of the tasks that rely on it, one whose own
\* retention does it has a newer one, and the others are disturbed from now on.
LEMMA DestroyStep ==
    ASSUME Inv, NEW v \in src, src' = src \ {v}, dst' = dst, taken' = taken,
           \A q \in Runs : Same(run[q], run'[q]) /\ run'[q].at = run[q].at
                           /\ run'[q].victims \subseteq run[q].victims,
           disturbed \subseteq disturbed',
           \A t \in TasksRelyingOn(v) \ disturbed' :
               \E r \in Runs : run[r].task = t /\ At(r, "destroy") /\ v \in run[r].victims
    PROVE  Rest'
<1>0. /\ TypeOK /\ PlaceInv /\ NumberInv /\ AloneInv /\ RunInv /\ ChainInv
      /\ \A q \in Runs : /\ run'[q].task = run[q].task /\ run'[q].snap = run[q].snap
                         /\ run'[q].at = run[q].at
      /\ dst \in [Tasks -> SUBSET Snap] /\ src \in SUBSET Snap /\ src' \subseteq src /\ v \in Snap
  BY DEF Inv, Rest, Same, TypeOK
<1>1. ASSUME NEW t \in TasksRelyingOn(v) \ disturbed'
      PROVE  \E r \in Runs : /\ run[r].task = t /\ Carries(r) /\ v.at < run[r].snap.at
                             /\ Kind[t] = "replication" => run[r].snap \in dst[t]
  <2>1. PICK r \in Runs : run[r].task = t /\ At(r, "destroy") /\ v \in run[r].victims
    OBVIOUS
  <2>2. Carries(r) /\ run[r].at = "destroy" /\ run[r].at \in Delivered
    BY <1>0, <2>1, Places DEF PlaceInv, At, Carrying, Delivered
  <2>3. QED
    BY <1>0, <2>1, <2>2 DEF RunInv
<1>2. ASSUME NEW q \in Runs, Carries(q), run[q].task \notin disturbed'
      PROVE  run[q].snap # v
  <2> SUFFICES ASSUME run[q].snap = v PROVE FALSE
    OBVIOUS
  <2>1. Active(q)
    BY <1>0, <1>2, Places DEF PlaceInv, Active, Over, At, Carries
  <2>2. run[q].task \in TasksRelyingOn(v)
    BY <2>1 DEF TasksRelyingOn
  <2>3. PICK r \in Runs : run[r].task = run[q].task /\ Carries(r) /\ v.at < run[r].snap.at
    BY <1>1, <1>2, <2>2
  <2>4. r = q
    BY <1>0, <1>2, <2>3 DEF AloneInv
  <2>5. QED
    BY <1>0, <2>3, <2>4, SnapFacts
<1>3. PlaceInv'
  BY <1>0 DEF PlaceInv, Active, Over, At, Carries
<1>4. NumberInv'
  BY <1>0 DEF NumberInv, Carries
<1>5. AloneInv'
  BY <1>0 DEF AloneInv, Carries
<1>6. RunInv'
  <2> SUFFICES ASSUME NEW q \in Runs, Carries(q)', run'[q].task \notin disturbed'
               PROVE  /\ run'[q].snap \in src'
                      /\ Latest(run'[q].snap, Matching(run'[q].task, src'))
                      /\ Latest(run'[q].snap, dst'[run'[q].task])
                      /\ run'[q].at \in {"destroy", "destDestroy"}
                             => \A w \in run'[q].victims : w.at < run'[q].snap.at
                      /\ run'[q].at \in Delivered /\ Kind[run'[q].task] = "replication"
                             => run'[q].snap \in dst'[run'[q].task]
    BY DEF RunInv, Matching, Latest
  <2>1. Carries(q) /\ run[q].task \notin disturbed /\ run[q].task \notin disturbed'
    BY <1>0 DEF Carries
  <2>2. run[q].snap # v
    BY <1>2, <2>1
  <2>3. Latest(run[q].snap, Matching(run[q].task, src'))
    BY <1>0, <2>1 DEF RunInv, Latest, Matching
  <2>4. QED
    BY <1>0, <2>1, <2>2, <2>3 DEF RunInv
<1>7. ChainInv'
  <2> SUFFICES ASSUME NEW t \in Tasks \ disturbed', dst[t] # {}
               PROVE  \E s \in dst[t] \cap src' : Latest(s, dst[t])
    BY DEF ChainInv, Latest
  <2>1. PICK s \in dst[t] \cap src : Latest(s, dst[t])
    BY <1>0 DEF ChainInv
  <2>2. s # v
    <3> SUFFICES ASSUME s = v PROVE FALSE
      OBVIOUS
    <3>1. t \in TasksRelyingOn(v) /\ Kind[t] = "replication"
      BY <1>0, <2>1 DEF TasksRelyingOn, NumberInv
    <3>2. PICK r \in Runs : Carries(r) /\ v.at < run[r].snap.at /\ run[r].snap \in dst[t]
      BY <1>1, <3>1
    <3>3. run[r].snap.at =< v.at /\ run[r].snap.at \in Nat /\ v.at \in Nat
      BY <1>0, <2>1, <3>2, SnapFacts DEF Latest
    <3>4. QED
      BY <3>2, <3>3
  <2>3. QED
    BY <2>1, <2>2
<1>8. QED
  BY <1>3, <1>4, <1>5, <1>6, <1>7 DEF Rest

\* The retention at the destination destroys a victim.
LEMMA DestDestroyStep ==
    ASSUME Inv, NEW r \in Runs, Moved(r), At(r, "destDestroy"), NEW v \in run[r].victims,
           Same(run[r], run'[r]), run'[r].at = run[r].at, run'[r].victims \subseteq run[r].victims,
           dst' \in {dst, [dst EXCEPT ![run[r].task] = @ \ {v}]},
           UNCHANGED <<src, taken, disturbed>>
    PROVE  Rest'
<1> DEFINE t == run[r].task
<1>0. /\ TypeOK /\ PlaceInv /\ NumberInv /\ AloneInv /\ RunInv /\ ChainInv
      /\ src' = src /\ taken' = taken /\ disturbed' = disturbed
      /\ dst \in [Tasks -> SUBSET Snap]
      /\ \A q \in Runs : /\ run'[q].task = run[q].task /\ run'[q].snap = run[q].snap
                         /\ run'[q].at = run[q].at /\ run'[q].victims \subseteq run[q].victims
  BY DEF Inv, Rest, Same, TypeOK, Moved
<1>1. /\ Carries(r) /\ run[r].at \in Delivered /\ run[r].at = "destDestroy"
      /\ Kind[t] = "replication" /\ t \in Tasks
  BY <1>0, Places DEF PlaceInv, At, Carrying, Delivered, ReplicationOnly, Active, Over
<1>2. /\ \A u \in Tasks : dst'[u] \subseteq dst[u]
      /\ \A u \in Tasks \ {t} : dst'[u] = dst[u]
      /\ dst[t] \ {v} \subseteq dst'[t]
  BY <1>0, <1>1
<1>3. t \notin disturbed =>
         /\ run[r].snap \in dst'[t] /\ run[r].snap \in src /\ Latest(run[r].snap, dst[t])
  <2> SUFFICES ASSUME t \notin disturbed
               PROVE  /\ run[r].snap \in dst'[t] /\ run[r].snap \in src /\ Latest(run[r].snap, dst[t])
    OBVIOUS
  <2>1. /\ run[r].snap \in dst[t] /\ run[r].snap \in src /\ Latest(run[r].snap, dst[t])
        /\ v.at < run[r].snap.at
    BY <1>0, <1>1 DEF RunInv
  <2>2. run[r].snap.at \in Nat
    BY <1>0, <1>1, <2>1, SnapFacts
  <2>3. QED
    BY <1>2, <2>1, <2>2
<1>4. PlaceInv'
  BY <1>0 DEF PlaceInv, Active, Over, At, Carries
<1>5. NumberInv'
  BY <1>0, <1>2 DEF NumberInv, Carries
<1>6. AloneInv'
  BY <1>0 DEF AloneInv, Carries
<1>7. RunInv'
  <2> SUFFICES ASSUME NEW q \in Runs, Carries(q)', run'[q].task \notin disturbed'
               PROVE  /\ run'[q].snap \in src'
                      /\ Latest(run'[q].snap, Matching(run'[q].task, src'))
                      /\ Latest(run'[q].snap, dst'[run'[q].task])
                      /\ run'[q].at \in {"destroy", "destDestroy"}
                             => \A w \in run'[q].victims : w.at < run'[q].snap.at
                      /\ run'[q].at \in Delivered /\ Kind[run'[q].task] = "replication"
                             => run'[q].snap \in dst'[run'[q].task]
    BY DEF RunInv, Matching, Latest
  <2>1. Carries(q) /\ run[q].task \notin disturbed
    BY <1>0 DEF Carries
  <2>2. run[q].task \in Tasks
    BY <2>1, ReceivedChain
  <2>3. CASE run[q].task = t
    <3>1. q = r
      BY <1>0, <1>1, <2>1, <2>3 DEF AloneInv
    <3>2. Latest(run[q].snap, dst'[t])
      BY <1>1, <1>2, <1>3, <2>1, <2>3, <3>1 DEF Latest
    <3>3. QED
      BY <1>0, <1>3, <2>1, <2>3, <3>1, <3>2 DEF RunInv
  <2>4. CASE run[q].task # t
    <3>1. dst'[run[q].task] = dst[run[q].task]
      BY <1>2, <2>2, <2>4
    <3>2. QED
      BY <1>0, <2>1, <3>1 DEF RunInv
  <2>5. QED
    BY <2>3, <2>4
<1>8. ChainInv'
  <2> SUFFICES ASSUME NEW u \in Tasks \ disturbed, dst'[u] # {}
               PROVE  \E s \in dst'[u] \cap src : Latest(s, dst'[u])
    BY <1>0 DEF ChainInv, Latest
  <2>1. CASE u = t
    BY <1>2, <1>3, <2>1 DEF Latest
  <2>2. CASE u # t
    BY <1>0, <1>2, <2>2 DEF ChainInv
  <2>3. QED
    BY <2>1, <2>2
<1>9. QED
  BY <1>4, <1>5, <1>6, <1>7, <1>8 DEF Rest

\* A crash ends all runs; receives of which all had been sent may have succeeded.
LEMMA CrashStep ==
    ASSUME Inv, CrashRestart
    PROVE  TypeOK' /\ Rest'
<1>0. /\ TypeOK /\ PlaceInv /\ NumberInv /\ AloneInv /\ RunInv /\ ChainInv
      /\ src' = src /\ taken' = taken /\ disturbed' = disturbed
      /\ dst \in [Tasks -> SUBSET Snap]
      /\ run \in [Runs -> Run]
  BY DEF Inv, Rest, TypeOK, CrashRestart, zfsVars
<1> DEFINE Kept(r) == ~ Active(r) /\ ~ At(r, "waiting") /\ ~ At(r, "report")
<1>1. /\ run' \in [Runs -> Run]
      /\ \A r \in Runs : run'[r] = Gone("dead") \/ (run'[r] = run[r] /\ Kept(r))
  <2>1. Gone("dead") \in Run
    BY RunFacts DEF Location
  <2>2. run' = [r \in Runs |-> IF Kept(r) THEN run[r] ELSE Gone("dead")]
    BY DEF CrashRestart
  <2>3. QED
    BY <1>0, <2>1, <2>2
<1>2. \A r \in Runs : run'[r].snap = NoSnap /\ run'[r].at \in {"idle", "skipped", "over", "dead"}
  <2> SUFFICES ASSUME NEW r \in Runs
               PROVE  run'[r].snap = NoSnap /\ run'[r].at \in {"idle", "skipped", "over", "dead"}
    OBVIOUS
  <2>1. CASE run'[r] = Gone("dead")
    BY <2>1, RunFacts DEF Location
  <2>2. CASE run'[r] = run[r] /\ Kept(r)
    <3>1. run[r].at \in {"idle", "skipped", "over", "dead"}
      BY <2>2 DEF Active, Over, At
    <3>2. QED
      BY <1>0, <2>2, <3>1, Places DEF PlaceInv, Carries
  <2>3. QED
    BY <1>1, <2>1, <2>2
<1>3. PICK done \in SUBSET {r \in Runs : MaySucceedUnheard(r)} :
          dst' = [t \in Tasks |->
                     LET r == CHOOSE q \in done : run[q].task = t IN
                     IF \E q \in done : run[q].task = t THEN Received(r) ELSE dst[t]]
  BY DEF CrashRestart
<1>4. \A r \in done : r \in Runs /\ Carries(r) /\ Kind[run[r].task] = "replication"
  <2> SUFFICES ASSUME NEW r \in done PROVE r \in Runs /\ Carries(r) /\ Kind[run[r].task] = "replication"
    OBVIOUS
  <2>1. r \in Runs /\ run[r].at \in {"drain", "pipe"}
    BY DEF MaySucceedUnheard, At
  <2>2. QED
    BY <1>0, <2>1, Places DEF PlaceInv, Carrying, ReplicationOnly
<1>5. \A t \in Tasks : \/ dst'[t] = dst[t]
                       \/ \E r \in done : run[r].task = t /\ dst'[t] = Received(r)
  BY <1>3
<1>6. TypeOK'
  <2>1. dst' \in [Tasks -> SUBSET Snap]
    <3>1. \A t \in Tasks : dst'[t] \in SUBSET Snap
      BY <1>0, <1>4, <1>5, ReceivedFacts
    <3>2. QED
      BY <1>3, <3>1
  <2>2. mishaps' \in 0..MaxMishaps
    BY <1>0, BoundsAssumption DEF CrashRestart, Mishap, TypeOK
  <2>3. QED
    BY <1>0, <1>1, <2>1, <2>2 DEF CrashRestart, TypeOK
<1>7. PlaceInv'
  BY <1>2, Places DEF PlaceInv, Active, Over, At, Carries, ReplicationOnly
<1>8. NumberInv'
  <2>1. \A t \in Tasks : \A s \in dst'[t] : s.at =< taken /\ s.prefix = Prefix[t] /\ Kind[t] = "replication"
    BY <1>0, <1>4, <1>5, ReceivedChain DEF NumberInv
  <2>2. QED
    BY <1>0, <1>2, <2>1 DEF NumberInv, Carries
<1>9. AloneInv' /\ RunInv'
  BY <1>2 DEF AloneInv, RunInv, Carries
<1>10. ChainInv'
  <2> SUFFICES ASSUME NEW t \in Tasks \ disturbed, dst'[t] # {}
               PROVE  \E s \in dst'[t] \cap src : Latest(s, dst'[t])
    BY <1>0 DEF ChainInv, Latest
  <2>1. CASE dst'[t] = dst[t]
    BY <1>0, <2>1 DEF ChainInv
  <2>2. CASE \E r \in done : run[r].task = t /\ dst'[t] = Received(r)
    BY <1>4, <2>2, ReceivedChain
  <2>3. QED
    BY <1>5, <2>1, <2>2
<1>11. QED
  BY <1>6, <1>7, <1>8, <1>9, <1>10 DEF Rest

(***************************************************************************)
(* Every action is a step of one of these kinds.                           *)
(***************************************************************************)

RowType == [Runs -> {"none", "running", "success", "error"}]
JobMuType == Runs \union {NoRun}

LEMMA Types ==
    ASSUME TypeOK
    PROVE  /\ run \in [Runs -> Run] /\ \A r \in Runs : run[r] \in Run
           /\ row \in RowType /\ jobMu \in JobMuType
           /\ dst \in [Tasks -> SUBSET Snap] /\ src \in SUBSET Snap
BY DEF TypeOK, RowType, JobMuType

LEMMA QuietType ==
    ASSUME TypeOK, run' \in [Runs -> Run], row' \in RowType, jobMu' \in JobMuType,
           UNCHANGED <<zfsVars, boundVars, disturbed>>
    PROVE  TypeOK' /\ ChainSame
BY DEF TypeOK, RowType, JobMuType, zfsVars, boundVars, ChainSame

Ends == {"report", "over"}

LEMMA OverFacts ==
    \A p \in Ends : LET x == Gone(p) IN
        x \in Run /\ x.snap = NoSnap /\ x.at = p /\ x.at \notin Carrying /\ InPlace(x)
<1>1. ASSUME NEW p \in Ends
      PROVE  LET x == Gone(p) IN
             x \in Run /\ x.snap = NoSnap /\ x.at = p /\ x.at \notin Carrying /\ InPlace(x)
  <2>1. LET x == Gone(p) IN x \in Run /\ x.snap = NoSnap /\ x.at = p /\ x.at \notin Carrying
    BY RunFacts, Places DEF Location, Ends
  <2>2. QED
    BY <2>1, Places DEF InPlace, Ends
<1>2. QED
  BY <1>1

\* CompleteJob.
LEMMA FinishFacts ==
    ASSUME TypeOK, NEW r \in Runs, NEW status \in {"success", "error"}, Finish(r, status)
    PROVE  /\ Moved(r) /\ run'[r].snap = NoSnap /\ run'[r].at \in Ends
           /\ run'[r].at \notin Carrying /\ InPlace(run'[r])
           /\ row' \in RowType /\ jobMu' \in JobMuType
<1>1. PICK p \in Ends : run' = [run EXCEPT ![r] = Gone(p)]
  BY DEF Finish, Ends
<1>2. Moved(r) /\ run'[r] = Gone(p)
  BY <1>1, Types, OverFacts DEF Moved
<1>3. row' \in RowType
  BY Types DEF Finish, RowType
<1>4. jobMu' \in JobMuType
  BY Types DEF Finish, JobMuType
<1>5. QED
  BY <1>2, <1>3, <1>4, OverFacts

\* The deferred Unlock.
LEMMA EndLoggedStep ==
    ASSUME Inv, NEW r \in Runs, EndLogged(r)
    PROVE  TypeOK' /\ Rest'
<1>1. TypeOK
  BY DEF Inv
<1>2. "over" \in Ends /\ run' = [run EXCEPT ![r] = Gone("over")] /\ row' = row
  BY DEF EndLogged, Ends
<1>3. Moved(r) /\ run'[r] = Gone("over")
  BY <1>1, <1>2, Types, OverFacts DEF Moved
<1>4. jobMu' \in JobMuType
  BY <1>1, Types DEF EndLogged, Unlock, JobMuType
<1>5. TypeOK' /\ ChainSame
  BY <1>1, <1>2, <1>3, <1>4, Types, QuietType DEF EndLogged, Moved
<1>6. QED
  BY <1>2, <1>3, <1>5, OverFacts, EmptyHandedStep

LEMMA EndingStep ==
    ASSUME Inv, NEW r \in Runs, NEW status \in {"success", "error"}, Finish(r, status),
           UNCHANGED <<zfsVars, boundVars, disturbed>>
    PROVE  TypeOK' /\ Rest'
<1>1. TypeOK
  BY DEF Inv
<1>2. TypeOK' /\ ChainSame
  BY <1>1, FinishFacts, QuietType DEF Moved
<1>3. Rest'
  BY <1>1, <1>2, FinishFacts, EmptyHandedStep
<1>4. QED
  BY <1>2, <1>3

LEMMA FailStep ==
    ASSUME Inv, NEW r \in Runs, Fail(r)
    PROVE  TypeOK' /\ Rest'
BY EndingStep DEF Fail

\* A step that touches nothing but the locals of a run that has its snapshot.
LEMMA QuietStep ==
    ASSUME Inv, NEW r \in Runs, Quiet, NEW y \in Run, run' = [run EXCEPT ![r] = y],
           Carries(r), Same(run[r], y), y.at \in Carrying,
           y.at \in ReplicationOnly => Kind[run[r].task] = "replication",
           y.at \in Delivered => run[r].at \in Delivered,
           run[r].task \notin disturbed /\ y.at \in {"destroy", "destDestroy"}
               => \A v \in y.victims : v.at < run[r].snap.at
    PROVE  TypeOK' /\ Rest'
<1>1. TypeOK
  BY DEF Inv
<1>2. Moved(r) /\ run'[r] = y
  BY <1>1, Types DEF Moved
<1>3. TypeOK' /\ ChainSame
  BY <1>1, <1>2, Types, QuietType DEF Moved, Quiet
<1>4. Rest'
  BY <1>2, <1>3, KeepingStep
<1>5. QED
  BY <1>3, <1>4

LEMMA BeginStep ==
    ASSUME Inv, NEW r \in Runs, NEW t \in Tasks, NEW e \in {"cron", "now", "manual"}, Begin(r, t, e),
           jobMu' \in JobMuType, UNCHANGED <<zfsVars, boundVars, disturbed>>
    PROVE  TypeOK' /\ Rest'
<1> DEFINE place == IF e = "manual" THEN FirstPlace(t) ELSE "announce"
           y == [NotStarted EXCEPT !.task = t, !.entry = e, !.at = place]
<1>1. TypeOK /\ place \in {"announce", "scrub", "snapshot"} /\ place \in Location
      /\ (place = "scrub" => Kind[t] = "scrub")
  BY DEF Inv, FirstPlace, Location
<1> HIDE DEF place
<1>2. y \in Run /\ y.task = t /\ y.at = place /\ y.snap = NoSnap
  <2>1. NotStarted \in Run /\ NotStarted.snap = NoSnap
    BY RunFacts
  <2>2. QED
    BY <1>1, <2>1 DEF Run
<1> HIDE DEF y
<1>3. Moved(r) /\ run'[r] = y /\ row' \in RowType
  <2>1. run' = [run EXCEPT ![r] = y] /\ row' = [row EXCEPT ![r] = "running"]
    BY DEF Begin, y, place
  <2>2. QED
    BY <1>1, <1>2, <2>1, Types DEF Moved, RowType
<1>4. InPlace(y) /\ y.at \notin Carrying
  BY <1>1, <1>2, Places DEF InPlace
<1>5. TypeOK' /\ ChainSame
  BY <1>1, <1>3, QuietType DEF Moved
<1>6. QED
  BY <1>2, <1>3, <1>4, <1>5, EmptyHandedStep

\* The first log line is posted.
LEMMA StartLoggedStep ==
    ASSUME Inv, NEW r \in Runs, StartLogged(r)
    PROVE  TypeOK' /\ Rest'
<1> DEFINE place == FirstPlace(run[r].task)
           y == [run[r] EXCEPT !.at = place]
<1>1. /\ TypeOK /\ place \in {"scrub", "snapshot"} /\ place \in Location
      /\ (place = "scrub" => Kind[run[r].task] = "scrub")
  BY DEF Inv, FirstPlace, Location
<1>2. run[r].at = "announce" /\ run[r].snap = NoSnap /\ run[r].task \in Tasks
  BY Places DEF StartLogged, At, Inv, Rest, PlaceInv, Active, Over, Carries
<1> HIDE DEF place
<1>3. y \in Run /\ Same(run[r], y) /\ y.at = place
  BY <1>1, Types DEF Run, Same
<1>4. run' = [run EXCEPT ![r] = y] /\ Quiet
  BY DEF StartLogged, Goto, place
<1> HIDE DEF y
<1>5. Moved(r) /\ run'[r] = y
  BY <1>1, <1>3, <1>4, Types DEF Moved
<1>6. InPlace(y) /\ y.at \notin Carrying /\ y.snap = NoSnap
  BY <1>1, <1>2, <1>3, Places DEF InPlace, Same
<1>7. TypeOK' /\ ChainSame
  BY <1>1, <1>4, <1>5, Types, QuietType DEF Moved, Quiet
<1>8. QED
  BY <1>5, <1>6, <1>7, EmptyHandedStep

LEMMA StartStep ==
    ASSUME Inv, NEW r \in Runs, NEW t \in Tasks, Start(r, t)
    PROVE  TypeOK' /\ Rest'
<1>1. TypeOK
  BY DEF Inv
<1>2. CASE FireTask(r, t)
  BY <1>2, BeginStep DEF FireTask, JobMuType
<1>3. CASE SkipTask(r, t)
  <2> DEFINE y == [run[r] EXCEPT !.at = "skipped"]
  <2>1. y \in Run /\ Same(run[r], y) /\ y.at = "skipped"
    BY <1>1, Types DEF Run, Same, Location
  <2> HIDE DEF y
  <2>2. Moved(r) /\ run'[r] = y
    BY <1>1, <1>3, <2>1, Types DEF SkipTask, Moved, y
  <2>3. run[r].snap = NoSnap
    BY <1>3, Places DEF SkipTask, Idle, At, Inv, Rest, PlaceInv, Carries
  <2>4. InPlace(y) /\ y.at \notin Carrying /\ y.snap = NoSnap
    BY <2>1, <2>3, Places DEF InPlace, Same
  <2>5. TypeOK' /\ ChainSame
    BY <1>1, <1>3, <2>2, Types, QuietType DEF Moved, SkipTask
  <2>6. QED
    BY <2>2, <2>4, <2>5, EmptyHandedStep
<1>4. CASE RunNow(r, t)
  <2> DEFINE y == [run[r] EXCEPT !.task = t, !.entry = "now", !.at = "waiting"]
  <2>1. y \in Run /\ y.task = t /\ y.at = "waiting" /\ y.snap = run[r].snap
    <3>1. run[r] \in Run /\ t \in Tasks \union {NoTask}
      BY <1>1, Types
    <3>2. QED
      BY <3>1 DEF Run, Location
  <2> HIDE DEF y
  <2>2. Moved(r) /\ run'[r] = y
    BY <1>1, <1>4, <2>1, Types DEF RunNow, Moved, y
  <2>3. run[r].snap = NoSnap
    BY <1>4, Places DEF RunNow, Idle, At, Inv, Rest, PlaceInv, Carries
  <2>4. InPlace(y) /\ y.at \notin Carrying /\ y.snap = NoSnap
    BY <2>1, <2>3, Places DEF InPlace
  <2>5. TypeOK' /\ ChainSame
    BY <1>1, <1>4, <2>2, Types, QuietType DEF Moved, RunNow
  <2>6. QED
    BY <2>2, <2>4, <2>5, EmptyHandedStep
<1>5. CASE RunReplicationNow(r, t)
  BY <1>1, <1>5, Types, BeginStep DEF RunReplicationNow
<1>6. QED
  BY <1>2, <1>3, <1>4, <1>5 DEF Start

LEMMA LockStep ==
    ASSUME Inv, NEW r \in Runs, LockJobMu(r)
    PROVE  TypeOK' /\ Rest'
<1>1. run[r].task \in Tasks
  BY DEF Inv, Rest, PlaceInv, LockJobMu
<1>2. QED
  BY <1>1, BeginStep DEF LockJobMu, JobMuType

\* The task and the place of a run at a given label.
LEMMA AtPlace ==
    ASSUME Inv, NEW r \in Runs, run[r].at \in Carrying
    PROVE  /\ TypeOK /\ run[r] \in Run /\ Carries(r) /\ run[r].task \in Tasks /\ run[r].snap \in Snap
           /\ run[r].at \in ReplicationOnly => Kind[run[r].task] = "replication"
<1>1. TypeOK /\ PlaceInv
  BY DEF Inv, Rest
<1>2. Carries(r) /\ (run[r].at \in ReplicationOnly => Kind[run[r].task] = "replication") /\ run[r].task \in Tasks
  BY <1>1, Places DEF PlaceInv, Active, Over, At
<1>3. QED
  BY <1>1, <1>2, Types, RunFacts DEF Carries

LEMMA CreatingStep ==
    ASSUME Inv, NEW r \in Runs, CreateSnapshot(r)
    PROVE  TypeOK' /\ Rest'
<1> DEFINE t == run[r].task
           new == [prefix |-> Prefix[t], at |-> taken + 1]
           place == IF Kind[t] = "replication" THEN "list" ELSE "retain"
           y == [run[r] EXCEPT !.snap = new, !.at = place]
<1>1. TypeOK /\ PlaceInv
  BY DEF Inv, Rest
<1>2. t \in Tasks
  BY <1>1 DEF PlaceInv, CreateSnapshot, Active, Over, At
<1>3. taken + 1 \in 1..MaxSnaps
  BY <1>1, BoundsAssumption DEF TypeOK, CreateSnapshot
<1>4. new \in Snap /\ new.prefix = Prefix[t] /\ new.at = taken + 1
  BY <1>2, <1>3, SnapFacts
<1>5. /\ run' = [run EXCEPT ![r].snap = new, ![r].at = place] /\ src' = src \union {new}
      /\ taken' = taken + 1 /\ disturbed' = disturbed \union Overtaken(t)
      /\ UNCHANGED <<row, jobMu, bookmarks, dst, boundVars>>
  BY DEF CreateSnapshot
<1> HIDE DEF new
<1>6. y \in Run /\ y.task = t /\ y.at = place /\ y.snap = new
  <2>1. place \in Location
    BY DEF Location
  <2> HIDE DEF place
  <2>2. QED
    BY <1>1, <1>4, <2>1, Types DEF Run
<1>7. Moved(r) /\ run'[r] = y
  <2>1. run' = [run EXCEPT ![r] = y]
    BY <1>1, <1>5, Types
  <2> HIDE DEF y
  <2>2. QED
    BY <1>1, <1>6, <2>1, Types DEF Moved
<1>8. TypeOK'
  <2>1. Overtaken(t) \in SUBSET Tasks
    BY <1>1 DEF Overtaken, PlaceInv
  <2>2. run' \in [Runs -> Run] /\ src' \in SUBSET Snap /\ disturbed' \in SUBSET Tasks /\ taken' \in 0..MaxSnaps
    BY <1>1, <1>3, <1>4, <1>5, <1>7, <2>1, BoundsAssumption DEF TypeOK, Moved
  <2>3. QED
    BY <1>1, <1>5, <2>2 DEF TypeOK, boundVars
<1>9. Rest'
  <2> HIDE DEF y
  <2>1. QED
    BY <1>4, <1>5, <1>6, <1>7, CreateStep
<1>10. QED
  BY <1>8, <1>9

LEMMA ListStep ==
    ASSUME Inv, NEW r \in Runs, ListSource(r) \/ ListSourceFails(r) \/ ResolveBase(r) \/ NoTarget(r)
    PROVE  TypeOK' /\ Rest'
<1>0. run[r].at \in {"list", "resolve"}
  BY DEF ListSource, ListSourceFails, ResolveBase, NoTarget, At
<1>1. /\ TypeOK /\ run[r] \in Run /\ Carries(r) /\ run[r].task \in Tasks
      /\ Kind[run[r].task] = "replication" /\ src \in SUBSET Snap /\ run \in [Runs -> Run]
  BY <1>0, AtPlace, Types DEF Carrying, ReplicationOnly
<1>2. {"resolve", "start"} \subseteq Carrying \ Delivered
  BY DEF Carrying, Delivered
<1>3. CASE ListSource(r)
  <2> DEFINE y == [run[r] EXCEPT !.seen = src, !.at = "resolve"]
  <2>1. y \in Run /\ Same(run[r], y) /\ y.at = "resolve"
    BY <1>1 DEF Run, Same, Location
  <2>2. Quiet /\ run' = [run EXCEPT ![r] = y]
    BY <1>1, <1>3 DEF ListSource
  <2> HIDE DEF y
  <2>3. QED
    BY <1>1, <1>2, <2>1, <2>2, QuietStep
<1>4. CASE ListSourceFails(r)
  <2>1. CASE run[r].entry = "manual"
    <3> DEFINE y == [run[r] EXCEPT !.at = "resolve"]
    <3>1. y \in Run /\ Same(run[r], y) /\ y.at = "resolve"
      BY <1>1 DEF Run, Same, Location
    <3>2. Quiet /\ run' = [run EXCEPT ![r] = y]
      BY <1>1, <1>4, <2>1 DEF ListSourceFails, Goto
    <3> HIDE DEF y
    <3>3. QED
      BY <1>1, <1>2, <3>1, <3>2, QuietStep
  <2>2. CASE run[r].entry # "manual"
    BY <1>4, <2>2, FailStep DEF ListSourceFails
  <2>3. QED
    BY <2>1, <2>2
<1>5. CASE ResolveBase(r)
  <2>1. PICK seen \in {run[r].seen, {}} :
          \E via \in BookmarkBases(r, CommonSnapshot(seen, dst[run[r].task])) :
              run' = [run EXCEPT ![r].base = CommonSnapshot(seen, dst[run[r].task]), ![r].via = via,
                                 ![r].seen = seen, ![r].at = "start"]
    BY <1>5 DEF ResolveBase
  <2> DEFINE base == CommonSnapshot(seen, dst[run[r].task])
  <2>2. PICK via \in BookmarkBases(r, base) :
              run' = [run EXCEPT ![r].base = base, ![r].via = via, ![r].seen = seen, ![r].at = "start"]
    BY <2>1
  <2>3. seen \in SUBSET Snap /\ via \in BOOLEAN
    BY <1>1, RunFacts DEF BookmarkBases
  <2>4. base \in Snap \union {NoSnap}
    <3>1. seen \intersect dst[run[r].task] \in SUBSET Snap
      BY <2>3
    <3>2. QED
      BY <3>1, NewestFacts DEF CommonSnapshot
  <2> HIDE DEF base
  <2> DEFINE y == [run[r] EXCEPT !.base = base, !.via = via, !.seen = seen, !.at = "start"]
  <2>5. y \in Run /\ Same(run[r], y) /\ y.at = "start"
    <3>1. CASE via = TRUE
      BY <1>1, <2>3, <2>4, <3>1 DEF Run, Same, Location
    <3>2. CASE via = FALSE
      BY <1>1, <2>3, <2>4, <3>2 DEF Run, Same, Location
    <3>3. QED
      BY <2>3, <3>1, <3>2
  <2>6. Quiet /\ run' = [run EXCEPT ![r] = y]
    BY <1>1, <1>5, <2>2 DEF ResolveBase
  <2> HIDE DEF y
  <2>7. QED
    BY <1>1, <1>2, <2>5, <2>6, QuietStep
<1>6. CASE NoTarget(r)
  BY <1>6, FailStep DEF NoTarget
<1>7. QED
  BY <1>3, <1>4, <1>5, <1>6

LEMMA PipeStepsKeep ==
    ASSUME Inv, NEW r \in Runs,
           \/ StartPipe(r) \/ StartFails(r) \/ Transfer(r) \/ SendFails(r)
           \/ ReceiveDies(r) \/ CopierGivesUp(r) \/ SendEnds(r)
    PROVE  TypeOK' /\ Rest'
<1>0. run[r].at \in {"start", "pipe"}
  BY DEF StartPipe, StartFails, Transfer, SendFails, ReceiveDies, CopierGivesUp, SendEnds, At
<1>1. /\ TypeOK /\ run[r] \in Run /\ Carries(r) /\ run[r].task \in Tasks
      /\ Kind[run[r].task] = "replication" /\ run \in [Runs -> Run]
      /\ run[r].left \in 0..MaxChunks /\ MaxChunks \in Nat
  BY <1>0, AtPlace, Types, RunFacts, BoundsAssumption DEF Carrying, ReplicationOnly
<1>2. {"pipe", "drain"} \subseteq Carrying \ (Delivered \cup {"destroy", "destDestroy"})
  BY DEF Carrying, Delivered
<1>3. ASSUME NEW y \in Run, Same(run[r], y), y.at \in {"pipe", "drain"}, Quiet, run' = [run EXCEPT ![r] = y]
      PROVE  TypeOK' /\ Rest'
  BY <1>1, <1>2, <1>3, QuietStep
<1>4. CASE StartPipe(r)
  <2>1. PICK chunks \in 0..MaxChunks :
          run' = [run EXCEPT ![r].left = chunks, ![r].sendErr = ~ Sendable(r), ![r].seen = {}, ![r].at = "pipe"]
    BY <1>4 DEF StartPipe
  <2> DEFINE y == [run[r] EXCEPT !.left = chunks, !.sendErr = ~ Sendable(r), !.seen = {}, !.at = "pipe"]
  <2>2. y \in Run /\ Same(run[r], y) /\ y.at = "pipe"
    <3>1. CASE Sendable(r)
      <4>1. y = [run[r] EXCEPT !.left = chunks, !.sendErr = FALSE, !.seen = {}, !.at = "pipe"]
        BY <3>1
      <4> HIDE DEF y
      <4>2. QED
        BY <1>1, <4>1 DEF Run, Same, Location
    <3>2. CASE ~ Sendable(r)
      <4>1. y = [run[r] EXCEPT !.left = chunks, !.sendErr = TRUE, !.seen = {}, !.at = "pipe"]
        BY <3>2
      <4> HIDE DEF y
      <4>2. QED
        BY <1>1, <4>1 DEF Run, Same, Location
    <3>3. QED
      BY <3>1, <3>2
  <2>3. Quiet /\ run' = [run EXCEPT ![r] = y]
    BY <1>1, <1>4, <2>1 DEF StartPipe
  <2> HIDE DEF y
  <2>4. QED
    BY <1>3, <2>2, <2>3
<1>5. CASE StartFails(r)
  BY <1>5, FailStep DEF StartFails
<1>6. CASE Transfer(r)
  <2> DEFINE y == [run[r] EXCEPT !.left = @ - 1]
  <2>1. run[r].left - 1 \in 0..MaxChunks /\ run[r].at = "pipe"
    BY <1>1, <1>6 DEF Transfer, At
  <2>2. y \in Run /\ Same(run[r], y) /\ y.at = "pipe"
    BY <1>1, <2>1 DEF Run, Same
  <2>3. Quiet /\ run' = [run EXCEPT ![r] = y]
    BY <1>1, <1>6 DEF Transfer
  <2> HIDE DEF y
  <2>4. QED
    BY <1>3, <2>2, <2>3
<1>7. CASE SendFails(r)
  <2> DEFINE y == [run[r] EXCEPT !.left = 0, !.sendErr = TRUE]
  <2>1. y \in Run /\ Same(run[r], y) /\ y.at = "pipe"
    <3>1. run[r].at = "pipe" /\ 0 \in 0..MaxChunks
      BY <1>1, <1>7 DEF SendFails, At
    <3>2. QED
      BY <1>1, <3>1 DEF Run, Same
  <2>2. Quiet /\ run' = [run EXCEPT ![r] = y]
    BY <1>1, <1>7 DEF SendFails
  <2> HIDE DEF y
  <2>3. QED
    BY <1>3, <2>1, <2>2
<1>8. CASE ReceiveDies(r)
  <2> DEFINE y == [run[r] EXCEPT !.recv = "dead"]
  <2>1. y \in Run /\ Same(run[r], y) /\ y.at = "pipe"
    BY <1>1, <1>8 DEF Run, Same, ReceiveDies, At
  <2>2. Quiet /\ run' = [run EXCEPT ![r] = y]
    BY <1>1, <1>8 DEF ReceiveDies
  <2> HIDE DEF y
  <2>3. QED
    BY <1>3, <2>1, <2>2
<1>9. CASE CopierGivesUp(r)
  <2> DEFINE y == [run[r] EXCEPT !.left = @ - 1, !.recv = "gone"]
  <2>1. run[r].left - 1 \in 0..MaxChunks /\ run[r].at = "pipe"
    BY <1>1, <1>9 DEF CopierGivesUp, At
  <2>2. y \in Run /\ Same(run[r], y) /\ y.at = "pipe"
    BY <1>1, <2>1 DEF Run, Same
  <2>3. Quiet /\ run' = [run EXCEPT ![r] = y]
    BY <1>1, <1>9 DEF CopierGivesUp
  <2> HIDE DEF y
  <2>4. QED
    BY <1>3, <2>2, <2>3
<1>10. CASE SendEnds(r)
  <2> DEFINE y == [run[r] EXCEPT !.at = "drain"]
  <2>1. y \in Run /\ Same(run[r], y) /\ y.at = "drain"
    BY <1>1 DEF Run, Same, Location
  <2>2. Quiet /\ run' = [run EXCEPT ![r] = y]
    BY <1>1, <1>10 DEF SendEnds, Goto
  <2> HIDE DEF y
  <2>3. QED
    BY <1>3, <2>1, <2>2
<1>11. QED
  BY <1>4, <1>5, <1>6, <1>7, <1>8, <1>9, <1>10

LEMMA ReceiveSteps ==
    ASSUME Inv, NEW r \in Runs, ReceiveEnds(r) \/ ReceiveFails(r)
    PROVE  TypeOK' /\ Rest'
<1>0. run[r].at = "drain"
  BY DEF ReceiveEnds, ReceiveFails, At
<1>1. /\ TypeOK /\ run[r] \in Run /\ Carries(r) /\ run[r].task \in Tasks
      /\ Kind[run[r].task] = "replication" /\ run \in [Runs -> Run]
      /\ row \in RowType /\ jobMu \in JobMuType
  BY <1>0, AtPlace, Types DEF Carrying, ReplicationOnly
<1>2. ASSUME dst' = [dst EXCEPT ![run[r].task] = Received(r)], run' \in [Runs -> Run],
             row' \in RowType, jobMu' \in JobMuType,
             UNCHANGED <<src, bookmarks, taken, boundVars, disturbed>>
      PROVE  TypeOK'
  <2>1. Received(r) \in SUBSET Snap
    BY <1>1, ReceivedFacts
  <2>2. dst' \in [Tasks -> SUBSET Snap]
    BY <1>1, <1>2, <2>1 DEF TypeOK
  <2>3. QED
    BY <1>1, <1>2, <2>2 DEF TypeOK, RowType, JobMuType, boundVars
<1>3. CASE ReceiveFails(r)
  <2>1. Finish(r, "error") /\ UNCHANGED <<src, bookmarks, taken, boundVars, disturbed>>
    BY <1>3 DEF ReceiveFails
  <2>2. CASE UNCHANGED dst
    BY <2>1, <2>2, EndingStep DEF zfsVars
  <2>3. CASE dst' = [dst EXCEPT ![run[r].task] = Received(r)]
    <3>1. Moved(r) /\ run'[r].snap = NoSnap /\ run'[r].at \in Ends /\ row' \in RowType /\ jobMu' \in JobMuType
      BY <1>1, <2>1, FinishFacts
    <3>2. TypeOK'
      BY <1>2, <2>1, <2>3, <3>1 DEF Moved
    <3>3. Rest'
      BY <1>1, <2>1, <2>3, <3>1, ReceivingStep DEF Ends
    <3>4. QED
      BY <3>2, <3>3
  <2>4. QED
    BY <1>3, <2>2, <2>3 DEF ReceiveFails
<1>4. CASE ReceiveEnds(r)
  <2>1. /\ dst' = [dst EXCEPT ![run[r].task] = Received(r)] /\ Proceed(r)
        /\ UNCHANGED <<src, bookmarks, taken, boundVars, disturbed>>
    BY <1>4 DEF ReceiveEnds
  <2>2. CASE run[r].entry = "manual"
    <3>1. Moved(r) /\ run'[r].snap = NoSnap /\ run'[r].at \in Ends /\ row' \in RowType /\ jobMu' \in JobMuType
      BY <1>1, <2>1, <2>2, FinishFacts DEF Proceed
    <3>2. TypeOK'
      BY <1>2, <2>1, <3>1 DEF Moved
    <3>3. Rest'
      BY <1>1, <2>1, <3>1, ReceivingStep DEF Ends
    <3>4. QED
      BY <3>2, <3>3
  <2>3. CASE run[r].entry # "manual"
    <3> DEFINE y == [run[r] EXCEPT !.base = NoSnap, !.via = FALSE, !.at = "retain"]
    <3>1. y \in Run /\ Same(run[r], y) /\ y.at = "retain"
      BY <1>1 DEF Run, Same, Location
    <3>2. run' = [run EXCEPT ![r] = y] /\ row' = row /\ jobMu' = jobMu
      BY <1>1, <2>1, <2>3 DEF Proceed
    <3> HIDE DEF y
    <3>3. Moved(r) /\ run'[r] = y
      BY <1>1, <3>1, <3>2 DEF Moved
    <3>4. TypeOK'
      BY <1>1, <1>2, <2>1, <3>2, <3>3 DEF Moved
    <3>5. Rest'
      BY <1>1, <2>1, <3>1, <3>3, ReceivingStep
    <3>6. QED
      BY <3>4, <3>5
  <2>4. QED
    BY <2>2, <2>3
<1>5. QED
  BY <1>3, <1>4

\* Retention takes no snapshot for a victim that has none after it.
LEMMA VictimFacts ==
    ASSUME NEW t \in Tasks, NEW S \in SUBSET Snap
    PROVE  /\ ToDelete(t, S) \in SUBSET Snap
           /\ \A v \in ToDelete(t, S) : \E x \in Matching(t, S) : x.at > v.at
<1>1. Matching(t, S) \subseteq S
  BY DEF Matching
<1>2. ToDelete(t, S) \subseteq Matching(t, S)
  BY DEF ToDelete, AllButNewest
<1>3. ASSUME NEW v \in ToDelete(t, S)
      PROVE  \E x \in Matching(t, S) : x.at > v.at
  <2>1. Retention[t] \in Nat
    BY TasksAssumption
  <2>2. Retention[t] > 0 /\ Cardinality(Newer(Matching(t, S), v)) >= Retention[t]
    <3>1. CASE Retention[t] > 0
      BY <3>1 DEF ToDelete, AllButNewest
    <3>2. CASE ~ (Retention[t] > 0)
      BY <3>2 DEF ToDelete
    <3>3. QED
      BY <3>1, <3>2
  <2>3. Newer(Matching(t, S), v) # {}
    BY <2>1, <2>2, FS_EmptySet
  <2>4. QED
    BY <2>3 DEF Newer
<1>4. QED
  BY <1>1, <1>2, <1>3

LEMMA RetentionSteps ==
    ASSUME Inv, NEW r \in Runs,
           Retain(r) \/ RetainDest(r) \/ RetentionDone(r) \/ DestRetentionDone(r) \/ Bookmark(r)
    PROVE  TypeOK' /\ Rest'
<1>0. run[r].at \in {"retain", "destroy", "destRetain", "destDestroy", "bookmark"}
  BY DEF Retain, RetainDest, RetentionDone, DestRetentionDone, Bookmark, At
<1>1. /\ TypeOK /\ run[r] \in Run /\ Carries(r) /\ run[r].task \in Tasks /\ run[r].snap \in Snap
      /\ run \in [Runs -> Run] /\ RunInv
      /\ src \in SUBSET Snap /\ dst \in [Tasks -> SUBSET Snap]
      /\ run[r].at \in Delivered
      /\ run[r].at \in {"destRetain", "destDestroy", "bookmark"} => Kind[run[r].task] = "replication"
  BY <1>0, AtPlace, Types DEF Carrying, Delivered, ReplicationOnly, Inv, Rest
<1>2. {"destroy", "destRetain", "destDestroy", "bookmark"} \subseteq Carrying /\ "destroy" \notin ReplicationOnly
  BY DEF Carrying, ReplicationOnly
<1>3. CASE Retain(r)
  <2>1. PICK listed \in {src, {}} :
          run' = [run EXCEPT ![r].victims = ToDelete(run[r].task, listed), ![r].at = "destroy"]
    BY <1>3 DEF Retain
  <2> DEFINE V == ToDelete(run[r].task, listed)
  <2>2. V \in SUBSET Snap /\ \A v \in V : \E x \in Matching(run[r].task, listed) : x.at > v.at
    BY <1>1, VictimFacts
  <2>3. \A x \in Matching(run[r].task, listed) : x \in Matching(run[r].task, src)
    BY DEF Matching
  <2> HIDE DEF V
  <2>4. run[r].task \notin disturbed => \A v \in V : v.at < run[r].snap.at
    <3> SUFFICES ASSUME run[r].task \notin disturbed, NEW v \in V PROVE v.at < run[r].snap.at
      OBVIOUS
    <3>1. PICK x \in Matching(run[r].task, listed) : x.at > v.at
      BY <2>2
    <3>2. x \in Snap /\ x.at =< run[r].snap.at
      <4>1. x \in Matching(run[r].task, src) /\ x \in src
        BY <2>3 DEF Matching
      <4>2. QED
        BY <1>1, <4>1 DEF RunInv, Latest
    <3>3. v.at \in Nat /\ x.at \in Nat /\ run[r].snap.at \in Nat
      BY <1>1, <2>2, <3>2, SnapFacts
    <3>4. QED
      BY <3>1, <3>2, <3>3
  <2> DEFINE y == [run[r] EXCEPT !.victims = V, !.at = "destroy"]
  <2>5. y \in Run /\ Same(run[r], y) /\ y.at = "destroy" /\ y.victims = V
    BY <1>1, <2>2 DEF Run, Same, Location
  <2>6. Quiet /\ run' = [run EXCEPT ![r] = y]
    BY <1>1, <1>3, <2>1 DEF Retain, V
  <2> HIDE DEF y
  <2>7. QED
    BY <1>1, <1>2, <2>4, <2>5, <2>6, QuietStep
<1>4. CASE RetainDest(r)
  <2>1. PICK listed \in {{}, IF RetainsDest(run[r].task) THEN dst[run[r].task] ELSE {}} :
          run' = [run EXCEPT ![r].victims = ToDelete(run[r].task, listed), ![r].at = "destDestroy"]
    BY <1>4 DEF RetainDest
  <2>2. listed \subseteq dst[run[r].task] /\ listed \in SUBSET Snap
    BY <1>1
  <2> DEFINE V == ToDelete(run[r].task, listed)
  <2>3. V \in SUBSET Snap /\ \A v \in V : \E x \in Matching(run[r].task, listed) : x.at > v.at
    BY <1>1, <2>2, VictimFacts
  <2>4. \A x \in Matching(run[r].task, listed) : x \in dst[run[r].task] /\ x \in Snap
    BY <2>2 DEF Matching
  <2> HIDE DEF V
  <2>5. run[r].task \notin disturbed => \A v \in V : v.at < run[r].snap.at
    BY <1>1, <2>3, <2>4, SnapFacts DEF RunInv, Latest
  <2> DEFINE y == [run[r] EXCEPT !.victims = V, !.at = "destDestroy"]
  <2>6. y \in Run /\ Same(run[r], y) /\ y.at = "destDestroy" /\ y.victims = V
    BY <1>1, <2>3 DEF Run, Same, Location
  <2>7. Quiet /\ run' = [run EXCEPT ![r] = y]
    BY <1>1, <1>4, <2>1 DEF RetainDest, V
  <2>8. Kind[run[r].task] = "replication"
    BY <1>1, <1>4 DEF RetainDest, At
  <2> HIDE DEF y
  <2>9. QED
    BY <1>1, <1>2, <2>5, <2>6, <2>7, <2>8, QuietStep
<1>5. CASE RetentionDone(r)
  <2>1. CASE Kind[run[r].task] = "replication"
    <3> DEFINE y == [run[r] EXCEPT !.at = "destRetain"]
    <3>1. y \in Run /\ Same(run[r], y) /\ y.at = "destRetain"
      BY <1>1 DEF Run, Same, Location
    <3>2. Quiet /\ run' = [run EXCEPT ![r] = y]
      BY <1>1, <1>5, <2>1 DEF RetentionDone, Goto, Quiet
    <3> HIDE DEF y
    <3>3. QED
      BY <1>1, <1>2, <2>1, <3>1, <3>2, QuietStep
  <2>2. CASE Kind[run[r].task] # "replication"
    BY <1>5, <2>2, EndingStep DEF RetentionDone
  <2>3. QED
    BY <2>1, <2>2
<1>6. CASE DestRetentionDone(r)
  <2> DEFINE y == [run[r] EXCEPT !.at = "bookmark"]
  <2>1. y \in Run /\ Same(run[r], y) /\ y.at = "bookmark"
    BY <1>1 DEF Run, Same, Location
  <2>2. Quiet /\ run' = [run EXCEPT ![r] = y]
    BY <1>1, <1>6 DEF DestRetentionDone, Goto
  <2>3. Kind[run[r].task] = "replication"
    BY <1>1, <1>6 DEF DestRetentionDone, At
  <2> HIDE DEF y
  <2>4. QED
    BY <1>1, <1>2, <2>1, <2>2, <2>3, QuietStep
<1>7. CASE Bookmark(r)
  <2>1. Finish(r, "success") /\ UNCHANGED <<src, dst, taken, boundVars, disturbed>>
    BY <1>7 DEF Bookmark
  <2>2. bookmarks' \in SUBSET Snap
    BY <1>1, <1>7 DEF Bookmark, TypeOK
  <2>3. /\ Moved(r) /\ run'[r].snap = NoSnap /\ run'[r].at \notin Carrying /\ InPlace(run'[r])
        /\ row' \in RowType /\ jobMu' \in JobMuType
    BY <1>1, <2>1, FinishFacts
  <2>4. TypeOK'
    BY <1>1, <2>1, <2>2, <2>3 DEF TypeOK, RowType, JobMuType, boundVars, Moved
  <2>5. Rest'
    BY <2>1, <2>3, EmptyHandedStep DEF ChainSame
  <2>6. QED
    BY <2>4, <2>5
<1>8. QED
  BY <1>3, <1>4, <1>5, <1>6, <1>7

LEMMA VictimSteps ==
    ASSUME Inv, NEW r \in Runs, DestroyVictim(r) \/ DestroyDestVictim(r)
    PROVE  TypeOK' /\ Rest'
<1>0. run[r].at \in {"destroy", "destDestroy"}
  BY DEF DestroyVictim, DestroyDestVictim, At
<1>1. /\ TypeOK /\ run[r] \in Run /\ Carries(r) /\ run[r].task \in Tasks
      /\ run \in [Runs -> Run] /\ RunInv /\ PlaceInv
      /\ src \in SUBSET Snap /\ dst \in [Tasks -> SUBSET Snap]
      /\ run[r].victims \in SUBSET Snap /\ run[r].at \in Carrying
      /\ run[r].at \in ReplicationOnly => Kind[run[r].task] = "replication"
  BY <1>0, AtPlace, Types, RunFacts DEF Carrying, Inv, Rest
<1> DEFINE v == Oldest(run[r].victims)
           y == [run[r] EXCEPT !.victims = @ \ {v}]
<1>2. v \in run[r].victims
  BY <1>1, OldestFacts DEF DestroyVictim, DestroyDestVictim
<1>3. run' = [run EXCEPT ![r] = y]
  BY <1>1 DEF DestroyVictim, DestroyDestVictim
<1> HIDE DEF v
<1>4. y \in Run /\ Same(run[r], y) /\ y.at = run[r].at /\ y.victims \subseteq run[r].victims
  BY <1>1 DEF Run, Same
<1> HIDE DEF y
<1>5. /\ Moved(r) /\ run'[r] = y
      /\ \A q \in Runs : Same(run[q], run'[q]) /\ run'[q].at = run[q].at
                         /\ run'[q].victims \subseteq run[q].victims
  BY <1>1, <1>3, <1>4 DEF Moved, Same
<1>6. CASE DestroyVictim(r)
  <2>1. UNCHANGED <<row, jobMu, bookmarks, dst, taken, boundVars>>
    BY <1>6 DEF DestroyVictim
  <2>2. TasksRelyingOn(v) \in SUBSET Tasks
    BY <1>1 DEF TasksRelyingOn, PlaceInv
  <2>3. CASE v \in src /\ src' = src \ {v} /\ disturbed' = disturbed \union (TasksRelyingOn(v) \ {run[r].task})
    <3>1. TypeOK'
      BY <1>1, <1>5, <2>1, <2>2, <2>3 DEF TypeOK, Moved, boundVars
    <3>2. \A t \in TasksRelyingOn(v) \ disturbed' :
             \E q \in Runs : run[q].task = t /\ At(q, "destroy") /\ v \in run[q].victims
      BY <1>2, <1>6, <2>3 DEF DestroyVictim
    <3>3. Rest'
      BY <1>5, <2>1, <2>3, <3>2, DestroyStep
    <3>4. QED
      BY <3>1, <3>3
  <2>4. CASE UNCHANGED <<src, disturbed>>
    <3>1. TypeOK'
      BY <1>1, <1>5, <2>1, <2>4 DEF TypeOK, Moved, boundVars
    <3>2. run[r].task \notin disturbed => \A w \in run'[r].victims : w.at < run[r].snap.at
      BY <1>0, <1>1, <1>4, <1>5 DEF RunInv
    <3>3. Rest'
      BY <1>1, <1>4, <1>5, <2>1, <2>4, <3>2, KeepingStep DEF ChainSame
    <3>4. QED
      BY <3>1, <3>3
  <2>5. QED
    BY <1>6, <2>3, <2>4 DEF DestroyVictim, v
<1>7. CASE DestroyDestVictim(r)
  <2>1. /\ UNCHANGED <<row, jobMu, src, bookmarks, taken, boundVars, disturbed>>
        /\ dst' \in {dst, [dst EXCEPT ![run[r].task] = @ \ {v}]} /\ At(r, "destDestroy")
    BY <1>7 DEF DestroyDestVictim, v
  <2>2. dst' \in [Tasks -> SUBSET Snap]
    BY <1>1, <2>1
  <2>3. TypeOK'
    BY <1>1, <1>5, <2>1, <2>2 DEF TypeOK, Moved, boundVars
  <2>4. Rest'
    BY <1>2, <1>4, <1>5, <2>1, DestDestroyStep
  <2>5. QED
    BY <2>3, <2>4
<1>8. QED
  BY <1>6, <1>7

LEMMA DeleteStep ==
    ASSUME Inv, NEW s \in src, DeleteSnapshot(s)
    PROVE  TypeOK' /\ Rest'
<1>1. /\ TypeOK /\ PlaceInv
      /\ run' = run /\ row' = row /\ jobMu' = jobMu /\ bookmarks' = bookmarks /\ dst' = dst /\ taken' = taken
      /\ hub' = hub /\ src' = src \ {s} /\ disturbed' = disturbed \union TasksRelyingOn(s)
  BY DEF Inv, Rest, DeleteSnapshot
<1>2. TasksRelyingOn(s) \in SUBSET Tasks
  BY <1>1 DEF TasksRelyingOn, PlaceInv
<1>3. mishaps' \in 0..MaxMishaps
  BY <1>1, BoundsAssumption DEF DeleteSnapshot, Mishap, TypeOK
<1>4. TypeOK'
  BY <1>1, <1>2, <1>3 DEF TypeOK
<1>5. Rest'
  <2>1. \A q \in Runs : Same(run[q], run'[q]) /\ run'[q].at = run[q].at /\ run'[q].victims \subseteq run[q].victims
    BY <1>1 DEF Same
  <2>2. QED
    BY <1>1, <2>1, DestroyStep
<1>6. QED
  BY <1>4, <1>5

\* What the invariant but TypeOK does not read.
LEMMA RestSame ==
    ASSUME Rest, UNCHANGED <<run, src, dst, taken, disturbed>>
    PROVE  Rest'
<1>1. PlaceInv' /\ NumberInv'
  BY DEF Rest, PlaceInv, NumberInv, Active, Over, At, Carries
<1>2. AloneInv' /\ RunInv' /\ ChainInv'
  BY DEF Rest, AloneInv, RunInv, ChainInv, Carries, Latest, Matching
<1>3. QED
  BY <1>1, <1>2 DEF Rest

LEMMA HubStep ==
    ASSUME Inv, HubHangs \/ HubResumes
    PROVE  TypeOK' /\ Rest'
<1>1. /\ TypeOK /\ Rest /\ hub' \in {"answers", "hung"}
      /\ UNCHANGED <<run, row, jobMu, src, bookmarks, dst, taken, disturbed>>
  BY DEF Inv, HubHangs, HubResumes, zfsVars
<1>2. mishaps' \in 0..MaxMishaps
  BY <1>1, BoundsAssumption DEF HubHangs, HubResumes, Mishap, TypeOK
<1>3. TypeOK'
  BY <1>1, <1>2 DEF TypeOK
<1>4. QED
  BY <1>1, <1>3, RestSame

LEMMA InitInv == Init => Inv
<1> SUFFICES ASSUME Init PROVE Inv
  OBVIOUS
<1>0. /\ run = [r \in Runs |-> NotStarted] /\ row = [r \in Runs |-> "none"] /\ jobMu = NoRun
      /\ hub = "answers" /\ mishaps = 0 /\ disturbed = {}
  BY DEF Init
<1>1. \A r \in Runs : run[r] \in Run /\ run[r].snap = NoSnap /\ run[r].at = "idle"
  BY <1>0, RunFacts
<1>2. PlaceInv /\ AloneInv /\ RunInv
  BY <1>1, Places DEF PlaceInv, AloneInv, RunInv, Active, Over, At, Carries, ReplicationOnly
<1>3. CASE NoCopyYet
  <2>1. /\ src \in SUBSET Snap /\ bookmarks \in SUBSET Snap /\ dst \in [Tasks -> SUBSET Snap]
        /\ taken \in 0..MaxSnaps
    BY <1>3, BoundsAssumption DEF NoCopyYet
  <2>2. TypeOK
    BY <1>0, <1>1, <2>1, BoundsAssumption DEF TypeOK
  <2>3. NumberInv /\ ChainInv
    BY <1>1, <1>3 DEF NumberInv, ChainInv, NoCopyYet, Carries
  <2>4. QED
    BY <1>2, <2>2, <2>3 DEF Inv, Rest
<1>4. ASSUME NEW t \in Tasks, Kind[t] = "replication", MaxSnaps > 0, CopyMade(t)
      PROVE  Inv
  <2> DEFINE c == [prefix |-> Prefix[t], at |-> 1]
  <2>1. c \in Snap /\ c.prefix = Prefix[t] /\ c.at = 1
    BY <1>4, SnapFacts, BoundsAssumption
  <2>2. /\ src = {c} /\ taken = 1 /\ bookmarks \subseteq {c}
        /\ dst = [u \in Tasks |-> IF u = t THEN {c} ELSE {}]
    BY <1>4 DEF CopyMade
  <2> HIDE DEF c
  <2>3. TypeOK
    BY <1>0, <1>1, <1>4, <2>1, <2>2, BoundsAssumption DEF TypeOK
  <2>4. NumberInv
    BY <1>1, <1>4, <2>1, <2>2 DEF NumberInv, Carries
  <2>5. ChainInv
    BY <2>1, <2>2 DEF ChainInv, Latest
  <2>6. QED
    BY <1>2, <2>3, <2>4, <2>5 DEF Inv, Rest
<1>5. QED
  BY <1>3, <1>4 DEF Init

LEMMA NextStep == Inv /\ [Next]_vars => Inv'
<1> SUFFICES ASSUME Inv, [Next]_vars PROVE TypeOK' /\ Rest'
  BY DEF Inv
<1>1. ASSUME NEW r \in Runs, NEW t \in Tasks, Start(r, t) PROVE TypeOK' /\ Rest'
  BY <1>1, StartStep
<1>2. ASSUME NEW r \in Runs, LockJobMu(r) PROVE TypeOK' /\ Rest'
  BY <1>2, LockStep
<1>3. ASSUME NEW r \in Runs, Step(r) \/ ReceiveDies(r) PROVE TypeOK' /\ Rest'
  <2>1. CASE StartScrub(r)
    BY <2>1, EndingStep, FailStep DEF StartScrub
  <2>2. CASE CreateSnapshot(r)
    BY <2>2, CreatingStep
  <2>3. CASE CreateFails(r)
    BY <2>3, FailStep DEF CreateFails
  <2>4. CASE ListSource(r) \/ ListSourceFails(r) \/ ResolveBase(r) \/ NoTarget(r)
    BY <2>4, ListStep
  <2>5. CASE \/ StartPipe(r) \/ StartFails(r) \/ Transfer(r) \/ SendFails(r)
             \/ ReceiveDies(r) \/ CopierGivesUp(r) \/ SendEnds(r)
    BY <2>5, PipeStepsKeep
  <2>6. CASE ReceiveEnds(r) \/ ReceiveFails(r)
    BY <2>6, ReceiveSteps
  <2>7. CASE Retain(r) \/ RetainDest(r) \/ RetentionDone(r) \/ DestRetentionDone(r) \/ Bookmark(r)
    BY <2>7, RetentionSteps
  <2>8. CASE DestroyVictim(r) \/ DestroyDestVictim(r)
    BY <2>8, VictimSteps
  <2>9. CASE StartLogged(r) \/ EndLogged(r)
    BY <2>9, StartLoggedStep, EndLoggedStep
  <2>10. QED
    BY <1>3, <2>1, <2>2, <2>3, <2>4, <2>5, <2>6, <2>7, <2>8, <2>9 DEF Step, PipeStep
<1>4. ASSUME NEW s \in src, DeleteSnapshot(s) PROVE TypeOK' /\ Rest'
  BY <1>4, DeleteStep
<1>5. CASE CrashRestart
  BY <1>5, CrashStep
<1>6. CASE UNCHANGED vars
  <2>1. TypeOK /\ Rest /\ UNCHANGED <<run, row, jobMu, src, bookmarks, dst, taken, hub, mishaps, disturbed>>
    BY <1>6 DEF Inv, vars, zfsVars, boundVars
  <2>2. TypeOK'
    BY <2>1 DEF TypeOK
  <2>3. QED
    BY <2>1, <2>2, RestSame
<1>7. CASE HubHangs \/ HubResumes
  BY <1>7, HubStep
<1>8. QED
  BY <1>1, <1>2, <1>3, <1>4, <1>5, <1>6, <1>7 DEF Next

LEMMA InvHolds == Spec => []Inv
  BY InitInv, NextStep, PTL DEF Spec

(***************************************************************************)
(* The theorems.                                                           *)
(***************************************************************************)

\* Every variable has its type, for all tasks and all bounds.
THEOREM ReplicationTypes == Spec => []TypeOK
<1>1. Inv => TypeOK
  BY DEF Inv
<1>2. QED
  BY InvHolds, <1>1, PTL

\* applyRetention and FindCommonSnapshot: the newest snapshot of a destination is still on the
\* source, so that the next send of the task can be incremental, however its runs fail, unless
\* somebody else has reached into its chain.
THEOREM ChainAlwaysKept == Spec => []ChainKept
<1>1. Inv => ChainKept
  <2> SUFFICES ASSUME Inv, NEW t \in Tasks \ disturbed, dst[t] # {}
               PROVE  Newest(dst[t]) \in src
    BY DEF ChainKept
  <2>1. TypeOK /\ NumberInv /\ ChainInv /\ dst[t] \in SUBSET Snap
    BY DEF Inv, Rest, TypeOK
  <2>2. PICK s \in dst[t] \cap src : Latest(s, dst[t])
    BY <2>1 DEF ChainInv
  <2>3. Newer(dst[t], s) = {}
    BY <2>1, <2>2, SnapFacts DEF Newer, Latest
  <2>4. Newest(dst[t]) \in dst[t] /\ Newer(dst[t], Newest(dst[t])) = {}
    BY <2>2, <2>3 DEF Newest
  <2>5. Newest(dst[t]).at = s.at
    <3>1. /\ Newest(dst[t]).at =< s.at /\ ~ (s.at > Newest(dst[t]).at)
          /\ s.at \in Nat /\ Newest(dst[t]).at \in Nat
      BY <2>1, <2>2, <2>4, SnapFacts DEF Newer, Latest
    <3>2. QED
      BY <3>1
  <2>6. Newest(dst[t]) = s
    BY <2>1, <2>2, <2>4, <2>5, SnapFacts DEF NumberInv
  <2>7. QED
    BY <2>2, <2>6
<1>2. QED
  BY InvHolds, <1>1, PTL

\* runReplicationTask and handleRunReplicationTask: no step records a replication as a success
\* whose snapshot is not at the destination, unless other runs have reached into its chain.
THEOREM SuccessReplicates == Spec => SuccessMeansReplicated
<1> DEFINE Good(r) == LET t == run[r].task IN
        /\ row[r] # "success" /\ row'[r] = "success"
        /\ Kind[t] = "replication"
        => run[r].snap \in dst'[t] \/ t \in disturbed
<1>1. Inv /\ [Next]_vars => \A r \in Runs : Good(r)
  <2> SUFFICES ASSUME Inv, [Next]_vars, NEW r \in Runs,
                      row[r] # "success", row'[r] = "success", Kind[run[r].task] = "replication",
                      run[r].task \notin disturbed
               PROVE  run[r].snap \in dst'[run[r].task]
    OBVIOUS
  <2>1. /\ TypeOK /\ PlaceInv /\ RunInv /\ row \in RowType
    BY Types DEF Inv, Rest
  <2>2. PICK q \in Runs : \/ \E t \in Tasks : Start(q, t)
                          \/ LockJobMu(q) \/ Step(q)
    BY <2>1 DEF Next, ReceiveDies, Quiet, DeleteSnapshot, CrashRestart, HubHangs, HubResumes, vars
  <2>3. ASSUME NEW status \in {"running", "error"}, row' = [row EXCEPT ![q] = status]
        PROVE  FALSE
    BY <2>1, <2>3 DEF RowType
  <2>4. ~ \E t \in Tasks : Start(q, t)
    BY <2>1, <2>3 DEF Start, FireTask, SkipTask, RunNow, RunReplicationNow, Begin
  <2>5. ~ LockJobMu(q)
    BY <2>3 DEF LockJobMu, Begin
  <2>6. Finish(q, "success") /\ (StartScrub(q) \/ ReceiveEnds(q) \/ RetentionDone(q) \/ Bookmark(q))
    BY <2>2, <2>3, <2>4, <2>5
       DEF Step, PipeStep, StartLogged, EndLogged, StartScrub, CreateSnapshot, CreateFails, ListSource, ListSourceFails,
           ResolveBase, NoTarget, StartPipe, StartFails, Transfer, SendFails, CopierGivesUp, SendEnds,
           ReceiveEnds, ReceiveFails, Retain, DestroyVictim, RetentionDone, RetainDest,
           DestroyDestVictim, DestRetentionDone, Bookmark, Fail, Finish, Quiet, Goto, Proceed
  <2>7. q = r
    BY <2>1, <2>6 DEF Finish, RowType
  <2>8. CASE StartScrub(r)
    BY <2>1, <2>8 DEF StartScrub, PlaceInv, At
  <2>9. CASE ReceiveEnds(r)
    <3>1. Carries(r) /\ run[r].task \in Tasks
      BY <2>1, <2>9, AtPlace DEF ReceiveEnds, At, Carrying
    <3>2. dst' = [dst EXCEPT ![run[r].task] = Received(r)] /\ run[r].snap \in Received(r)
      BY <2>1, <2>9, <3>1, ReceivedFacts DEF ReceiveEnds
    <3>3. QED
      BY <2>1, <3>1, <3>2, Types
  <2>10. CASE RetentionDone(r) /\ Finish(r, "success")
    <3>1. row' = row
      BY <2>10 DEF RetentionDone
    <3>2. QED
      BY <3>1
  <2>11. CASE Bookmark(r)
    <3>1. Carries(r) /\ run[r].at \in Delivered
      BY <2>11, AtPlace DEF Bookmark, At, Carrying, Delivered
    <3>2. run[r].snap \in dst[run[r].task] /\ dst' = dst
      BY <2>1, <2>11, <3>1 DEF RunInv, Bookmark
    <3>3. QED
      BY <3>2
  <2>12. QED
    BY <2>6, <2>7, <2>8, <2>9, <2>10, <2>11
<1>2. QED
  BY InvHolds, <1>1, PTL DEF SuccessMeansReplicated, Spec

(***************************************************************************)
(* The write operations of the agent (ZfsOperations), for any properties,  *)
(* names and number of writes. OwnRefresh and ReadLater are what makes the *)
(* refresh of a write bring the cache past the write: it is started after  *)
(* the write, and reads after it was started.                              *)
(***************************************************************************)

\* The keys of the cache, and those of the pool.
Lists == {"pools", "datasets", "snaps"}
Fields == {"on", "status", "child", "set", "snaps", "changes"}

\* p has what a pool has, and n writes behind it.
PoolWith(p, n) == DOMAIN p = Fields /\ p.changes = n

\* What the records of the module have in them, and how far the pool has come.
Shapes ==
    /\ DOMAIN pool = Fields /\ pool.changes \in Nat
    /\ DOMAIN cache = Lists /\ \A list \in Lists : cache[list].at \in Nat
    /\ DOMAIN refresh = Refreshers
    /\ \A r \in Refreshers : /\ DOMAIN refresh[r] = {"pc", "from"} \cup Lists
                             /\ refresh[r].from \in 0..pool.changes
    /\ DOMAIN mark = Writes
    /\ \A k \in Writes : DOMAIN mark[k] = {"at", "state"} /\ mark[k].at \in Nat
    /\ writes \in 0..MaxWrites

\* A list that a refresh has read is no older than the refresh.
ReadLater ==
    \A r \in Refreshers, list \in Lists :
        /\ refresh[r][list].at \in Nat
        /\ refresh[r][list] = Nil \/ refresh[r].from <= refresh[r][list].at

\* The refresh of a write starts with it.
OwnRefresh ==
    \A k \in Writes : refresh[k].pc # "idle" => refresh[k].from = mark[k].at

OpsInv == Shapes /\ ReadLater /\ OwnRefresh /\ AnsweredWriteShown

(***************************************************************************)
(* The commands, the lists, and the steps of writes.                       *)
(***************************************************************************)

\* A command leaves the count of the writes alone.
LEMMA Commands ==
    ASSUME NEW n, NEW q, PoolWith(q, n), NEW p \in Results(q)
    PROVE  PoolWith(p, n)
<1> USE DEF PoolWith, Fields, Accepted
<1>1. CASE p \in CreateDataset(q)
  BY <1>1 DEF CreateDataset
<1>2. CASE p \in ExportPool(q) \cup ImportPool(q)
  BY <1>2 DEF ExportPool, ImportPool
<1>3. ASSUME NEW ok, NEW status, p \in Does(q, ok, status)
      PROVE  PoolWith(p, n)
  BY <1>3 DEF Does
<1>4. CASE p \in UNION {BeginScrub(q), PauseScrub(q), CancelScrub(q), ReplaceDevice(q),
                        AddVdev(q), OfflineDevice(q), OnlineDevice(q), ClearErrors(q)}
  BY <1>3, <1>4 DEF BeginScrub, PauseScrub, CancelScrub, ReplaceDevice, AddVdev, OfflineDevice,
                    OnlineDevice, ClearErrors
<1>5. ASSUME NEW b \in BOOLEAN, p \in DestroyDataset(q, b) PROVE PoolWith(p, n)
  BY <1>5 DEF DestroyDataset
<1>6. ASSUME NEW name \in Names, p \in TakeSnapshot(q, name) \cup DestroySnapshot(q, name)
      PROVE  PoolWith(p, n)
  BY <1>6 DEF TakeSnapshot, DestroySnapshot
<1>7. ASSUME NEW name \in Names, NEW b \in BOOLEAN, p \in RollbackSnapshot(q, name, b)
      PROVE  PoolWith(p, n)
  BY <1>7 DEF RollbackSnapshot
<1>8. QED
  BY <1>1, <1>2, <1>4, <1>5, <1>6, <1>7 DEF Results

LEMMA ListFacts ==
    /\ Nil.at = 0
    /\ \A status : LET l == PoolList(pool, status) IN l = Nil \/ l.at = pool.changes
    /\ LET l == DatasetList(pool) IN l = Nil \/ l.at = pool.changes
    /\ LET l == SnapshotList(pool) IN l = Nil \/ l.at = pool.changes
<1>1. Nil.at = 0
  BY DEF Nil
<1>2. ASSUME NEW status
      PROVE  PoolList(pool, status) = Nil \/ PoolList(pool, status).at = pool.changes
  BY DEF PoolList
<1>3. DatasetList(pool) = Nil \/ DatasetList(pool).at = pool.changes
  BY DEF DatasetList
<1>4. SnapshotList(pool) = Nil \/ SnapshotList(pool).at = pool.changes
  BY DEF SnapshotList
<1>5. QED
  BY <1>1, <1>2, <1>3, <1>4

LEMMA StartingFacts ==
    ASSUME NEW at \in Nat
    PROVE  LET f == Starting(at) IN
           /\ DOMAIN f = {"pc", "from"} \cup Lists
           /\ f.from = at /\ \A list \in Lists : f[list] = Nil
BY DEF Starting, AtRest, Lists

\* A write, whether a refresh follows it or not.
LEMMA PoolChanges ==
    ASSUME OpsInv, DOMAIN pool' = Fields, pool'.changes \in Nat, pool.changes <= pool'.changes,
           UNCHANGED <<cache, refresh, mark>>, writes' \in 0 .. MaxWrites
    PROVE  OpsInv'
<1>1. Shapes'
  BY DEF OpsInv, Shapes
<1>2. ReadLater' /\ OwnRefresh' /\ AnsweredWriteShown'
  BY DEF OpsInv, ReadLater, OwnRefresh, AnsweredWriteShown
<1>3. QED
  BY <1>1, <1>2 DEF OpsInv

LEMMA WriteAnswered ==
    ASSUME OpsInv, DOMAIN pool' = Fields, pool'.changes \in Nat, pool.changes <= pool'.changes,
           NEW k \in Writes, SpawnRefresh(k, pool'.changes), UNCHANGED cache,
           writes' \in 0 .. MaxWrites
    PROVE  OpsInv'
<1> DEFINE n == pool'.changes
<1>1. k \in Refreshers
  BY DEF Writes, Refreshers
<1>2. /\ DOMAIN refresh' = Refreshers /\ refresh'[k] = Starting(n)
      /\ \A r \in Refreshers \ {k} : refresh'[r] = refresh[r]
  BY <1>1 DEF SpawnRefresh, OpsInv, Shapes
<1>3. /\ DOMAIN mark' = Writes /\ mark'[k] = [at |-> n, state |-> "answered"]
      /\ \A i \in Writes \ {k} : mark'[i] = mark[i]
  BY DEF SpawnRefresh, OpsInv, Shapes
<1>4. mark'[k].at = n /\ mark'[k].state = "answered" /\ DOMAIN mark'[k] = {"at", "state"}
  BY <1>3
<1>5. /\ DOMAIN refresh'[k] = {"pc", "from"} \cup Lists
      /\ refresh'[k].from = n /\ \A list \in Lists : refresh'[k][list] = Nil
  BY <1>2, StartingFacts
<1>6. Shapes'
  BY <1>2, <1>3, <1>4, <1>5 DEF OpsInv, Shapes
<1>7. ReadLater'
  BY <1>2, <1>5, ListFacts DEF OpsInv, ReadLater
<1>8. OwnRefresh'
  <2>1. \A i \in Writes : i \in Refreshers
    BY DEF Writes, Refreshers
  <2>2. QED
    BY <1>2, <1>3, <1>4, <1>5, <2>1 DEF OpsInv, OwnRefresh
<1>9. AnsweredWriteShown'
  BY <1>3, <1>4 DEF OpsInv, AnsweredWriteShown
<1>10. QED
  BY <1>6, <1>7, <1>8, <1>9 DEF OpsInv

\* A refresh goes on with the lists it has read so far.
LEMMA Reading ==
    ASSUME OpsInv, NEW r \in Refreshers, refresh[r].pc # "idle",
           UNCHANGED <<pool, cache, mark, writes>>, DOMAIN refresh' = Refreshers,
           \A q \in Refreshers \ {r} : refresh'[q] = refresh[q],
           DOMAIN refresh'[r] = DOMAIN refresh[r], refresh'[r].from = refresh[r].from,
           \A list \in Lists :
               \/ refresh'[r][list] \in {refresh[r][list], Nil}
               \/ refresh'[r][list].at = pool.changes
    PROVE  OpsInv'
<1>1. Shapes'
  BY DEF OpsInv, Shapes
<1>2. ReadLater'
  <2>1. refresh[r].from <= pool.changes /\ pool.changes \in Nat
    BY DEF OpsInv, Shapes
  <2>2. ASSUME NEW list \in Lists
        PROVE  /\ refresh'[r][list].at \in Nat
               /\ refresh'[r][list] = Nil \/ refresh'[r].from <= refresh'[r][list].at
    BY <2>1, ListFacts DEF OpsInv, ReadLater
  <2>3. QED
    BY <2>2 DEF OpsInv, ReadLater
<1>3. OwnRefresh'
  <2>1. \A k \in Writes : k \in Refreshers
    BY DEF Writes, Refreshers
  <2>2. QED
    BY <2>1 DEF OpsInv, OwnRefresh
<1>4. AnsweredWriteShown'
  BY DEF OpsInv, AnsweredWriteShown
<1>5. QED
  BY <1>1, <1>2, <1>3, <1>4 DEF OpsInv

LEMMA ChangedPool ==
    ASSUME NEW p, PoolWith(p, pool.changes), pool.changes \in Nat
    PROVE  /\ DOMAIN Changed(p) = Fields /\ Changed(p).changes \in Nat
           /\ pool.changes <= Changed(p).changes
BY DEF PoolWith, Changed, Fields

LEMMA PoolNow ==
    ASSUME OpsInv
    PROVE  /\ PoolWith(pool, pool.changes) /\ pool.changes \in Nat
           /\ \A q : PoolWith([pool EXCEPT !.set = q], pool.changes)
BY DEF OpsInv, Shapes, PoolWith, Fields

LEMMA WriteCount ==
    ASSUME OpsInv, CanWrite, writes' = writes + 1
    PROVE  writes' \in Writes /\ writes' \in 0..MaxWrites
BY OpsBoundsAssumption DEF OpsInv, Shapes, CanWrite, Writes

LEMMA OneCommand ==
    ASSUME OpsInv, NEW p \in Results(pool), pool' = Changed(p)
    PROVE  /\ DOMAIN pool' = Fields /\ pool'.changes \in Nat
           /\ pool.changes <= pool'.changes
BY PoolNow, Commands, ChangedPool

LEMMA WriteStep == ASSUME OpsInv, Write PROVE OpsInv'
<1>1. PICK p \in Results(pool) : pool' = Changed(p)
  BY DEF Write
<1>2. writes' \in Writes /\ writes' \in 0..MaxWrites
  BY WriteCount DEF Write
<1>3. SpawnRefresh(writes', pool'.changes) /\ UNCHANGED cache
  BY DEF Write
<1>4. QED
  BY <1>1, <1>2, <1>3, OneCommand, WriteAnswered

LEMMA KilledStep == ASSUME OpsInv, WriteKilled PROVE OpsInv'
<1>1. PICK p \in Results(pool) : pool' = Changed(p)
  BY DEF WriteKilled
<1>2. writes' \in 0..MaxWrites
  BY WriteCount DEF WriteKilled
<1>3. UNCHANGED <<cache, refresh, mark>>
  BY DEF WriteKilled
<1>4. QED
  BY <1>1, <1>2, <1>3, OneCommand, PoolChanges

\* The pool stays and nothing is refreshed.
LEMMA HandlerOnly ==
    ASSUME OpsInv, UNCHANGED <<pool, cache, refresh, mark>>, writes' \in 0..MaxWrites
    PROVE  OpsInv'
BY PoolChanges, PoolNow DEF PoolWith

LEMMA SetStep == ASSUME OpsInv, NEW k \in Writes, SetProperty(k) PROVE OpsInv'
<1>1. /\ DOMAIN pool' = Fields /\ pool'.changes \in Nat
      /\ pool.changes <= pool'.changes
  BY PoolNow, ChangedPool DEF SetProperty
<1>2. UNCHANGED cache /\ writes' \in 0..MaxWrites
  BY DEF SetProperty, OpsInv, Shapes
<1>3. CASE SpawnRefresh(k, pool'.changes)
  BY <1>1, <1>2, <1>3, WriteAnswered
<1>4. CASE UNCHANGED <<refresh, mark>>
  BY <1>1, <1>2, <1>4, PoolChanges
<1>5. QED
  BY <1>3, <1>4 DEF SetProperty

LEMMA EditFailsStep == ASSUME OpsInv, NEW k \in Writes, EditFails(k) PROVE OpsInv'
<1>1. UNCHANGED <<cache, refresh, mark>> /\ writes' \in 0..MaxWrites
  BY DEF EditFails, OpsInv, Shapes
<1>2. CASE UNCHANGED pool
  BY <1>1, <1>2, HandlerOnly
<1>3. CASE pool' = Changed([pool EXCEPT !.set = @ \cup {Head(handler[k].todo)}])
  <2>1. /\ DOMAIN pool' = Fields /\ pool'.changes \in Nat
        /\ pool.changes <= pool'.changes
    BY <1>3, PoolNow, ChangedPool
  <2>2. QED
    BY <1>1, <2>1, PoolChanges
<1>4. QED
  BY <1>2, <1>3 DEF EditFails

LEMMA CleanupNextStep == ASSUME OpsInv, NEW k \in Writes, CleanupNext(k) PROVE OpsInv'
<1> DEFINE n == Head(handler[k].todo).name
<1>1. UNCHANGED <<cache, refresh, mark>> /\ writes' \in 0..MaxWrites
  BY DEF CleanupNext, OpsInv, Shapes
<1>2. CASE UNCHANGED pool
  BY <1>1, <1>2, HandlerOnly
<1>3. ASSUME NEW p \in DestroySnapshot(pool, n), pool' = Changed(p)
      PROVE  OpsInv'
  <2>1. PoolWith(p, pool.changes) /\ pool.changes \in Nat
    BY PoolNow DEF DestroySnapshot, Accepted, PoolWith, Fields
  <2>2. QED
    BY <1>1, <1>3, <2>1, ChangedPool, PoolChanges
<1>4. QED
  BY <1>2, <1>3 DEF CleanupNext

LEMMA CleanupEndsStep == ASSUME OpsInv, NEW k \in Writes, CleanupEnds(k) PROVE OpsInv'
<1>1. /\ SpawnRefresh(k, pool'.changes) /\ UNCHANGED cache
      /\ pool' = pool /\ writes' \in 0..MaxWrites
  BY DEF CleanupEnds, OpsInv, Shapes
<1>2. QED
  BY <1>1, PoolNow, WriteAnswered DEF PoolWith

LEMMA ScrubStep == ASSUME OpsInv, ScrubEnds PROVE OpsInv'
<1>1. UNCHANGED <<cache, refresh, mark>> /\ writes' \in 0..MaxWrites
  BY DEF ScrubEnds, OpsInv, Shapes
<1>2. DOMAIN pool' = Fields /\ pool'.changes = pool.changes
  BY DEF ScrubEnds, OpsInv, Shapes, Fields
<1>3. QED
  BY <1>1, <1>2, PoolNow, PoolChanges

(***************************************************************************)
(* The steps of refreshes.                                                 *)
(***************************************************************************)

LEMMA TickStep == ASSUME OpsInv, CollectionTick PROVE OpsInv'
<1> DEFINE n == pool.changes
<1>1. 0 \in Refreshers /\ 0 \notin Writes
  BY OpsBoundsAssumption DEF Refreshers, Writes
<1>2. /\ DOMAIN refresh' = Refreshers /\ refresh'[0] = Starting(n)
      /\ \A r \in Refreshers \ {0} : refresh'[r] = refresh[r]
      /\ UNCHANGED <<pool, cache, mark, writes>>
  BY <1>1 DEF CollectionTick, OpsInv, Shapes
<1>3. n \in Nat
  BY PoolNow
<1>4. /\ DOMAIN refresh'[0] = {"pc", "from"} \cup Lists
      /\ refresh'[0].from = n /\ \A list \in Lists : refresh'[0][list] = Nil
  BY <1>2, <1>3, StartingFacts
<1>5. Shapes'
  BY <1>2, <1>3, <1>4 DEF OpsInv, Shapes
<1>6. ReadLater'
  BY <1>2, <1>4, ListFacts DEF OpsInv, ReadLater
<1>7. OwnRefresh'
  <2>1. \A k \in Writes : k \in Refreshers \ {0}
    BY DEF Writes, Refreshers
  <2>2. QED
    BY <1>2, <2>1 DEF OpsInv, OwnRefresh
<1>8. AnsweredWriteShown'
  BY <1>2 DEF OpsInv, AnsweredWriteShown
<1>9. QED
  BY <1>5, <1>6, <1>7, <1>8 DEF OpsInv

LEMMA ListPoolsStep == ASSUME OpsInv, NEW r \in Refreshers, ListPools(r) PROVE OpsInv'
<1>1. PICK l : Listed(r, l) /\ (l = Nil \/ l.at = pool.changes)
  BY ListFacts DEF ListPools
<1>2. /\ refresh[r].pc # "idle" /\ UNCHANGED <<pool, cache, mark, writes>>
  BY DEF ListPools
<1>3. DOMAIN refresh = Refreshers /\ DOMAIN refresh[r] = {"pc", "from"} \cup Lists
  BY DEF OpsInv, Shapes
<1>4. /\ DOMAIN refresh' = Refreshers
      /\ \A q \in Refreshers \ {r} : refresh'[q] = refresh[q]
      /\ DOMAIN refresh'[r] = DOMAIN refresh[r]
      /\ \A f \in DOMAIN refresh[r] \ {"pc", "pools"} : refresh'[r][f] = refresh[r][f]
      /\ refresh'[r].pools = l
  BY <1>1, <1>3 DEF Listed, Lists
<1>5. /\ refresh'[r].from = refresh[r].from
      /\ \A list \in Lists : \/ refresh'[r][list] \in {refresh[r][list], Nil}
                             \/ refresh'[r][list].at = pool.changes
  BY <1>1, <1>3, <1>4 DEF Lists
<1>6. QED
  BY <1>2, <1>4, <1>5, Reading

LEMMA ListZfsStep == ASSUME OpsInv, NEW r \in Refreshers, ListZfs(r) PROVE OpsInv'
<1>0. PICK failed : refresh' = [refresh EXCEPT
                  ![r].pc = "store",
                  ![r].datasets = IF "datasets" \in failed THEN Nil ELSE DatasetList(pool),
                  ![r].snaps = IF "snaps" \in failed THEN Nil ELSE SnapshotList(pool)]
  BY DEF ListZfs
<1> DEFINE d == IF "datasets" \in failed THEN Nil ELSE DatasetList(pool)
<1> DEFINE s == IF "snaps" \in failed THEN Nil ELSE SnapshotList(pool)
<1>1. /\ d = Nil \/ d.at = pool.changes
      /\ s = Nil \/ s.at = pool.changes
      /\ refresh' = [refresh EXCEPT ![r].pc = "store", ![r].datasets = d, ![r].snaps = s]
  BY <1>0, ListFacts
<1> HIDE DEF d, s
<1>2. /\ refresh[r].pc # "idle" /\ UNCHANGED <<pool, cache, mark, writes>>
  BY DEF ListZfs
<1>3. DOMAIN refresh = Refreshers /\ DOMAIN refresh[r] = {"pc", "from"} \cup Lists
  BY DEF OpsInv, Shapes
<1>4. /\ DOMAIN refresh' = Refreshers
      /\ \A q \in Refreshers \ {r} : refresh'[q] = refresh[q]
      /\ DOMAIN refresh'[r] = DOMAIN refresh[r]
      /\ \A f \in DOMAIN refresh[r] \ {"pc", "datasets", "snaps"} : refresh'[r][f] = refresh[r][f]
      /\ refresh'[r].datasets = d /\ refresh'[r].snaps = s
  BY <1>1, <1>3 DEF Lists
<1>5. /\ refresh'[r].from = refresh[r].from
      /\ \A list \in Lists : \/ refresh'[r][list] \in {refresh[r][list], Nil}
                             \/ refresh'[r][list].at = pool.changes
  BY <1>1, <1>3, <1>4 DEF Lists
<1>6. QED
  BY <1>2, <1>4, <1>5, Reading

LEMMA StoreStep == ASSUME OpsInv, NEW r \in Refreshers, Store(r) PROVE OpsInv'
<1> DEFINE from == refresh[r].from
<1>1. /\ DOMAIN refresh = Refreshers /\ pool.changes \in Nat
      /\ DOMAIN cache = Lists /\ DOMAIN mark = Writes
      /\ UNCHANGED <<pool, writes>>
  BY DEF OpsInv, Shapes, Store
<1>2. /\ DOMAIN refresh' = Refreshers /\ refresh'[r] = AtRest
      /\ \A q \in Refreshers \ {r} : refresh'[q] = refresh[q]
  BY <1>1 DEF Store
<1>3. /\ AtRest.pc = "idle" /\ AtRest.from = 0
      /\ DOMAIN AtRest = {"pc", "from"} \cup Lists
      /\ \A list \in Lists : AtRest[list] = Nil
  BY DEF AtRest, Lists
<1>4. DOMAIN cache' = Lists
  BY DEF Store, Lists
<1>5. ASSUME NEW list \in Lists
      PROVE  /\ refresh[r][list] = Nil => cache'[list] = cache[list]
             /\ refresh[r][list] # Nil => cache'[list] = refresh[r][list]
  BY DEF Store, Lists, Keep
<1>6. /\ DOMAIN mark' = Writes
      /\ \A k \in Writes : DOMAIN mark'[k] = {"at", "state"} /\ mark'[k].at = mark[k].at
  <2>1. DOMAIN mark' = Writes
    BY DEF Store, MarkAfter
  <2>2. ASSUME NEW k \in Writes
        PROVE  DOMAIN mark'[k] = {"at", "state"} /\ mark'[k].at = mark[k].at
    <3>1. DOMAIN mark[k] = {"at", "state"}
      BY DEF OpsInv, Shapes
    <3>2. \/ mark'[k] = mark[k]
          \/ \E s : mark'[k] = [mark[k] EXCEPT !.state = s]
      BY DEF Store, MarkAfter
    <3>3. QED
      BY <3>1, <3>2
  <2>3. QED
    BY <2>1, <2>2
<1>7. Shapes'
  <2>1. \A list \in Lists : cache'[list].at \in Nat
    BY <1>5 DEF OpsInv, Shapes, ReadLater
  <2>2. QED
    BY <1>1, <1>2, <1>3, <1>4, <1>6, <2>1 DEF OpsInv, Shapes
<1>8. ReadLater'
  BY <1>2, <1>3, ListFacts DEF OpsInv, ReadLater
<1>9. OwnRefresh'
  <2>1. \A k \in Writes : k \in Refreshers
    BY DEF Writes, Refreshers
  <2>2. QED
    BY <1>2, <1>3, <1>6, <2>1 DEF OpsInv, OwnRefresh
<1>10. AnsweredWriteShown'
  <2>1. SUFFICES ASSUME NEW k \in Writes, mark'[k].state = "refreshed", NEW list \in Lists
                 PROVE  cache'[list].at >= mark[k].at
    BY <1>4, <1>6 DEF AnsweredWriteShown
  <2>2. mark[k].at \in Nat /\ from \in Nat /\ cache[list].at \in Nat /\ refresh[r][list].at \in Nat
    BY <1>1 DEF OpsInv, Shapes, ReadLater
  <2>3. refresh[r][list] = Nil \/ from <= refresh[r][list].at
    BY DEF OpsInv, ReadLater
  <2>4. CASE k = r /\ Complete(refresh[r])
    <3>1. from = mark[k].at
      BY <2>4 DEF Store, OpsInv, OwnRefresh
    <3>2. refresh[r][list] # Nil
      BY <2>4 DEF Complete, Lists
    <3>3. QED
      BY <1>5, <2>2, <2>3, <3>1, <3>2
  <2>5. CASE ~(k = r /\ Complete(refresh[r]))
    <3>1. mark'[k] = IF mark[k].state = "refreshed" /\ from < mark[k].at
                     THEN [mark[k] EXCEPT !.state = "overwritten"] ELSE mark[k]
      BY <2>5 DEF Store, MarkAfter
    <3>2. DOMAIN mark[k] = {"at", "state"}
      BY DEF OpsInv, Shapes
    <3>3. mark[k].state = "refreshed" /\ ~(from < mark[k].at)
      BY <2>1, <3>1, <3>2
    <3>4. cache[list].at >= mark[k].at
      BY <1>1, <3>3 DEF OpsInv, AnsweredWriteShown
    <3>5. QED
      BY <1>5, <2>2, <2>3, <3>3, <3>4
  <2>6. QED
    BY <2>4, <2>5
<1>11. QED
  BY <1>7, <1>8, <1>9, <1>10 DEF OpsInv

(***************************************************************************)
(* The invariant of the write operations.                                  *)
(***************************************************************************)

LEMMA OpsInvInit == ASSUME OpsInit PROVE OpsInv
<1>1. DOMAIN pool = Fields /\ pool.changes = 0
  BY DEF OpsInit, NewPool, Fields
<1>2. DOMAIN refresh = Refreshers
  BY DEF OpsInit
<1>3. \A r \in Refreshers : /\ DOMAIN refresh[r] = {"pc", "from"} \cup Lists
                            /\ refresh[r].from = 0
                            /\ \A list \in Lists : refresh[r][list] = Nil
                            /\ r # 0 => refresh[r].pc = "idle"
  BY DEF OpsInit, AtRest, Lists
<1>4. DOMAIN cache = Lists /\ \A list \in Lists : cache[list] = Nil
  BY DEF OpsInit, Lists
<1>5. /\ DOMAIN mark = Writes /\ writes \in 0..MaxWrites
      /\ \A k \in Writes : /\ DOMAIN mark[k] = {"at", "state"}
                           /\ mark[k].at = 0 /\ mark[k].state = "none"
  BY OpsBoundsAssumption DEF OpsInit
<1>6. Shapes
  BY <1>1, <1>2, <1>3, <1>4, <1>5, ListFacts DEF Shapes
<1>7. ReadLater
  BY <1>3, ListFacts DEF ReadLater
<1>8. OwnRefresh
  BY <1>3, <1>5 DEF OwnRefresh, Writes, Refreshers
<1>9. AnsweredWriteShown
  BY <1>5 DEF AnsweredWriteShown
<1>10. QED
  BY <1>6, <1>7, <1>8, <1>9 DEF OpsInv

LEMMA OpsStep == ASSUME OpsInv, [OpsNext]_opsVars PROVE OpsInv'
<1>1. CASE UNCHANGED opsVars
  BY <1>1, HandlerOnly DEF opsVars, OpsInv, Shapes
<1>2. CASE BeginEdit
  BY <1>2, HandlerOnly, WriteCount DEF BeginEdit
<1>3. CASE BeginCleanup
  BY <1>3, HandlerOnly, WriteCount DEF BeginCleanup
<1>4. QED
  BY <1>1, <1>2, <1>3, WriteStep, KilledStep, ScrubStep, TickStep, SetStep, EditFailsStep,
     CleanupNextStep, CleanupEndsStep, ListPoolsStep, ListZfsStep, StoreStep DEF OpsNext

\* Once the refresh after an answered write has stored all three lists, the cache shows the
\* write or what came later, until a refresh that was under way before the write overwrites
\* it (Collector.Refresh, refreshAndFlush), however many writes and refreshes overlap.
THEOREM AnsweredWritesShown == OpsSpec => []AnsweredWriteShown
<1>1. OpsInit => OpsInv
  BY OpsInvInit
<1>2. OpsInv /\ [OpsNext]_opsVars => OpsInv'
  BY OpsStep
<1>3. OpsInv => AnsweredWriteShown
  BY DEF OpsInv
<1>4. QED
  BY <1>1, <1>2, <1>3, PTL DEF OpsSpec
=============================================================================
