---------------------------- MODULE ZfsReplication ----------------------------
(***************************************************************************)
(* The task runs of the ZFS agent: the scheduled snapshot, scrub and       *)
(* replication tasks of internal/scheduler/scheduler.go, the manual        *)
(* replication run of internal/agent/server_replication.go, and the        *)
(* send | receive pipe of internal/agent/replication.go, over one source   *)
(* dataset and one destination dataset per replication task.               *)
(*                                                                         *)
(* A run is a goroutine: a cron firing, a "Run Now", or a manual           *)
(* replication.  Runs are numbered in the order in which they start.  Each *)
(* zfs or ssh command is an action, and so is each chunk that the pipe     *)
(* between the two processes of a replication passes on.  Which commands   *)
(* fail is left open.  No receive this program starts leaves a resume      *)
(* token (zfs keeps one only for receive -s, which only a resume uses), so *)
(* that branch has no action here; last_sent_snap is written and shown,    *)
(* and nothing reads it, so it has no variable.                            *)
(***************************************************************************)
EXTENDS Integers, FiniteSets

CONSTANTS
    Tasks, NoTask,   \* the rows of scheduled_tasks, all on one source dataset
    Kind,            \* task_type of a task
    Prefix,          \* its snapshot prefix
    Covers,          \* pairs <<p, q>>: a snapshot named after q has the prefix "p-"
    Retention,       \* its retention, 0 for none
    Remote,          \* the tasks whose replication_mode is "remote"
    UseBookmarks,    \* the tasks with use_bookmarks
    ManageRemote,    \* the tasks with manage_remote_retention
    NoSnap,          \* no snapshot
    MaxRuns,         \* bound on the runs
    ManualRuns,      \* those of them that may be manual replications
    MaxSnaps,        \* bound on the snapshots ever taken
    MaxChunks,       \* bound on the chunks of a stream
    MaxMishaps       \* bound on deletions by hand, restarts and hangs of the hub, together

TaskPrefixes == {Prefix[t] : t \in Tasks}
Snap == [prefix : TaskPrefixes, at : 1..MaxSnaps]
Runs == 1..MaxRuns
NoRun == 0

ASSUME TasksAssumption ==
    /\ NoTask \notin Tasks
    /\ Kind \in [Tasks -> {"snapshot", "scrub", "replication"}]
    /\ Retention \in [Tasks -> Nat]
    /\ Remote \union UseBookmarks \union ManageRemote \subseteq Tasks
ASSUME PrefixAssumption == \A p \in TaskPrefixes : <<p, p>> \in Covers
ASSUME NoSnapAssumption == NoSnap \notin Snap
ASSUME BoundsAssumption ==
    /\ MaxRuns \in Nat /\ ManualRuns \subseteq 1..MaxRuns /\ MaxSnaps \in Nat /\ MaxChunks \in Nat
    /\ MaxMishaps \in Nat

VARIABLES
    run,        \* the locals and the place of a run
    row,        \* the status of its row in job_history
    jobMu,      \* the run that holds Scheduler.jobMu
    src,        \* the snapshots of the source dataset
    bookmarks,  \* the snapshots it has bookmarks of
    dst,        \* the snapshots of each task's destination
    taken,      \* the snapshots taken so far
    hub,        \* whether it answers the posts of log lines
    mishaps,    \* deletions by hand, restarts and hangs of the hub so far
    disturbed   \* history: tasks whose chain another actor has reached into

zfsVars == <<src, bookmarks, dst, taken>>
boundVars == <<hub, mishaps>>
vars == <<run, row, jobMu, zfsVars, boundVars, disturbed>>

-----------------------------------------------------------------------------
(* Types *)

Location == {"idle", "waiting", "skipped", "announce", "scrub", "snapshot", "list", "resolve",
             "start", "pipe", "drain", "retain", "destroy", "destRetain",
             "destDestroy", "bookmark", "report", "over", "dead"}

(* entry: cron fired, handleRunTask, or handleRunReplicationTask.          *)
(* recv: the receiving process runs; has ended; has ended, and the copier  *)
(* of its standard input has noticed.                                      *)
Run == [task    : Tasks \union {NoTask},
        entry   : {"none", "cron", "now", "manual"},
        at      : Location,
        snap    : Snap \union {NoSnap},
        seen    : SUBSET Snap,
        base    : Snap \union {NoSnap},
        via     : BOOLEAN,
        left    : 0..MaxChunks,
        recv    : {"up", "dead", "gone"},
        sendErr : BOOLEAN,
        victims : SUBSET Snap]

NotStarted ==
    [task |-> NoTask, entry |-> "none", at |-> "idle", snap |-> NoSnap, seen |-> {},
     base |-> NoSnap, via |-> FALSE, left |-> 0, recv |-> "up", sendErr |-> FALSE,
     victims |-> {}]

At(r, place) == run[r].at = place
Over(r) == run[r].at \in {"skipped", "report", "over", "dead"}   \* its task is
Active(r) == ~ Over(r) /\ run[r].at \notin {"idle", "waiting"}

(* The datasets are older than the agent: an earlier one may have made the *)
(* first copy of one task, and its bookmark.                               *)
NoCopyYet ==
    /\ src = {} /\ bookmarks = {} /\ taken = 0
    /\ dst = [t \in Tasks |-> {}]

CopyMade(t) ==
    LET copy == {[prefix |-> Prefix[t], at |-> 1]} IN
    /\ src = copy /\ taken = 1
    /\ bookmarks = IF t \in Remote \intersect UseBookmarks THEN copy ELSE {}
    /\ dst = [u \in Tasks |-> IF u = t THEN copy ELSE {}]

Init ==
    /\ run = [r \in Runs |-> NotStarted]
    /\ row = [r \in Runs |-> "none"]
    /\ jobMu = NoRun
    /\ NoCopyYet \/ \E t \in Tasks : Kind[t] = "replication" /\ MaxSnaps > 0 /\ CopyMade(t)
    /\ hub = "answers" /\ mishaps = 0
    /\ disturbed = {}

-----------------------------------------------------------------------------
(* Snapshots *)

Matching(t, snaps) == {s \in snaps : <<Prefix[t], s.prefix>> \in Covers}
Newer(snaps, s) == {x \in snaps : x.at > s.at}
Newest(snaps) == CHOOSE s \in snaps : Newer(snaps, s) = {}
Oldest(snaps) == CHOOSE s \in snaps : \A x \in snaps : s.at <= x.at

(* FindCommonSnapshot                                                      *)
CommonSnapshot(srcSnaps, dstSnaps) ==
    IF srcSnaps \intersect dstSnaps = {} THEN NoSnap ELSE Newest(srcSnaps \intersect dstSnaps)

(* toDelete of the three retention functions: all but the newest.          *)
OneTooMany(t, snaps) ==
    {s \in Matching(t, snaps) : Cardinality(Newer(Matching(t, snaps), s)) + 1 >= Retention[t]}
AllButNewest(t, snaps) ==
    {s \in Matching(t, snaps) : Cardinality(Newer(Matching(t, snaps), s)) >= Retention[t]}
ToDelete(t, snaps) == IF Retention[t] > 0 THEN AllButNewest(t, snaps) ELSE {}

(* A snapshot that a zfs send reads, or reads from, cannot be destroyed.   *)
InUse(s) ==
    \E r \in Runs : At(r, "pipe") /\ (s = run[r].snap \/ (s = run[r].base /\ ~ run[r].via))

(* History: what becomes of other tasks' chains when u destroys s.         *)
TasksRelyingOn(s) ==
    {t \in Tasks : s \in dst[t]}
        \union {run[r].task : r \in {q \in Runs : Active(q) /\ run[q].snap = s}}

-----------------------------------------------------------------------------
(* Starting and ending a run *)

Idle(r) == At(r, "idle") /\ \A q \in Runs : q < r => ~ At(q, "idle")

FirstPlace(t) == IF Kind[t] = "scrub" THEN "scrub" ELSE "snapshot"

Goto(r, place) == run' = [run EXCEPT ![r].at = place]

Quiet == UNCHANGED <<row, jobMu, zfsVars, boundVars, disturbed>>

(* InsertJob, in runJob, which posts a log line first, or in the goroutine *)
(* of handleRunReplicationTask, which posts none.                          *)
Begin(r, t, entry) ==
    LET place == IF entry = "manual" THEN FirstPlace(t) ELSE "announce" IN
    /\ run' = [run EXCEPT ![r] = [NotStarted EXCEPT !.task = t, !.entry = entry, !.at = place]]
    /\ row' = [row EXCEPT ![r] = "running"]

(* The post of emitLog, by a client without a timeout, on the goroutine    *)
(* that holds jobMu: it returns when the hub answers or refuses it.        *)
StartLogged(r) ==
    /\ At(r, "announce") /\ hub = "answers"
    /\ Goto(r, FirstPlace(run[r].task))
    /\ Quiet

(* executeTask, the entry point of cron: TryLock.                          *)
JobMuFree == jobMu = NoRun

FireTask(r, t) ==
    /\ Idle(r)
    /\ JobMuFree
    /\ jobMu' = r
    /\ Begin(r, t, "cron")
    /\ UNCHANGED <<zfsVars, boundVars, disturbed>>

SkipTask(r, t) ==
    /\ Idle(r)
    /\ ~ JobMuFree
    /\ run' = [run EXCEPT ![r].at = "skipped"]
    /\ UNCHANGED <<row, jobMu, zfsVars, boundVars, disturbed>>

(* handleRunTask and RunNow, for all but replications.                     *)
RunNow(r, t) ==
    /\ Idle(r)
    /\ Kind[t] # "replication"
    /\ run' = [run EXCEPT ![r].task = t, ![r].entry = "now", ![r].at = "waiting"]
    /\ UNCHANGED <<row, jobMu, zfsVars, boundVars, disturbed>>

(* executeTaskTriggered: Lock.                                             *)
LockJobMu(r) ==
    /\ At(r, "waiting")
    /\ JobMuFree
    /\ jobMu' = r
    /\ Begin(r, run[r].task, "now")
    /\ UNCHANGED <<zfsVars, boundVars, disturbed>>

(* handleRunReplicationTask: no lock.                                      *)
RunReplicationNow(r, t) ==
    /\ Idle(r) /\ r \in ManualRuns
    /\ Kind[t] = "replication"
    /\ Begin(r, t, "manual")
    /\ UNCHANGED <<jobMu, zfsVars, boundVars, disturbed>>

(* A goroutine that ends, and its locals with it.                          *)
Gone(place) == [NotStarted EXCEPT !.at = place]

(* CompleteJob; a run that began with a log line has another to post.      *)
Finish(r, status) ==
    /\ run' = [run EXCEPT ![r] = Gone(IF run[r].entry = "manual" THEN "over" ELSE "report")]
    /\ row' = [row EXCEPT ![r] = status]
    /\ UNCHANGED jobMu

Fail(r) == Finish(r, "error") /\ UNCHANGED <<zfsVars, boundVars, disturbed>>

(* The last log line is posted, and the deferred Unlock.  (Mutant: the     *)
(* return of a failed run leaves jobMu locked.)                            *)
UnlockOnSuccess(r) == jobMu' = IF jobMu = r /\ row[r] = "success" THEN NoRun ELSE jobMu
Unlock(r) == jobMu' = IF jobMu = r THEN NoRun ELSE jobMu

EndLogged(r) ==
    /\ At(r, "report") /\ hub = "answers"
    /\ run' = [run EXCEPT ![r] = Gone("over")]
    /\ Unlock(r)
    /\ UNCHANGED <<row, zfsVars, boundVars, disturbed>>

-----------------------------------------------------------------------------
(* Scrubs and snapshots *)

(* runScrubTask                                                            *)
StartScrub(r) ==
    /\ At(r, "scrub")
    /\ \/ Finish(r, "success") /\ UNCHANGED <<zfsVars, boundVars, disturbed>>
       \/ Fail(r)

(* The runs that may have a snapshot of theirs taken for superfluous       *)
(* because of a new one of task t.                                         *)
Overtaken(t) ==
    {run[q].task : q \in {x \in Runs :
        Active(x) /\ run[x].snap # NoSnap /\ <<Prefix[run[x].task], Prefix[t]>> \in Covers}}

(* CreateSnapshot in runSnapshotTask, runReplicationTask and the manual    *)
(* run.  It fails for one thing when a run of the same prefix has used the *)
(* name in this second.                                                    *)
CreateSnapshot(r) ==
    LET t == run[r].task
        new == [prefix |-> Prefix[t], at |-> taken + 1]
    IN /\ At(r, "snapshot")
       /\ taken < MaxSnaps
       /\ src' = src \union {new}
       /\ taken' = taken + 1
       /\ run' = [run EXCEPT ![r].snap = new,
                             ![r].at = IF Kind[t] = "replication" THEN "list" ELSE "retain"]
       /\ disturbed' = disturbed \union Overtaken(t)
       /\ UNCHANGED <<row, jobMu, bookmarks, dst, boundVars>>

CreateFails(r) == At(r, "snapshot") /\ Fail(r)

-----------------------------------------------------------------------------
(* Replication: choosing the base *)

(* ListSnapshotsForDataset of the source.                                  *)
ListSource(r) ==
    /\ At(r, "list")
    /\ run' = [run EXCEPT ![r].seen = src, ![r].at = "resolve"]
    /\ Quiet

(* A scheduled run gives up, a manual one goes on with an empty list.      *)
ListSourceFails(r) ==
    /\ At(r, "list")
    /\ IF run[r].entry = "manual" THEN Goto(r, "resolve") /\ Quiet ELSE Fail(r)

(* The destination's listing, whose error counts as no snapshots;          *)
(* FindCommonSnapshot; pickBookmarkBase, for scheduled remote runs.  (An   *)
(* empty seen remembers that the destination could not be listed.)         *)
BookmarkBases(r, base) ==
    IF /\ base \in bookmarks
       /\ run[r].entry = "cron"
       /\ run[r].task \in Remote \intersect UseBookmarks
    THEN BOOLEAN ELSE {FALSE}

ResolveBase(r) ==
    /\ At(r, "resolve")
    /\ \E seen \in {run[r].seen, {}} :
          LET base == CommonSnapshot(seen, dst[run[r].task]) IN
          \E via \in BookmarkBases(r, base) :
              run' = [run EXCEPT ![r].base = base, ![r].via = via, ![r].seen = seen,
                                 ![r].at = "start"]
    /\ Quiet

(* remoteTargetFromTask                                                    *)
NoTarget(r) == At(r, "resolve") /\ run[r].task \in Remote /\ Fail(r)

-----------------------------------------------------------------------------
(* Replication: the pipe of SendReceiveLocal and SendReceiveRemote *)

(* zfs send reads the snapshot and its base, or a bookmark of the base.    *)
Sendable(r) ==
    /\ run[r].snap \in src
    /\ run[r].base \in src \/ run[r].base = NoSnap \/ run[r].via

StartPipe(r) ==
    /\ At(r, "start")
    /\ \E chunks \in 0..MaxChunks :
          /\ chunks > 0 <=> Sendable(r)
          /\ run' = [run EXCEPT ![r].left = chunks, ![r].sendErr = ~ Sendable(r),
                                ![r].seen = {}, ![r].at = "pipe"]
    /\ Quiet

(* One of the processes cannot be started.                                 *)
StartFails(r) == At(r, "start") /\ Fail(r)

(* A chunk is copied from zfs send through the pipe to the receiver.       *)
Transfer(r) ==
    /\ At(r, "pipe") /\ run[r].recv = "up" /\ run[r].left > 0
    /\ run' = [run EXCEPT ![r].left = @ - 1]
    /\ Quiet

SendFails(r) ==
    /\ At(r, "pipe") /\ run[r].recv = "up" /\ run[r].left > 0
    /\ run' = [run EXCEPT ![r].left = 0, ![r].sendErr = TRUE]
    /\ Quiet

(* The receiver ends early: a refused connection, a full disk.             *)
ReceiveDies(r) ==
    /\ At(r, "pipe") /\ run[r].recv = "up"
    /\ run' = [run EXCEPT ![r].recv = "dead"]
    /\ Quiet

(* The goroutine that feeds the receiver's standard input takes a chunk    *)
(* from the pipe, finds that nobody reads it, and returns.  Nothing closes *)
(* the reading end of the pipe.                                            *)
CopierGivesUp(r) ==
    /\ At(r, "pipe") /\ run[r].recv = "dead" /\ run[r].left > 0
    /\ run' = [run EXCEPT ![r].left = @ - 1, ![r].recv = "gone"]
    /\ Quiet

(* sendCmd.Wait returns when all its output has been copied to the pipe;   *)
(* then the writing end is closed.                                         *)
ReceiverWaitedFirst(r) == run[r].left = 0 /\ run[r].recv # "up"
SendWaited(r) == run[r].left = 0

SendEnds(r) ==
    /\ At(r, "pipe")
    /\ SendWaited(r)
    /\ Goto(r, "drain")
    /\ Quiet

(* zfs receive -F: a full stream needs a destination without snapshots, an *)
(* incremental one its base, and what is newer than the base is rolled     *)
(* back (or the receive fails).                                            *)
Receivable(r) ==
    IF run[r].base = NoSnap THEN dst[run[r].task] = {} ELSE run[r].base \in dst[run[r].task]

Received(r) ==
    LET old == dst[run[r].task] IN
    IF run[r].base = NoSnap THEN {run[r].snap}
    ELSE (old \ Newer(old, run[r].base)) \union {run[r].snap}

(* recvCmd.Wait returns without an error.  A manual run is over; a         *)
(* scheduled one goes on with the retention.                               *)
Proceed(r) ==
    IF run[r].entry = "manual" THEN Finish(r, "success")
    ELSE /\ run' = [run EXCEPT ![r].base = NoSnap, ![r].via = FALSE, ![r].at = "retain"]
         /\ UNCHANGED <<row, jobMu>>

ReceiveEnds(r) ==
    /\ At(r, "drain")
    /\ run[r].recv = "up" /\ ~ run[r].sendErr /\ Receivable(r)
    /\ dst' = [dst EXCEPT ![run[r].task] = Received(r)]
    /\ Proceed(r)
    /\ UNCHANGED <<src, bookmarks, taken, boundVars, disturbed>>

(* All has been sent, so the receive may succeed though nobody hears of    *)
(* it: the remote one when the connection is lost, either one when the     *)
(* agent dies.                                                             *)
MaySucceedUnheard(r) ==
    /\ At(r, "drain") \/ (At(r, "pipe") /\ run[r].left = 0)
    /\ run[r].recv = "up" \/ (run[r].recv = "dead" /\ run[r].task \in Remote)
    /\ ~ run[r].sendErr /\ Receivable(r)

ReceiveErrorDropped(r) ==
    /\ At(r, "drain") /\ Proceed(r)
    /\ UNCHANGED <<zfsVars, boundVars, disturbed>>
ReceiveFails(r) ==
    /\ At(r, "drain")
    /\ Finish(r, "error")
    /\ \/ UNCHANGED dst
       \/ /\ run[r].task \in Remote /\ MaySucceedUnheard(r)
          /\ dst' = [dst EXCEPT ![run[r].task] = Received(r)]
    /\ UNCHANGED <<src, bookmarks, taken, boundVars, disturbed>>

-----------------------------------------------------------------------------
(* Retention *)

(* applyRetention lists the source; if that fails, nothing is deleted.     *)
Retain(r) ==
    /\ At(r, "retain")
    /\ \E listed \in {src, {}} :
          run' = [run EXCEPT ![r].victims = ToDelete(run[r].task, listed), ![r].at = "destroy"]
    /\ Quiet

(* DestroySnapshot of the oldest victim; a failure is logged.              *)
DestroyVictim(r) ==
    LET v == Oldest(run[r].victims) IN
    /\ At(r, "destroy") /\ run[r].victims # {}
    /\ run' = [run EXCEPT ![r].victims = @ \ {v}]
    /\ \/ /\ v \in src /\ ~ InUse(v)
          /\ src' = src \ {v}
          /\ disturbed' = disturbed \union (TasksRelyingOn(v) \ {run[r].task})
       \/ UNCHANGED <<src, disturbed>>
    /\ UNCHANGED <<row, jobMu, bookmarks, dst, taken, boundVars>>

(* A snapshot task is done now, a replication goes on at its destination.  *)
RetentionDone(r) ==
    /\ At(r, "destroy") /\ run[r].victims = {}
    /\ IF Kind[run[r].task] = "replication"
       THEN Goto(r, "destRetain") /\ UNCHANGED <<row, jobMu>>
       ELSE Finish(r, "success")
    /\ UNCHANGED <<zfsVars, boundVars, disturbed>>

(* applyRetentionOnDataset and applyRemoteRetention                        *)
RetainsDest(t) == t \in Remote => t \in ManageRemote

RetainDest(r) ==
    /\ At(r, "destRetain")
    /\ \E listed \in {{}, IF RetainsDest(run[r].task) THEN dst[run[r].task] ELSE {}} :
          run' = [run EXCEPT ![r].victims = ToDelete(run[r].task, listed),
                             ![r].at = "destDestroy"]
    /\ Quiet

DestroyDestVictim(r) ==
    LET t == run[r].task
        v == Oldest(run[r].victims)
    IN /\ At(r, "destDestroy") /\ run[r].victims # {}
       /\ run' = [run EXCEPT ![r].victims = @ \ {v}]
       /\ dst' \in {dst, [dst EXCEPT ![t] = @ \ {v}]}
       /\ UNCHANGED <<row, jobMu, src, bookmarks, taken, boundVars, disturbed>>

DestRetentionDone(r) ==
    /\ At(r, "destDestroy") /\ run[r].victims = {}
    /\ Goto(r, "bookmark")
    /\ Quiet

(* CreateBookmark, for remote tasks that use them.  It fails when the      *)
(* snapshot is gone; the run succeeds all the same.                        *)
Bookmark(r) ==
    LET s == run[r].snap IN
    /\ At(r, "bookmark")
    /\ \/ /\ run[r].task \in Remote \intersect UseBookmarks /\ s \in src
          /\ bookmarks' = bookmarks \union {s}
       \/ UNCHANGED bookmarks
    /\ Finish(r, "success")
    /\ UNCHANGED <<src, dst, taken, boundVars, disturbed>>

-----------------------------------------------------------------------------
(* The operator and the machine *)

Mishap == mishaps < MaxMishaps /\ mishaps' = mishaps + 1

(* handleDeleteSnapshot; handleRetentionCleanup is a series of these.      *)
DeleteSnapshot(s) ==
    /\ Mishap
    /\ s \in src /\ ~ InUse(s)
    /\ src' = src \ {s}
    /\ disturbed' = disturbed \union TasksRelyingOn(s)
    /\ UNCHANGED <<run, row, jobMu, bookmarks, dst, taken, hub>>

(* The agent stops and starts again.  Nothing completes the rows of the    *)
(* runs it was in; a receive that was under way leaves no trace, unless    *)
(* all its data had been sent.                                             *)
CrashRestart ==
    /\ Mishap
    /\ run' = [r \in Runs |-> IF Active(r) \/ At(r, "waiting") \/ At(r, "report")
                              THEN Gone("dead") ELSE run[r]]
    /\ jobMu' = NoRun
    /\ \E done \in SUBSET {r \in Runs : MaySucceedUnheard(r)} :
          dst' = [t \in Tasks |->
                     LET r == CHOOSE q \in done : run[q].task = t IN
                     IF \E q \in done : run[q].task = t THEN Received(r) ELSE dst[t]]
    /\ UNCHANGED <<row, src, bookmarks, taken, hub, disturbed>>

(* The hub accepts connections and does not answer, for a time or for      *)
(* ever.                                                                   *)
HubHangs ==
    /\ Mishap
    /\ hub = "answers" /\ hub' = "hung"
    /\ UNCHANGED <<run, row, jobMu, zfsVars, disturbed>>

HubResumes ==
    /\ hub = "hung" /\ hub' = "answers"
    /\ UNCHANGED <<run, row, jobMu, zfsVars, mishaps, disturbed>>

Start(r, t) == FireTask(r, t) \/ SkipTask(r, t) \/ RunNow(r, t) \/ RunReplicationNow(r, t)

PipeStep(r) ==
    \/ Transfer(r) \/ SendFails(r) \/ CopierGivesUp(r)
    \/ SendEnds(r) \/ ReceiveEnds(r) \/ ReceiveFails(r)

Step(r) ==
    \/ StartLogged(r) \/ EndLogged(r)
    \/ StartScrub(r) \/ CreateSnapshot(r) \/ CreateFails(r)
    \/ ListSource(r) \/ ListSourceFails(r) \/ ResolveBase(r) \/ NoTarget(r)
    \/ StartPipe(r) \/ StartFails(r) \/ PipeStep(r)
    \/ Retain(r) \/ DestroyVictim(r) \/ RetentionDone(r)
    \/ RetainDest(r) \/ DestroyDestVictim(r) \/ DestRetentionDone(r) \/ Bookmark(r)

Next ==
    \/ \E r \in Runs, t \in Tasks : Start(r, t)
    \/ \E r \in Runs : LockJobMu(r)
    \/ \E r \in Runs : Step(r) \/ ReceiveDies(r)
    \/ \E s \in src : DeleteSnapshot(s)
    \/ CrashRestart \/ HubHangs \/ HubResumes

Spec == Init /\ [][Next]_vars

(* A run goes on: a zfs or ssh command ends (none has a timeout: that is   *)
(* taken on trust of zfs and ssh), a post is answered by a hub that does   *)
(* answer, and the two processes of a pipe move data or end.  That a       *)
(* receiver dies or a hub resumes is not assumed.  A mutex that is locked  *)
(* again and again is in the end given to a goroutine that waits in Lock   *)
(* (the starvation mode of sync.Mutex).                                    *)
Fairness == \A r \in Runs : WF_vars(Step(r)) /\ SF_vars(LockJobMu(r))

FairSpec == Spec /\ Fairness

-----------------------------------------------------------------------------
(* Correctness *)

(* Every variable has its type.                                            *)
TypeOK ==
    /\ run \in [Runs -> Run]
    /\ row \in [Runs -> {"none", "running", "success", "error"}]
    /\ jobMu \in Runs \union {NoRun}
    /\ src \in SUBSET Snap
    /\ bookmarks \in SUBSET Snap
    /\ dst \in [Tasks -> SUBSET Snap]
    /\ taken \in 0..MaxSnaps
    /\ hub \in {"answers", "hung"}
    /\ mishaps \in 0..MaxMishaps
    /\ disturbed \in SUBSET Tasks

(* The next incremental send has a base: the newest snapshot of a          *)
(* destination is still on the source.  The task's own retention keeps it, *)
(* however its runs fail and whatever failed runs leave on the source;     *)
(* other tasks of a covering prefix, deletions by hand and manual runs     *)
(* that overlap (disturbed) may not.                                       *)
ChainKept ==
    \A t \in Tasks \ disturbed : dst[t] # {} => Newest(dst[t]) \in src

(* "Record a bookmark on the source for the snapshot we just sent, so      *)
(* future incrementals can use it as a base even if the snapshot itself    *)
(* gets pruned" (scheduler.go:499): a scheduled run of a task with         *)
(* bookmarks that could list its destination makes no full send while      *)
(* there is a bookmark of a snapshot that the destination has.             *)
BookmarkKeepsChain ==
    \A r \in Runs :
        /\ At(r, "start") /\ run[r].entry = "cron"
        /\ run[r].task \in Remote \intersect UseBookmarks
        /\ run[r].base = NoSnap /\ run[r].seen # {}
        => bookmarks \intersect dst[run[r].task] = {}

(* A replication that is recorded as a success has brought its snapshot to *)
(* the destination, and the retention there has left it, unless other runs *)
(* overlapped.                                                             *)
SuccessMeansReplicated ==
    [][\A r \in Runs :
        LET t == run[r].task IN
        /\ row[r] # "success" /\ row'[r] = "success"
        /\ Kind[t] = "replication"
        => run[r].snap \in dst'[t] \/ t \in disturbed]_vars

(* The run that hangs: its receiver is gone, and nobody takes the chunks   *)
(* that the sender still has.                                              *)
Stuck(r) == At(r, "pipe") /\ run[r].recv = "gone" /\ run[r].left > 0

(* Scheduled runs are skipped while one is under way; it gives jobMu back  *)
(* on every path, but for the one that hangs in its pipe, and unless the   *)
(* hub in the end never answers the log lines that are posted under jobMu. *)
HubAnswers == <>[](hub = "answers")

JobMuReturned == HubAnswers => \A r \in Runs : jobMu = r ~> jobMu # r \/ Stuck(r)

(* "A user-clicked Run Now reliably runs (after any in-flight scheduled    *)
(* job finishes)" (scheduler.go:156), with the same two exceptions.        *)
JobMuStuck == jobMu # NoRun /\ Stuck(jobMu)

RunNowRuns ==
    HubAnswers => \A r \in Runs : At(r, "waiting") ~> ~ At(r, "waiting") \/ JobMuStuck

(* "forwarding errors are dropped silently so a momentary hub outage       *)
(* doesn't stall the agent" (hub_forwarder.go:25): a run gets past the     *)
(* lines it posts whatever the hub does.                                   *)
HubOutageStallsNoRun ==
    \A r \in Runs : At(r, "announce") \/ At(r, "report")
                       ~> ~ (At(r, "announce") \/ At(r, "report"))

(* "Errors from any stage are combined into a single returned error"       *)
(* (replication.go:240): once its receiver has ended, the run gets there.  *)
FailedReceiveReported ==
    \A r \in Runs : At(r, "pipe") /\ run[r].recv = "dead" ~> ~ At(r, "pipe")
=============================================================================
