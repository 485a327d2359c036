--------------------------- MODULE ZfsOperations ---------------------------
(***************************************************************************)
(* The write operations of the zfs-manager agent's REST server and the     *)
(* cache of the pool that its telemetry is built from.                     *)
(*                                                                         *)
(* A handler checks its request, runs one zfs or zpool command, and on     *)
(* success starts a refresh of the cache on a goroutine and answers 200.   *)
(* Two handlers run several commands: an edit sets one property after the  *)
(* other, and the retention cleanup destroys the snapshots it has listed.  *)
(* A refresh lists pools, datasets and snapshots without a lock and stores *)
(* what it has read under one; every write has its own, and the collection *)
(* loop runs one every minute.  They overlap freely.                       *)
(*                                                                         *)
(* One pool with one dataset under its root stands for the host.  A handler*)
(* with one command changes the pool at one instant, so it is one action;  *)
(* a request refused by the handler (400) or by zfs (500) changes nothing  *)
(* and is no step.  The agent event of a replacement and the flush of the  *)
(* forwarder that ends every refresh belong to ZfsHub.                     *)
(***************************************************************************)
EXTENDS Naturals, Sequences, SequencesExt, FiniteSets

CONSTANTS
    Names,      \* names of snapshots, chosen by users
    Props,      \* properties an edit may set
    MaxWrites,  \* bound: write requests that reach a command
    MaxEvents   \* bound: those and the commands that fail or are killed, together

ASSUME OpsBoundsAssumption == MaxWrites \in Nat /\ MaxEvents \in Nat /\ Names # {}

VARIABLES
    pool,       \* what zfs holds
    cache,      \* Collector: the pools, datasets and snapshots last stored
    refresh,    \* the refreshes: number 0 is the loop's, k that of write k
    handler,    \* the edits and cleanups between two of their commands
    mark,       \* history: how far the cache has come with write k
    writes,     \* number of writes so far
    faults      \* number of faults so far

opsVars == <<pool, cache, refresh, handler, mark, writes, faults>>

Writes == 1..MaxWrites
Refreshers == 0..MaxWrites
Nil == [at |-> 0, val |-> {}]         \* a Go slice that is nil
IdleHandler == [op |-> "none", todo |-> <<>>]
AtRest == [pc |-> "idle", from |-> 0, pools |-> Nil, datasets |-> Nil, snaps |-> Nil]

(* What zfs holds: the pool with its status, of which only what was done   *)
(* last to its disks or its scrub is told apart; the dataset with the      *)
(* properties set so far; and its snapshots in the order of their creation,*)
(* where an old one was taken before the cutoff of the cleanups.  "changes"*)
(* counts the writes to it.                                                *)
NewPool(n) ==
    [on |-> TRUE, status |-> "new", child |-> TRUE, set |-> {},
     snaps |-> <<[name |-> n, old |-> TRUE]>>, changes |-> 0]

Named(p) == {s.name : s \in ToSet(p.snaps)}

(* ---- What the lists of Refresh return ----                              *)
(* zpool list with zpool status; a status that fails is left empty.        *)
PoolList(p, status) == IF p.on THEN [at |-> p.changes, val |-> {status}] ELSE Nil

(* zfs list of file systems: the root is there while the pool is.          *)
DatasetList(p) ==
    IF p.on THEN [at |-> p.changes, val |-> {[child |-> p.child, set |-> p.set]}] ELSE Nil

(* zfs list of snapshots: an empty output gives a nil slice.               *)
SnapshotList(p) ==
    IF p.on /\ p.snaps # <<>> THEN [at |-> p.changes, val |-> ToSet(p.snaps)] ELSE Nil

(* Mutant: a list shorter than the last one is taken for a partial one.    *)
KeepLonger(old, new) == IF Cardinality(new.val) < Cardinality(old.val) THEN old ELSE new

(* What the collector keeps of a list it is given.                         *)
Keep(old, new) == IF new = Nil THEN old ELSE new

OpsInit ==
    /\ pool = NewPool(CHOOSE n \in Names : TRUE)
    /\ cache = [pools |-> Nil, datasets |-> Nil, snaps |-> Nil]
    /\ refresh = [r \in Refreshers |-> IF r = 0 THEN [AtRest EXCEPT !.pc = "pools"] ELSE AtRest]
    /\ handler = [k \in Writes |-> IdleHandler]
    /\ mark = [k \in Writes |-> [at |-> 0, state |-> "none"]]
    /\ writes = 0
    /\ faults = 0

(***************************************************************************)
(* The commands: the pools that can result when zfs accepts the command,   *)
(* none when it refuses it.                                                *)
(***************************************************************************)
Accepted(ok, after) == IF ok THEN {after} ELSE {}

CreateDataset(p) == Accepted(p.on /\ ~p.child, [p EXCEPT !.child = TRUE])

(* Refused while the dataset has snapshots, unless recursive.              *)
DestroyDataset(p, recursive) ==
    Accepted(p.on /\ p.child /\ (recursive \/ p.snaps = <<>>),
             [p EXCEPT !.child = FALSE, !.set = {}, !.snaps = <<>>])

TakeSnapshot(p, n) ==
    Accepted(p.on /\ p.child /\ n \notin Named(p),
             [p EXCEPT !.snaps = Append(@, [name |-> n, old |-> FALSE])])

DestroySnapshot(p, n) ==
    Accepted(p.on /\ n \in Named(p),
             [p EXCEPT !.snaps = SelectSeq(@, LAMBDA s : s.name # n)])

(* Depth "latest" is refused when there are newer snapshots; the other two *)
(* destroy them.                                                           *)
RollbackSnapshot(p, n, deep) ==
    LET i == CHOOSE j \in DOMAIN p.snaps : p.snaps[j].name = n
    IN Accepted(p.on /\ n \in Named(p) /\ (deep \/ i = Len(p.snaps)),
                [p EXCEPT !.snaps = SubSeq(@, 1, i)])

Does(p, ok, status) == Accepted(p.on /\ ok, [p EXCEPT !.status = status])

BeginScrub(p) == Does(p, p.status # "scrubbing", "scrubbing")
PauseScrub(p) == Does(p, p.status = "scrubbing", "paused")
CancelScrub(p) == Does(p, p.status \in {"scrubbing", "paused"}, "canceled")
ReplaceDevice(p) == Does(p, p.status # "replaced", "replaced")
AddVdev(p) == Does(p, p.status # "extended", "extended")
OfflineDevice(p) == Does(p, p.status # "offline", "offline")
OnlineDevice(p) == Does(p, p.status = "offline", "online")
ClearErrors(p) == Does(p, p.status # "cleared", "cleared")
ExportPool(p) == Accepted(p.on, [p EXCEPT !.on = FALSE])
ImportPool(p) == Accepted(~p.on, [p EXCEPT !.on = TRUE])

(* The results of all handlers that run one command.                       *)
Results(p) ==
    UNION ({CreateDataset(p), BeginScrub(p), PauseScrub(p), CancelScrub(p), ReplaceDevice(p),
            AddVdev(p), OfflineDevice(p), OnlineDevice(p), ClearErrors(p), ExportPool(p), ImportPool(p)}
           \cup {DestroyDataset(p, b) : b \in BOOLEAN}
           \cup {TakeSnapshot(p, n) \cup DestroySnapshot(p, n) : n \in Names}
           \cup {RollbackSnapshot(p, n, b) : n \in Names, b \in BOOLEAN})

Changed(p) == [p EXCEPT !.changes = @ + 1]

(***************************************************************************)
(* The handlers.                                                           *)
(***************************************************************************)
(* Mutant: the refresh is started first and has listed the pools already.  *)
StartingEarly(at) ==
    [AtRest EXCEPT !.pc = "zfs", !.from = at, !.pools = PoolList(pool, pool.status)]

(* go s.refreshAndFlush(), after the command.                              *)
Starting(at) == [AtRest EXCEPT !.pc = "pools", !.from = at]

SpawnRefresh(k, at) ==
    /\ refresh' = [refresh EXCEPT ![k] = Starting(at)]
    /\ mark' = [mark EXCEPT ![k] = [at |-> at, state |-> "answered"]]

CanWrite == writes < MaxWrites /\ writes + faults < MaxEvents
Fails == writes + faults < MaxEvents /\ faults' = faults + 1

(* A handler with one command: zfs accepts it, the handler answers 200.    *)
Write ==
    /\ CanWrite
    /\ \E p \in Results(pool) : pool' = Changed(p)
    /\ writes' = writes + 1
    /\ SpawnRefresh(writes', pool'.changes)
    /\ UNCHANGED <<cache, handler, faults>>

(* The client goes away or the timeout ends the context: the command is    *)
(* killed and the answer is 500 without a refresh, but zfs had carried it  *)
(* out.                                                                    *)
WriteKilled ==
    /\ CanWrite
    /\ writes + faults + 2 <= MaxEvents
    /\ \E p \in Results(pool) : pool' = Changed(p)
    /\ writes' = writes + 1
    /\ faults' = faults + 1
    /\ UNCHANGED <<cache, refresh, handler, mark>>

(* handleEditDataset and handleSetPoolProperties: the validated properties,*)
(* in any order (a Go map).                                                *)
BeginEdit ==
    /\ CanWrite
    /\ pool.on /\ pool.child
    /\ writes' = writes + 1
    /\ \E todo \in SetToSeqs(Props) :
           handler' = [handler EXCEPT ![writes'] = [op |-> "edit", todo |-> todo]]
    /\ UNCHANGED <<pool, cache, refresh, mark, faults>>

(* One "zfs set"; after the last one the handler refreshes and answers.    *)
SetProperty(k) ==
    /\ handler[k].op = "edit"
    /\ pool.on /\ pool.child
    /\ pool' = Changed([pool EXCEPT !.set = @ \cup {Head(handler[k].todo)}])
    /\ IF Len(handler[k].todo) > 1
       THEN /\ handler' = [handler EXCEPT ![k].todo = Tail(@)]
            /\ UNCHANGED <<refresh, mark>>
       ELSE /\ handler' = [handler EXCEPT ![k] = IdleHandler]
            /\ SpawnRefresh(k, pool'.changes)
    /\ UNCHANGED <<cache, writes, faults>>

(* A set that fails, because the dataset is gone or the command is killed  *)
(* (before or after its effect), ends the edit with 500: the properties set*)
(* so far stay, and nothing is refreshed.                                  *)
EditFails(k) ==
    /\ handler[k].op = "edit"
    /\ handler' = [handler EXCEPT ![k] = IdleHandler]
    /\ \/ ~(pool.on /\ pool.child) /\ UNCHANGED <<pool, faults>>
       \/ Fails /\ UNCHANGED pool
       \/ /\ pool.on /\ pool.child
          /\ Fails
          /\ pool' = Changed([pool EXCEPT !.set = @ \cup {Head(handler[k].todo)}])
    /\ UNCHANGED <<cache, refresh, mark, writes>>

(* handleRetentionCleanup: lists the snapshots and takes those created     *)
(* before the cutoff.                                                      *)
BeforeCutoff(snaps) == SelectSeq(snaps, LAMBDA s : s.old)
BeginCleanup ==
    /\ CanWrite
    /\ pool.on /\ pool.child
    /\ writes' = writes + 1
    /\ handler' = [handler EXCEPT ![writes'] = [op |-> "cleanup", todo |-> BeforeCutoff(pool.snaps)]]
    /\ UNCHANGED <<pool, cache, refresh, mark, faults>>

(* Destroys the next one by its name; a failure is logged and passed over. *)
CleanupNext(k) ==
    /\ handler[k].op = "cleanup" /\ handler[k].todo # <<>>
    /\ LET gone == DestroySnapshot(pool, Head(handler[k].todo).name)
       IN \/ \E p \in gone : pool' = Changed(p) /\ UNCHANGED faults
          \/ gone = {} /\ UNCHANGED <<pool, faults>>
          \/ Fails /\ UNCHANGED pool
    /\ handler' = [handler EXCEPT ![k].todo = Tail(@)]
    /\ UNCHANGED <<cache, refresh, mark, writes>>

(* The handler refreshes and answers, whatever it could delete.            *)
CleanupEnds(k) ==
    /\ handler[k].op = "cleanup" /\ handler[k].todo = <<>>
    /\ handler' = [handler EXCEPT ![k] = IdleHandler]
    /\ SpawnRefresh(k, pool.changes)
    /\ UNCHANGED <<pool, cache, writes, faults>>

(* The pool changes by itself: a scrub ends.                               *)
ScrubEnds ==
    /\ pool.status = "scrubbing" /\ pool.on
    /\ pool' = [pool EXCEPT !.status = "scrubbed"]
    /\ UNCHANGED <<cache, refresh, handler, mark, writes, faults>>

(***************************************************************************)
(* Collector.Refresh.                                                      *)
(***************************************************************************)
(* A list that fails is logged and leaves its slice nil.                   *)
Listed(r, pools) == refresh' = [refresh EXCEPT ![r].pc = "zfs", ![r].pools = pools]

ListPools(r) ==
    /\ refresh[r].pc = "pools"
    /\ \/ Listed(r, PoolList(pool, pool.status)) /\ UNCHANGED faults
       \/ Listed(r, PoolList(pool, "")) /\ pool.on /\ Fails
       \/ Listed(r, Nil) /\ Fails
    /\ UNCHANGED <<pool, cache, handler, mark, writes>>

(* The two zfs lists, one after the other: nothing here tells a write that *)
(* lands between them from one that lands before or after both.            *)
ListZfs(r) ==
    /\ refresh[r].pc = "zfs"
    /\ \E failed \in SUBSET {"datasets", "snaps"} :
           /\ IF failed = {} THEN UNCHANGED faults ELSE Fails
           /\ refresh' = [refresh EXCEPT
                  ![r].pc = "store",
                  ![r].datasets = IF "datasets" \in failed THEN Nil ELSE DatasetList(pool),
                  ![r].snaps = IF "snaps" \in failed THEN Nil ELSE SnapshotList(pool)]
    /\ UNCHANGED <<pool, cache, handler, mark, writes>>

Complete(f) == Nil \notin {f.pools, f.datasets, f.snaps}

(* How far the cache has come with the writes once refresh r has stored.   *)
MarkAfter(r) ==
    [k \in Writes |->
        IF k = r /\ Complete(refresh[r]) THEN [mark[k] EXCEPT !.state = "refreshed"]
        ELSE IF mark[k].state = "refreshed" /\ refresh[r].from < mark[k].at
        THEN [mark[k] EXCEPT !.state = "overwritten"]
        ELSE mark[k]]

Store(r) ==
    /\ refresh[r].pc = "store"
    /\ cache' = [pools |-> Keep(cache.pools, refresh[r].pools),
                 datasets |-> Keep(cache.datasets, refresh[r].datasets),
                 snaps |-> Keep(cache.snaps, refresh[r].snaps)]
    /\ refresh' = [refresh EXCEPT ![r] = AtRest]
    /\ mark' = MarkAfter(r)
    /\ UNCHANGED <<pool, handler, writes, faults>>

(* StartCollectionLoop: the ticker of one minute.                          *)
CollectionTick ==
    /\ refresh[0].pc = "idle"
    /\ refresh' = [refresh EXCEPT ![0] = Starting(pool.changes)]
    /\ UNCHANGED <<pool, cache, handler, mark, writes, faults>>

OpsNext ==
    \/ Write \/ WriteKilled \/ BeginEdit \/ BeginCleanup \/ ScrubEnds \/ CollectionTick
    \/ \E k \in Writes : SetProperty(k) \/ EditFails(k) \/ CleanupNext(k) \/ CleanupEnds(k)
    \/ \E r \in Refreshers : ListPools(r) \/ ListZfs(r) \/ Store(r)

OpsSpec == OpsInit /\ [][OpsNext]_opsVars

(* Commands end, and the ticker ticks: refreshAndFlush and the handlers    *)
(* have timeouts; that the commands of the loop end is an assumption.      *)
FairOpsSpec ==
    /\ OpsSpec
    /\ WF_opsVars(CollectionTick)
    /\ \A r \in Refreshers : WF_opsVars(ListPools(r) \/ ListZfs(r) \/ Store(r))
    /\ \A k \in Writes : WF_opsVars(SetProperty(k) \/ EditFails(k) \/ CleanupNext(k) \/ CleanupEnds(k))

OpsTypeOK ==
    /\ pool \in [on : BOOLEAN, status : STRING, child : BOOLEAN, set : SUBSET Props,
                 snaps : Seq([name : Names, old : BOOLEAN]), changes : Nat]
    /\ DOMAIN cache = {"pools", "datasets", "snaps"}
    /\ \A r \in Refreshers : refresh[r].pc \in {"idle", "pools", "zfs", "store"}
    /\ \A k \in Writes : handler[k].op \in {"none", "edit", "cleanup"}
    /\ mark \in [Writes -> [at : Nat, state : {"none", "answered", "refreshed", "overwritten"}]]
    /\ writes \in 0..MaxWrites /\ writes + faults \in 0..MaxEvents

(* Once the refresh that follows a successful write has read all three     *)
(* lists and stored them, the cache holds the pool as it was after that    *)
(* write or later; only a refresh that was under way before the write, and *)
(* stores after it, takes the cache back (Collector.Refresh reads without  *)
(* the lock, and nothing orders the refreshes of two handlers and the      *)
(* loop).  A list that fails or is empty is not stored and promises        *)
(* nothing.                                                                *)
AnsweredWriteShown ==
    \A k \in Writes : mark[k].state = "refreshed" =>
        \A list \in DOMAIN cache : cache[list].at >= mark[k].at

(* What the telemetry shows follows the pool: when the writes are over, the*)
(* cache is in the end what zfs holds, after edits that stopped half way,  *)
(* killed commands nobody refreshed for, scrubs that ended by themselves   *)
(* and refreshes that overwrote newer ones.  Lists that are empty are left *)
(* out: the collector cannot tell them from failed ones.                   *)
Shown ==
    pool.on => /\ cache.pools.val = PoolList(pool, pool.status).val
               /\ cache.datasets.val = DatasetList(pool).val
               /\ pool.snaps # <<>> => cache.snaps.val = SnapshotList(pool).val
CacheCatchesUp == <>[]Shown

(* "Refresh queries all ZFS state and updates the cache": what is deleted  *)
(* or exported is in the end not shown any more.  Does not hold: an empty  *)
(* list is a nil slice, and Refresh keeps the old one.                     *)
DeletedIsNotShown ==
    <>[](/\ ~pool.on => cache.pools = Nil
         /\ pool.snaps = <<>> => cache.snaps = Nil)

(* A retention cleanup destroys no snapshot taken after its cutoff.  Does  *)
(* not hold: it destroys by name what it listed before, and the name may   *)
(* have been deleted and taken again meanwhile.                            *)
CleanupSparesYoung ==
    [][\A k \in Writes :
          handler[k].op = "cleanup" /\ handler'[k] # handler[k] =>
              \A s \in ToSet(pool.snaps) \ ToSet(pool'.snaps) : s.old]_opsVars
=============================================================================
