----------------------------- MODULE CronReload -----------------------------
(***************************************************************************)
(* The cron schedulers of the snapraid and zfs-manager agents, and the     *)
(* HTTP handlers that change what they run.                                *)
(*                                                                         *)
(* A handler saves the change (zfs-manager: the row of a task; snapraid:   *)
(* each key in the cache table and then in the configuration in memory)    *)
(* and reloads: it stops the runner, waits for the job of that runner to   *)
(* end, puts a new runner in its place, registers what is stored and       *)
(* starts it. No lock is held: every step that mentions the runner means   *)
(* the one that is current at that moment. A second handler may be         *)
(* anywhere in the same code.                                              *)
(*                                                                         *)
(* An item is a task of zfs-manager or one of the schedules of snapraid.   *)
(* Its value is Gone, Off (disabled, or an empty expression), Bad (an      *)
(* expression cron refuses; only snapraid lets one in) or a version.       *)
(***************************************************************************)
EXTENDS Integers, FiniteSets

CONSTANTS Kinds,        \* the agents looked at
          Items,        \* the tasks or schedules
          Gone, Off, Bad, NoKey,
          MaxVersion,   \* bound: the versions of an item, the first there at the beginning
          Offers,       \* bound: the values that requests bring
          MaxRequests,  \* bound: the requests, numbered as they arrive
          MaxFaults     \* bound: crashes and writes that fail

ASSUME KindsAssumption == Kinds \subseteq {"snapraid", "zfs"}
ASSUME ValuesAssumption == {Gone, Off, Bad} \cap 1 .. MaxVersion = {}
ASSUME OffersAssumption == Offers \subseteq {Gone, Off, Bad} \cup 1 .. MaxVersion
ASSUME BoundsAssumption == {MaxVersion, MaxRequests, MaxFaults} \subseteq Nat \ {0}

Versions == 1 .. MaxVersion
Values == {Gone, Off, Bad} \cup Versions
Requests == 1 .. MaxRequests
Nobody == 0
Runners == 0 .. MaxRequests      \* the first is made at the start, the others by reloads
NoRunner == -1

VARIABLES kind,
          saved,      \* the database: the rows, or the cache of the configuration
          memory,     \* the configuration in memory (snapraid only)
          current,    \* the field cron of the scheduler
          created,    \* the number of runners made since the agent started
          running,    \* the runners that run
          entries,    \* what each has registered, and for whom
          job,        \* the holder of jobMu: the runner of the job, ByHand, or NoJob
          waiting,    \* a run asked for by hand waits for jobMu
          up,         \* the agent runs
          pc, op,     \* of each request: where it is, and whether it creates or changes
          todo,       \* of each request: what it has not yet saved, or not yet registered
          key,        \* of each request: the key it has written to the cache, not yet to the memory
          stopped,    \* of each request: the runner it waits for
          arrived, faults

\* Two requests have met since the agent started; what is registered may lag behind because
\* a request failed half way.
VARIABLES overlapped, broken

storeVars == <<kind, saved, memory>>
cronVars == <<current, created, running, entries>>
jobVars == <<job, waiting>>
reqVars == <<pc, op, todo, key, stopped>>
boundVars == <<arrived, faults>>
vars == <<storeVars, cronVars, jobVars, up, reqVars, boundVars, overlapped, broken>>

NoJob == -2
ByHand == -3
Parts == UNION {[I -> Values] : I \in SUBSET Items}      \* values for some of the items
Entries == [item : Items, value : Versions, by : {Nobody} \cup Requests]

TypeOK ==
    /\ kind \in Kinds /\ saved \in [Items -> Values] /\ memory \in [Items -> Values]
    /\ current \in Runners /\ created \in Runners /\ running \subseteq Runners
    /\ entries \in [Runners -> SUBSET Entries]
    /\ job \in Runners \cup {ByHand, NoJob} /\ waiting \in BOOLEAN /\ up \in BOOLEAN
    /\ pc \in [Requests -> {"idle", "save", "assign", "stop", "await", "list", "register"}]
    /\ op \in [Requests -> {"create", "change"}]
    /\ todo \in [Requests -> Parts]
    /\ key \in [Requests -> Items \cup {NoKey}]
    /\ stopped \in [Requests -> Runners \cup {NoRunner}]
    /\ arrived \in 0 .. MaxRequests /\ faults \in 0 .. MaxFaults
    /\ overlapped \in BOOLEAN /\ broken \in BOOLEAN

\* What the registration of a set of values leaves in a runner.
Registered(values, r) ==
    {[item |-> i, value |-> values[i], by |-> r] : i \in {j \in DOMAIN values : values[j] \in Versions}}

Init ==
    /\ kind \in Kinds
    /\ saved \in [Items -> IF kind = "zfs" THEN {Gone, 1} ELSE {1}]
    /\ memory = saved
    /\ current = 0 /\ created = 0 /\ running = {0}
    /\ entries = [n \in Runners |-> IF n = 0 THEN Registered(saved, Nobody) ELSE {}]
    /\ job = NoJob /\ waiting = FALSE /\ up = TRUE
    /\ pc = [r \in Requests |-> "idle"]
    /\ op = [r \in Requests |-> "change"] /\ todo = [r \in Requests |-> <<>>]
    /\ key = [r \in Requests |-> NoKey] /\ stopped = [r \in Requests |-> NoRunner]
    /\ arrived = 0 /\ faults = 0 /\ overlapped = FALSE /\ broken = FALSE

Goes(r, where) == pc' = [pc EXCEPT ![r] = where]
Active == {r \in Requests : pc[r] # "idle"}

\* A request leaves, whatever it answers.
Leaves(r) ==
    /\ Goes(r, "idle")
    /\ op' = [op EXCEPT ![r] = "change"]
    /\ todo' = [todo EXCEPT ![r] = <<>>]
    /\ key' = [key EXCEPT ![r] = NoKey]
    /\ stopped' = [stopped EXCEPT ![r] = NoRunner]

Without(f, i) == [j \in DOMAIN f \ {i} |-> f[j]]

(***************************************************************************)
(* The requests, up to the reload.                                         *)
(***************************************************************************)
\* What each agent lets in. zfs-manager: one task that is created, updated or deleted, whose
\* schedule is valid; update and delete find the task first (delete only for replication: the
\* other tasks need not exist). snapraid: any value for any of the keys.
Admitted(o, values) ==
    CASE kind = "zfs" ->
            \E i \in Items : /\ DOMAIN values = {i} /\ values[i] # Bad
                             /\ IF o = "create" THEN values[i] \in Versions /\ saved[i] = Gone
                                                ELSE saved[i] # Gone
                             /\ o = "create" => ~\E q \in Active : op[q] = o /\ i \in DOMAIN todo[q]
      [] kind = "snapraid" -> o = "change" /\ \A i \in DOMAIN values : values[i] # Gone

Begin(r, o, values) ==
    /\ up /\ r = arrived + 1
    /\ Admitted(o, values)
    /\ arrived' = r
    /\ overlapped' = (overlapped \/ Active # {})
    /\ Goes(r, "save")
    /\ op' = [op EXCEPT ![r] = o]
    /\ todo' = [todo EXCEPT ![r] = values]
    /\ UNCHANGED <<storeVars, cronVars, jobVars, up, key, stopped, faults, broken>>

\* zfs-manager: one statement; an update of a row deleted meanwhile changes nothing.
SaveTask(r, i) ==
    /\ kind = "zfs" /\ pc[r] = "save" /\ i \in DOMAIN todo[r]
    /\ saved' = IF op[r] = "change" /\ saved[i] = Gone THEN saved ELSE [saved EXCEPT ![i] = todo[r][i]]
    /\ memory' = saved'
    /\ Goes(r, "stop")
    /\ todo' = [todo EXCEPT ![r] = <<>>]
    /\ UNCHANGED <<kind, cronVars, jobVars, up, op, key, stopped, boundVars, overlapped, broken>>

\* snapraid: key by key, in the order of a Go map; first the cache table ...
SaveKey(r, i) ==
    /\ kind = "snapraid" /\ pc[r] = "save" /\ i \in DOMAIN todo[r]
    /\ saved' = [saved EXCEPT ![i] = todo[r][i]]
    /\ key' = [key EXCEPT ![r] = i]
    /\ Goes(r, "assign")
    /\ UNCHANGED <<kind, memory, cronVars, jobVars, up, op, todo, stopped, boundVars, overlapped, broken>>

\* ... then the field of the configuration, without a lock.
AssignKey(r) ==
    LET rest == Without(todo[r], key[r]) IN
    /\ pc[r] = "assign"
    /\ memory' = [memory EXCEPT ![key[r]] = todo[r][key[r]]]
    /\ todo' = [todo EXCEPT ![r] = rest]
    /\ key' = [key EXCEPT ![r] = NoKey]
    /\ Goes(r, IF DOMAIN rest = {} THEN "stop" ELSE "save")
    /\ UNCHANGED <<kind, saved, cronVars, jobVars, up, op, stopped, boundVars, overlapped, broken>>

\* The runner n runs, and has every item that is wanted in its latest version.
Serves(n) ==
    /\ n \in running
    /\ \A i \in Items : memory[i] \in Versions =>
           \E e \in entries[n] : e.item = i /\ e.value = memory[i]

\* It has nothing else, and each item once.
NothingElse(n) ==
    \A e, f \in entries[n] : e.value = memory[e.item] /\ (e.item = f.item => e = f)

\* The write fails and the handler returns without a reload, whatever it has saved before.
SaveFails(r) ==
    /\ pc[r] = "save" /\ faults < MaxFaults
    /\ faults' = faults + 1
    /\ Leaves(r)
    /\ broken' = (broken \/ ~Serves(current) \/ ~NothingElse(current))
    /\ UNCHANGED <<storeVars, cronVars, jobVars, up, arrived, overlapped>>

(***************************************************************************)
(* The reload.                                                             *)
(***************************************************************************)
\* Mutant: the new runner takes over, the old one is left to run.
StopForgotten(r) ==
    /\ pc[r] = "stop"
    /\ stopped' = [stopped EXCEPT ![r] = current]
    /\ Goes(r, "await")
    /\ UNCHANGED <<storeVars, cronVars, jobVars, up, op, todo, key, boundVars, overlapped, broken>>

StopRunner(r) ==
    /\ pc[r] = "stop"
    /\ stopped' = [stopped EXCEPT ![r] = current]
    /\ running' = running \ {current}
    /\ Goes(r, "await")
    /\ UNCHANGED <<storeVars, current, created, entries, jobVars, up, op, todo, key, boundVars,
                   overlapped, broken>>

\* The jobs of the stopped runner have ended.
Replace(r) ==
    /\ pc[r] = "await" /\ job # stopped[r]
    /\ created' = created + 1 /\ current' = created'
    /\ Goes(r, "list")
    /\ UNCHANGED <<storeVars, running, entries, jobVars, up, op, todo, key, stopped, boundVars,
                   overlapped, broken>>

\* What a read of the item may see: the rows of zfs-manager come from one query; a field of
\* the configuration that another request is writing is the old value, the new one, or parts
\* of both.
Readable(i) ==
    {memory[i]} \cup UNION {{todo[q][i], Bad} : q \in {p \in Requests : pc[p] = "assign" /\ key[p] = i}}

List(r) ==
    /\ pc[r] = "list"
    /\ \E values \in [Items -> Values] :
           /\ \A i \in Items : values[i] \in Readable(i)
           /\ todo' = [todo EXCEPT ![r] = [i \in {j \in Items : values[j] \notin {Gone, Off}} |-> values[i]]]
    /\ broken' = FALSE
    /\ Goes(r, "register")
    /\ UNCHANGED <<storeVars, cronVars, jobVars, up, op, key, stopped, boundVars, overlapped>>

\* zfs-manager: the query fails, and the runner is not started.
ListFails(r) ==
    /\ kind = "zfs" /\ pc[r] = "list" /\ faults < MaxFaults
    /\ faults' = faults + 1
    /\ Leaves(r)
    /\ broken' = TRUE
    /\ UNCHANGED <<storeVars, cronVars, jobVars, up, arrived, overlapped>>

Register(r, i) ==
    /\ pc[r] = "register" /\ i \in DOMAIN todo[r] /\ todo[r][i] \in Versions
    /\ entries' = [entries EXCEPT ![current] = @ \cup {[item |-> i, value |-> todo[r][i], by |-> r]}]
    /\ todo' = [todo EXCEPT ![r] = Without(@, i)]
    /\ UNCHANGED <<storeVars, current, created, running, jobVars, up, pc, op, key, stopped, boundVars,
                   overlapped, broken>>

\* snapraid: the expression is refused; the rest is not registered, the runner not started.
RegisterFails(r, i) ==
    /\ pc[r] = "register" /\ i \in DOMAIN todo[r] /\ todo[r][i] = Bad
    /\ Leaves(r)
    /\ broken' = TRUE
    /\ UNCHANGED <<storeVars, cronVars, jobVars, up, boundVars, overlapped>>

\* Mutant: a reload that registers everything and does not start the runner.
StartForgotten(r) ==
    /\ pc[r] = "register" /\ DOMAIN todo[r] = {}
    /\ Leaves(r)
    /\ UNCHANGED <<storeVars, cronVars, jobVars, up, boundVars, overlapped, broken>>

StartRunner(r) ==
    /\ pc[r] = "register" /\ DOMAIN todo[r] = {}
    /\ running' = running \cup {current}
    /\ Leaves(r)
    /\ UNCHANGED <<storeVars, current, created, entries, jobVars, up, boundVars, overlapped, broken>>

(***************************************************************************)
(* The jobs.                                                               *)
(***************************************************************************)
\* A runner fires what it has registered. A job that finds jobMu taken is skipped: it
\* changes nothing and does not wait.
Fire(n) ==
    /\ n \in running /\ entries[n] # {} /\ job = NoJob
    /\ job' = n
    /\ UNCHANGED <<storeVars, cronVars, waiting, up, reqVars, boundVars, overlapped, broken>>

\* Mutant: a job that reloads the scheduler before it returns.
JobReloads ==
    /\ job # NoJob /\ ~\E r \in Active : stopped[r] = job
    /\ job' = NoJob
    /\ UNCHANGED <<storeVars, cronVars, waiting, up, reqVars, boundVars, overlapped, broken>>

\* A job ends, or never does: see Fairness.
JobEnds ==
    /\ job # NoJob
    /\ job' = NoJob
    /\ UNCHANGED <<storeVars, cronVars, waiting, up, reqVars, boundVars, overlapped, broken>>

\* zfs-manager: a run of a task is asked for by hand; it waits for jobMu. Bound: one such
\* run waits at a time.
RunNow(i) ==
    /\ up /\ kind = "zfs" /\ ~waiting /\ saved[i] # Gone
    /\ waiting' = TRUE
    /\ UNCHANGED <<storeVars, cronVars, job, up, reqVars, boundVars, overlapped, broken>>

ManualRuns ==
    /\ waiting /\ job = NoJob
    /\ job' = ByHand /\ waiting' = FALSE
    /\ UNCHANGED <<storeVars, cronVars, up, reqVars, boundVars, overlapped, broken>>

(***************************************************************************)
(* The agent stops, by a crash or on purpose: jobs and handlers are gone.  *)
(* It reads the store again at its start; an expression cron refuses makes *)
(* the start fail.                                                         *)
(***************************************************************************)
AgentStops ==
    /\ up /\ faults < MaxFaults
    /\ up' = FALSE /\ faults' = faults + 1
    /\ running' = {} /\ entries' = [n \in Runners |-> {}]
    /\ job' = NoJob /\ waiting' = FALSE
    /\ pc' = [r \in Requests |-> "idle"] /\ op' = [r \in Requests |-> "change"]
    /\ todo' = [r \in Requests |-> <<>>]
    /\ key' = [r \in Requests |-> NoKey] /\ stopped' = [r \in Requests |-> NoRunner]
    /\ UNCHANGED <<storeVars, current, created, arrived, overlapped, broken>>

AgentStarts ==
    /\ ~up /\ \A i \in Items : saved[i] # Bad
    /\ up' = TRUE
    /\ memory' = saved
    /\ current' = 0 /\ created' = 0 /\ running' = {0}
    /\ entries' = [entries EXCEPT ![0] = Registered(saved, Nobody)]
    /\ overlapped' = FALSE /\ broken' = FALSE
    /\ UNCHANGED <<kind, saved, jobVars, reqVars, boundVars>>

-----------------------------------------------------------------------------
\* What one request may bring.
Wishes == UNION {[I -> Offers] : I \in (SUBSET Items) \ {{}}}

Saves(r) == AssignKey(r) \/ \E i \in Items : SaveTask(r, i) \/ SaveKey(r, i)

Reloads(r) ==
    \/ StopRunner(r)
    \/ List(r)
    \/ StartRunner(r)
    \/ \E i \in Items : Register(r, i) \/ RegisterFails(r, i)

Next ==
    \/ \E r \in Requests :
           \/ \E o \in {"create", "change"}, values \in Wishes : Begin(r, o, values)
           \/ Saves(r) \/ SaveFails(r)
           \/ Reloads(r) \/ Replace(r) \/ ListFails(r)
    \/ \E n \in Runners : Fire(n)
    \/ JobEnds
    \/ \E i \in Items : RunNow(i)
    \/ ManualRuns
    \/ AgentStops
    \/ AgentStarts

Spec == Init /\ [][Next]_vars

\* Handlers run on. A job of snapraid ends, since its commands have timeouts; nothing bounds
\* a job of zfs-manager: its commands and its post of log lines to the hub run in the
\* context of the agent. A WaitGroup releases its waiter once it has been empty, and a
\* sync.Mutex is handed to a goroutine that has waited for a millisecond: neither can be
\* overtaken for ever.
Fairness ==
    /\ \A r \in Requests : WF_vars(Saves(r)) /\ WF_vars(Reloads(r)) /\ SF_vars(Replace(r))
    /\ WF_vars(kind = "snapraid" /\ JobEnds) /\ SF_vars(ManualRuns)

FairSpec == Spec /\ Fairness

(***************************************************************************)
(* Properties.                                                             *)
(***************************************************************************)
\* However the requests interleave, once they have returned the current runner runs and fires
\* every wanted item in its latest version, unless the last reload failed (the snapraid and
\* zfs-manager schedulers' Reschedule and Reload, which take no lock).
NothingForgotten == up /\ Active = {} /\ ~broken => Serves(current)

\* As long as no two requests have met there is one runner at most, and at rest it fires
\* nothing but what is stored, each item once; the configuration in memory is the one a
\* restart would read. (Requests that meet can leave a second runner that nobody stops, a
\* deleted task in the current one, and a memory that differs from the cache.)
OnlyTheLatest ==
    ~overlapped =>
        /\ running \subseteq {current}
        /\ up /\ Active = {} /\ ~broken => saved = memory /\ NothingElse(current)

\* The runner that a reload stops is the only one: no other fires afterwards (scheduler.go
\* of zfs-manager, the comment at line 72: Reload "stops, clears, and re-registers all
\* enabled tasks").
ReloadStopsTheRest == Active = {} => running \subseteq {current}

\* A job that never ends: the request waits for it, in Reload, or the run by hand does, for
\* jobMu. Only zfs-manager has such jobs.
HangsAt(r) == kind = "zfs" /\ pc[r] = "await" /\ job = stopped[r]
HoldsJobMu == kind = "zfs" /\ job # NoJob

\* Every request returns, though its reload waits for a job that runs, and every run asked
\* for by hand is made, though scheduled jobs compete for the mutex; except those of
\* zfs-manager that wait for a job which hangs for ever.
EveryRequestEnds ==
    /\ \A r \in Requests : []<>(pc[r] = "idle") \/ <>[]HangsAt(r)
    /\ []<>(~waiting) \/ <>[]HoldsJobMu

=============================================================================
