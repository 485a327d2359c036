------------------------------ MODULE HubAgents ------------------------------
(***************************************************************************)
(* How agents join a hub: the registry and its file, the pre-shared key    *)
(* (PSK) and its file, the rotation of the key and the registration loop   *)
(* of the agents. The three add-ons share the design and differ in three   *)
(* decisions, which depend on `kind`:                                      *)
(*                                                                         *)
(*   - burn-in writes the registry to a temporary file and renames it, and *)
(*     says "registered" although the write failed; the others write in    *)
(*     place and report the failure of a registration;                     *)
(*   - burn-in changes the key in memory first and then the file, the      *)
(*     others the file first;                                              *)
(*   - burn-in's telemetry endpoint compares with a copy of the key that   *)
(*     the aggregator was given when the hub started.                      *)
(*                                                                         *)
(* os.WriteFile truncates and then writes, so a file has a moment in which *)
(* it is empty, and is left so when the write fails. A file that cannot    *)
(* even be opened stays as it was. Keys are numbered in the order in which *)
(* they are made.                                                          *)
(***************************************************************************)
EXTENDS Integers, FiniteSets

CONSTANTS Kinds,         \* the add-ons looked at
          Agents,        \* the agents' IDs
          NoAgent,       \* nobody is saving the registry
          Rotations,     \* requests to rotate the key
          Budgets        \* bounds: what may happen in a behaviour, and how often

AddOns == {"burnin", "snapraid", "zfs"}

ASSUME KindsAssumption == Kinds \subseteq AddOns
ASSUME NoAgentAssumption == NoAgent \notin Agents

\* `deploys` counts agents installed or stopped, `changes` agents deleted or renamed by
\* the operator, `faults` crashes of the hub, failed writes and lost answers, `jobs` jobs
\* that did not come through a request of the model.
Budget == [deploys : Nat, changes : Nat, faults : Nat, rotations : Nat, requests : Nat, jobs : Nat]
ASSUME BudgetsAssumption == Budgets \subseteq Budget

VARIABLES kind,          \* the add-on this hub belongs to
          fixedKey,      \* burn-in: the key comes from the configuration
          hub,           \* "up", "down", or "refuses" to start
          psk, pskFile,  \* the key in memory, and in hub.psk
          streamKey,     \* the aggregator's copy
          minted,        \* the number of keys made so far
          rotation,      \* the handlers of the rotation requests
          registry,      \* the agents in memory
          registryFile,  \* and in the registry's file, or Torn
          saving,        \* whose change holds the registry's mutex, and the file before it
          agent,         \* the agents: their place and the key they were given
          left           \* what is left of the budget of this behaviour

\* History: what the hub last told of an agent; the agents for whom a save has failed;
\* whether two rotations overlapped, or burn-in could not open the file for one; whether
\* the last write of the key file failed after it had emptied the file.
VARIABLES told, unsaved, keysParted, keyCut

hubVars == <<hub, psk, pskFile, streamKey, minted, rotation>>
regVars == <<registry, registryFile, saving>>
history == <<told, unsaved, keysParted, keyCut>>
agentsVars == <<kind, fixedKey, hubVars, regVars, agent, left, history>>

NoKey == 0                              \* the content of an empty file
Keys == Nat
Torn == {NoAgent}                       \* a file that does not parse
NotSaving == [who |-> NoAgent, op |-> "none", old |-> {}]
Idle == [at |-> "idle", key |-> NoKey]

TypeOK ==
    /\ kind \in Kinds /\ fixedKey \in BOOLEAN
    /\ hub \in {"up", "down", "refuses"}
    /\ {psk, pskFile, streamKey, minted} \subseteq Keys
    /\ rotation \in [Rotations -> [at : {"idle", "first", "writing", "second", "done"}, key : Keys]]
    /\ registry \subseteq Agents
    /\ registryFile \in (SUBSET Agents) \cup {Torn}
    /\ saving \in [who : Agents \cup {NoAgent}, op : {"none", "register", "delete", "alias"},
                  old : (SUBSET Agents) \cup {Torn}]
    /\ agent \in [Agents -> [at : {"off", "registering", "registered"}, key : Keys]]
    /\ left \in Budget
    /\ told \in [Agents -> {"nothing", "registered", "deleted"}]
    /\ unsaved \subseteq Agents /\ keysParted \in BOOLEAN /\ keyCut \in BOOLEAN

\* A hub that has been started for the first time, and agents not yet installed.
AgentsInit ==
    /\ kind \in Kinds
    /\ fixedKey \in (IF kind = "burnin" THEN BOOLEAN ELSE {FALSE})
    /\ hub = "up"
    /\ psk = 1 /\ streamKey = 1 /\ minted = 1
    /\ pskFile = IF fixedKey THEN NoKey ELSE 1
    /\ rotation = [x \in Rotations |-> Idle]
    /\ registry = {} /\ registryFile = {} /\ saving = NotSaving
    /\ agent = [a \in Agents |-> [at |-> "off", key |-> NoKey]]
    /\ left \in Budgets
    /\ told = [a \in Agents |-> "nothing"] /\ unsaved = {}
    /\ keysParted = FALSE /\ keyCut = FALSE

Fault == /\ left.faults > 0
         /\ left' = [left EXCEPT !.faults = @ - 1]

(***************************************************************************)
(* The registry. Register, Delete and SetAlias change the map and write    *)
(* the file before they release the mutex.                                 *)
(***************************************************************************)
InPlace == kind # "burnin"

\* The content of the file while a save is under way.
FileDuringSave == IF InPlace THEN Torn ELSE registryFile

\* requirePSK, then handleRegisterAgent up to the write of the file.
Register(a) ==
    /\ hub = "up" /\ saving = NotSaving
    /\ agent[a].at = "registering" /\ agent[a].key = psk
    /\ registry' = registry \cup {a}
    /\ registryFile' = FileDuringSave
    /\ saving' = [who |-> a, op |-> "register", old |-> registryFile]
    /\ told' = [told EXCEPT ![a] = "nothing"]
    /\ UNCHANGED <<kind, fixedKey, hubVars, agent, left, unsaved, keysParted, keyCut>>

\* Mutant: the deletion is not written to the file.
DeleteInMemory(a) ==
    /\ hub = "up" /\ saving = NotSaving /\ a \in registry
    /\ left.changes > 0
    /\ left' = [left EXCEPT !.changes = @ - 1]
    /\ registry' = registry \ {a}
    /\ told' = [told EXCEPT ![a] = "deleted"]
    /\ UNCHANGED <<kind, fixedKey, hubVars, registryFile, saving, agent, unsaved, keysParted, keyCut>>

\* handleDeleteAgent up to the write of the file.
Delete(a) ==
    /\ hub = "up" /\ saving = NotSaving /\ a \in registry
    /\ left.changes > 0
    /\ left' = [left EXCEPT !.changes = @ - 1]
    /\ registry' = registry \ {a}
    /\ registryFile' = FileDuringSave
    /\ saving' = [who |-> a, op |-> "delete", old |-> registryFile]
    /\ told' = [told EXCEPT ![a] = "nothing"]
    /\ UNCHANGED <<kind, fixedKey, hubVars, agent, unsaved, keysParted, keyCut>>

\* The ZFS manager's handleAgentSetAlias rewrites the file with the same agents.
SetAlias(a) ==
    /\ kind = "zfs"
    /\ hub = "up" /\ saving = NotSaving /\ a \in registry
    /\ left.changes > 0
    /\ left' = [left EXCEPT !.changes = @ - 1]
    /\ registryFile' = FileDuringSave
    /\ saving' = [who |-> a, op |-> "alias", old |-> registryFile]
    /\ UNCHANGED <<kind, fixedKey, hubVars, registry, agent, history>>

Answered(op) == CASE op = "register" -> "registered" [] op = "delete" -> "deleted"

\* The agent hears 200 and leaves its loop, if it still waits for the answer.
Heard(a) ==
    agent' = IF agent[a].at = "registering" THEN [agent EXCEPT ![a].at = "registered"] ELSE agent

\* The write succeeds, the mutex is released and the answer goes out.
FinishSave ==
    LET a == saving.who IN
    /\ saving # NotSaving
    /\ registryFile' = registry
    /\ saving' = NotSaving
    /\ unsaved' = {}
    /\ told' = IF saving.op = "alias" THEN told ELSE [told EXCEPT ![a] = Answered(saving.op)]
    /\ IF saving.op = "register" THEN Heard(a) ELSE UNCHANGED agent
    /\ UNCHANGED <<kind, fixedKey, hubVars, registry, left, keysParted, keyCut>>

\* The same, but the answer to a registration does not arrive: the agent retries.
FinishSaveUnheard ==
    /\ saving.op = "register" /\ Fault
    /\ registryFile' = registry
    /\ saving' = NotSaving
    /\ unsaved' = {}
    /\ told' = [told EXCEPT ![saving.who] = "registered"]
    /\ UNCHANGED <<kind, fixedKey, hubVars, registry, agent, keysParted, keyCut>>

\* What a registration that could not be saved does to the agent: burn-in only
\* logs the error and answers 200, the others answer 500 and the agent retries.
AfterFailedRegister(a) == IF kind = "burnin" THEN Heard(a) ELSE UNCHANGED agent

\* The file cannot be opened, and stays as it was before the change; or a write in place
\* fails in the middle. Delete ignores the error; SetAlias reports it.
SaveFails ==
    LET a == saving.who IN
    /\ saving # NotSaving /\ Fault
    /\ \/ registryFile' = saving.old
       \/ InPlace /\ registryFile' = Torn
    /\ saving' = NotSaving
    /\ unsaved' = unsaved \cup {a}
    /\ told' = IF saving.op = "delete" \/ (saving.op = "register" /\ kind = "burnin")
               THEN [told EXCEPT ![a] = Answered(saving.op)] ELSE told
    /\ IF saving.op = "register" THEN AfterFailedRegister(a) ELSE UNCHANGED agent
    /\ UNCHANGED <<kind, fixedKey, hubVars, registry, keysParted, keyCut>>

(***************************************************************************)
(* The rotation of the key. A handler makes a key, then changes memory and *)
(* file, each on its own: nothing keeps two handlers apart.                *)
(***************************************************************************)
MemoryFirst == kind = "burnin"

Moving(x) == rotation[x].at \in {"first", "writing", "second"}
To(x, place) == rotation' = [rotation EXCEPT ![x].at = place]

\* handleRotatePSK makes the key; burn-in uses it at once.
BeginRotation(x) ==
    /\ hub = "up" /\ rotation[x].at = "idle" /\ left.rotations > 0
    /\ left' = [left EXCEPT !.rotations = @ - 1]
    /\ minted' = minted + 1
    /\ rotation' = [rotation EXCEPT ![x] = [at |-> "first", key |-> minted + 1]]
    /\ psk' = IF MemoryFirst THEN minted + 1 ELSE psk
    /\ keysParted' = (keysParted \/ \E y \in Rotations : Moving(y))
    /\ UNCHANGED <<kind, fixedKey, hub, pskFile, streamKey, regVars, agent, told, unsaved, keyCut>>

TruncateKeyFile(x) ==
    /\ rotation[x].at = "first"
    /\ pskFile' = NoKey
    /\ To(x, "writing")
    /\ UNCHANGED <<kind, fixedKey, hub, psk, streamKey, minted, regVars, agent, left, history>>

WriteKeyFile(x) ==
    /\ rotation[x].at = "writing"
    /\ pskFile' = rotation[x].key /\ keyCut' = FALSE
    /\ To(x, IF MemoryFirst THEN "done" ELSE "second")
    /\ UNCHANGED <<kind, fixedKey, hub, psk, streamKey, minted, regVars, agent, left,
                   told, unsaved, keysParted>>

\* Mutant: the key is used although it could not be written.
KeyFileFailsUnnoticed(x) ==
    /\ rotation[x].at = "first" /\ Fault
    /\ To(x, IF MemoryFirst THEN "done" ELSE "second")
    /\ keysParted' = (keysParted \/ MemoryFirst)
    /\ UNCHANGED <<kind, fixedKey, hub, psk, pskFile, streamKey, minted, regVars, agent, told, unsaved, keyCut>>

\* The file cannot be opened: the handler answers 500. With burn-in the key is in use.
KeyFileFails(x) ==
    /\ rotation[x].at = "first" /\ Fault
    /\ To(x, "done")
    /\ keysParted' = (keysParted \/ MemoryFirst)
    /\ UNCHANGED <<kind, fixedKey, hub, psk, pskFile, streamKey, minted, regVars, agent, told, unsaved, keyCut>>

\* The write fails: the handler answers 500, and the file is left empty (a line so short
\* is written whole or not at all), so that the hub makes a key of its own at its next start.
KeyWriteFails(x) ==
    /\ rotation[x].at = "writing" /\ Fault
    /\ To(x, "done")
    /\ keyCut' = TRUE
    /\ UNCHANGED <<kind, fixedKey, hub, psk, pskFile, streamKey, minted, regVars, agent,
                   told, unsaved, keysParted>>

UseKey(x) ==
    /\ rotation[x].at = "second"
    /\ psk' = rotation[x].key
    /\ To(x, "done")
    /\ UNCHANGED <<kind, fixedKey, hub, pskFile, streamKey, minted, regVars, agent, left, history>>

(***************************************************************************)
(* The agents, and the hub's life.                                         *)
(***************************************************************************)
\* The operator installs the agent, or installs it anew, with the key the hub shows.
Deploy(a) ==
    /\ hub = "up" /\ left.deploys > 0
    /\ left' = [left EXCEPT !.deploys = @ - 1]
    /\ agent' = [agent EXCEPT ![a] = [at |-> "registering", key |-> psk]]
    /\ UNCHANGED <<kind, fixedKey, hubVars, regVars, history>>

\* The agent's process ends, and comes back with the key it had.
AgentStops(a) ==
    /\ agent[a].at # "off" /\ left.deploys > 0
    /\ left' = [left EXCEPT !.deploys = @ - 1]
    /\ agent' = [agent EXCEPT ![a].at = "off"]
    /\ UNCHANGED <<kind, fixedKey, hubVars, regVars, history>>

AgentStarts(a) ==
    /\ agent[a].at = "off" /\ agent[a].key # NoKey
    /\ agent' = [agent EXCEPT ![a].at = "registering"]
    /\ UNCHANGED <<kind, fixedKey, hubVars, regVars, left, history>>

\* Handlers and mutexes are gone; files stay as they are.
HubCrash ==
    /\ hub = "up" /\ Fault
    /\ hub' = "down"
    /\ psk' = NoKey /\ streamKey' = NoKey
    /\ rotation' = [x \in Rotations |-> IF Moving(x) THEN [rotation[x] EXCEPT !.at = "done"]
                                        ELSE rotation[x]]
    /\ registry' = {} /\ saving' = NotSaving
    /\ UNCHANGED <<kind, fixedKey, pskFile, minted, registryFile, agent, told, unsaved, keysParted, keyCut>>

\* loadOrGeneratePSK: a key from the configuration is not looked up in the file, and
\* an empty file is written anew.
LoadKey ==
    IF fixedKey THEN psk' = 1 /\ UNCHANGED <<pskFile, minted>>
    ELSE IF pskFile # NoKey THEN psk' = pskFile /\ UNCHANGED <<pskFile, minted>>
    ELSE /\ minted' = minted + 1 /\ psk' = minted + 1 /\ pskFile' = minted + 1

\* main: the key, then the registry, whose file must parse.
HubStart ==
    /\ hub = "down"
    /\ LoadKey
    /\ IF registryFile = Torn
       THEN hub' = "refuses" /\ UNCHANGED <<registry, streamKey>>
       ELSE hub' = "up" /\ registry' = registryFile /\ streamKey' = psk'
    /\ keysParted' = FALSE /\ keyCut' = FALSE
    /\ told' = [a \in Agents |-> IF a \in unsaved THEN "nothing" ELSE told[a]]
    /\ unsaved' = {}
    /\ UNCHANGED <<kind, fixedKey, rotation, registryFile, saving, agent, left>>

AgentsNext ==
    \/ \E a \in Agents : Register(a) \/ Delete(a) \/ SetAlias(a)
                         \/ Deploy(a) \/ AgentStops(a) \/ AgentStarts(a)
    \/ FinishSave \/ FinishSaveUnheard \/ SaveFails
    \/ \E x \in Rotations : BeginRotation(x) \/ TruncateKeyFile(x) \/ WriteKeyFile(x)
                            \/ KeyFileFails(x) \/ KeyWriteFails(x) \/ UseKey(x)
    \/ HubCrash \/ HubStart

(***************************************************************************)
(* Properties.                                                             *)
(***************************************************************************)
\* While no rotation is under way, the key in use is the key in the file, so that
\* the agents that were given it are still welcome after a restart of the hub; or the
\* file is empty, since the last write of it failed, and a restart locks them all out, but
\* no other key is ever in it. Not so when rotations overlapped, burn-in's file could not
\* be opened, or its key is fixed by the configuration (handleRotatePSK, PersistPSK,
\* loadOrGeneratePSK).
KeysAgree ==
    (hub = "up" /\ ~fixedKey /\ ~keysParted /\ \A x \in Rotations : ~Moving(x)) =>
        pskFile = IF keyCut THEN NoKey ELSE psk

\* Burn-in: an agent with the hub's key, in its registry, is let in by the telemetry
\* endpoint (HandleAgentTelemetry, handleRotatePSK).
RotatedKeyWorks ==
    (kind = "burnin" /\ hub = "up") => \A a \in registry : agent[a].key = psk => agent[a].key = streamKey

\* What the hub last said of an agent, registered or deleted, is so for as long as
\* the hub runs and after its restarts, unless the file could not be written since
\* (Register, Delete, save, load); and burn-in's hub always starts again, since its
\* registry file is replaced, never rewritten (persistLocked).
RegistryKeepsPromises ==
    /\ (hub = "up" /\ saving = NotSaving) =>
           \A a \in Agents \ unsaved : /\ told[a] = "registered" => a \in registry
                                       /\ told[a] = "deleted" => a \notin registry
    /\ hub = "refuses" => InPlace
=============================================================================
