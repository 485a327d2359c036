-------------------------- MODULE HubCommandsProofs --------------------------
(***************************************************************************)
(* Proofs about HubCommands and the registry and key handling of HubAgents *)
(* that it contains, for any number of agents, rotations and requests and  *)
(* for any budget. Each part adds one invariant to those before it:        *)
(*                                                                         *)
(*   TypeOK       the types of the state of HubAgents;                     *)
(*   SavingInv    a save in progress belongs to an agent and to a hub that *)
(*                runs, and a registry file is never torn with burn-in;    *)
(*   PromisesInv  what was told is so in memory, and in the file but for   *)
(*                the agents whose save has failed;                        *)
(*   KeysInv      how far key and key file have come in a rotation;        *)
(*   RequestsInv  which messages are on their way, and what effects the    *)
(*                request that sent them can have had;                    *)
(*   CountInv     how many effects a request can have in all.              *)
(***************************************************************************)
EXTENDS HubCommands, FiniteSetTheorems, TLAPS

NotTorn == registryFile # Torn

SavingInv ==
    /\ saving # NotSaving => /\ hub = "up"
                             /\ saving.who \in Agents
                             /\ saving.op \in {"register", "delete", "alias"}
    /\ kind = "burnin" => NotTorn /\ saving.old # Torn
    /\ hub = "refuses" => kind # "burnin"

\* The registry, or its file, holds what the hub has told of the agents of a set.
KeptIn(agents, set) == \A a \in agents : /\ told[a] = "registered" => a \in set
                                         /\ told[a] = "deleted" => a \notin set

PromisesInv ==
    /\ hub = "up" => KeptIn(Agents, registry)
    /\ NotTorn => KeptIn(Agents \ unsaved, registryFile)
    /\ saving # NotSaving /\ saving.old # Torn => KeptIn(Agents \ unsaved, saving.old)
    /\ saving.op = "register" => saving.who \in registry
    /\ saving.op = "delete" => saving.who \notin registry

\* The file has the key in use, or is empty after a failed write.
FileMatches == pskFile = IF keyCut THEN NoKey ELSE psk

\* The place of a rotation, and what psk and pskFile are there.
RotationAt(x) ==
    /\ rotation[x].at = "first" => IF MemoryFirst THEN psk = rotation[x].key ELSE FileMatches
    /\ rotation[x].at = "writing" => pskFile = NoKey /\ (MemoryFirst => psk = rotation[x].key)
    /\ rotation[x].at = "second" => pskFile = rotation[x].key /\ ~keyCut

KeysInv ==
    /\ hub # "up" => \A x \in Rotations : ~Moving(x)
    /\ MemoryFirst => \A x \in Rotations : rotation[x].at # "second"
    /\ (hub = "up" /\ ~fixedKey /\ ~keysParted) =>
           /\ \A x, y \in Rotations : (Moving(x) /\ Moving(y)) => x = y
           /\ \A x \in Rotations : RotationAt(x)
           /\ (\A x \in Rotations : ~Moving(x)) => FileMatches

AgentsInv == TypeOK /\ SavingInv /\ PromisesInv /\ KeysInv

RequestTypes ==
    /\ job \in [Agents -> JobIDs \cup {NoJob}]
    /\ req \in [Requests -> Request]
    /\ wire \subseteq [from : Requests, to : Agents, key : Keys]
    /\ effects \in [Requests -> Nat]

\* What is on its way for a request.
Sent(r) == {m \in wire : m.from = r}

\* An agent is asked once; nothing is on its way but what is awaited or too late.
SentInv(r) ==
    LET q == req[r] IN
    /\ \A m, n \in Sent(r) : m.to = n.to => m = n
    /\ \A m \in Sent(r) : /\ m.to \notin q.ask
                          /\ q.late \/ (q.at = "asking" /\ m.to = q.to /\ q.reply = "none")
                          /\ (q.at = "asking" /\ m.to = q.to) => q.reply = "none"
                          /\ q.op # "cancel" => m.to = q.to
    /\ q.at = "idle" => Sent(r) = {}

\* One effect for what was answered in time, and at most one for a job to start.
EffectInv(r) ==
    LET q == req[r] IN
    /\ q.at = "idle" => effects[r] = 0 /\ ~q.late /\ q.answer = "none" /\ q.op = "none"
    /\ q.at = "choosing" => q.op = "cancel" /\ q.reply = "none"
    /\ q.at = "asking" => q.to \in Agents /\ q.to \notin q.ask
    /\ q.at \in {"choosing", "asking"} => q.answer = "none"
    /\ ~q.late => effects[r] = IF q.at = "done" THEN IF q.answer = "ok" THEN 1 ELSE 0
                               ELSE IF q.reply = "ok" THEN 1 ELSE 0
    /\ (q.answer = "ok" \/ (q.at = "asking" /\ q.reply = "ok")) => effects[r] > 0
    /\ q.op # "cancel" => /\ effects[r] \in {0, 1}
                          /\ effects[r] = 1 => Sent(r) = {}
                          /\ q.ask = {}

RequestsInv == \A r \in Requests : SentInv(r) /\ EffectInv(r)

Inv == AgentsInv /\ RequestTypes /\ RequestsInv

(***************************************************************************)
(* The types of HubAgents.                                                 *)
(***************************************************************************)

LEMMA TypeInit == Init => TypeOK
<1> SUFFICES ASSUME AgentsInit PROVE TypeOK
  BY DEF Init
<1> USE DEF AgentsInit, TypeOK, Keys, Idle, NoKey
<1>0. fixedKey \in BOOLEAN
  BY Zenon
<1>1. /\ {psk, pskFile, streamKey, minted} \subseteq Keys
      /\ left \in Budget
  BY BudgetsAssumption
<1>2. /\ rotation \in [Rotations -> [at : {"idle", "first", "writing", "second", "done"}, key : Keys]]
      /\ agent \in [Agents -> [at : {"off", "registering", "registered"}, key : Keys]]
      /\ told \in [Agents -> {"nothing", "registered", "deleted"}]
  OBVIOUS
<1>3. saving \in [who : Agents \cup {NoAgent}, op : {"none", "register", "delete", "alias"},
                  old : SUBSET Agents]
  BY DEF NotSaving
<1>4. QED
  BY <1>0, <1>1, <1>2, <1>3

\* What every step takes from the budget leaves a budget.
LEMMA LeftStep ==
    ASSUME left \in Budget,
           \/ left' = left
           \/ left.deploys > 0 /\ left' = [left EXCEPT !.deploys = @ - 1]
           \/ left.changes > 0 /\ left' = [left EXCEPT !.changes = @ - 1]
           \/ left.faults > 0 /\ left' = [left EXCEPT !.faults = @ - 1]
           \/ left.rotations > 0 /\ left' = [left EXCEPT !.rotations = @ - 1]
           \/ left.requests > 0 /\ left' = [left EXCEPT !.requests = @ - 1]
           \/ left.jobs > 0 /\ left' = [left EXCEPT !.jobs = @ - 1]
    PROVE  left' \in Budget
BY DEF Budget

\* Every step but those of the registry's users, the rotations, the agents' processes
\* and the hub's life leaves the state of HubAgents as it is, but for the budget.
LEMMA CommandStep ==
    ASSUME TypeOK, [Next]_vars, ~ Joining
    PROVE  agentsStay' = agentsStay /\ left' \in Budget
<1> USE DEF agentsStay, agentsVars
<1>0. left \in Budget
  BY DEF TypeOK
<1>1. ASSUME NEW r \in Requests, NEW id \in JobIDs, Broadcast(r, id)
      PROVE  agentsStay' = agentsStay /\ left' \in Budget
  BY <1>0, <1>1, LeftStep DEF Broadcast, Arrives
<1>2. ASSUME NEW r \in Requests, NEW id \in JobIDs, NEW a \in Agents,
             Execute(r, id, a) \/ CancelOnAgent(r, id, a)
      PROVE  agentsStay' = agentsStay /\ left' \in Budget
  BY <1>0, <1>2, LeftStep DEF Execute, CancelOnAgent, Arrives
<1>3. ASSUME NEW r \in Requests, (\E a \in Agents : AskNext(r, a)) \/ Relay(r) \/ TimeOut(r)
      PROVE  agentsStay' = agentsStay /\ left' \in Budget
  BY <1>0, <1>3 DEF AskNext, Relay, TimeOut
<1>4. ASSUME NEW m \in wire, AgentTakes(m) \/ Unreachable(m)
      PROVE  agentsStay' = agentsStay /\ left' \in Budget
  BY <1>0, <1>4 DEF AgentTakes, Unreachable
<1>5. ASSUME NEW a \in Agents, JobEnds(a) \/ \E id \in JobIDs : JobStarts(a, id)
      PROVE  agentsStay' = agentsStay /\ left' \in Budget
  BY <1>0, <1>5, LeftStep DEF JobEnds, JobStarts
<1>6. CASE UNCHANGED vars
  BY <1>0, <1>6 DEF vars
<1>7. QED
  BY <1>1, <1>2, <1>3, <1>4, <1>5, <1>6 DEF Next

LEMMA TypeStep == TypeOK /\ SavingInv /\ AgentsNext => TypeOK'
<1> SUFFICES ASSUME TypeOK, SavingInv, AgentsNext PROVE TypeOK'
  OBVIOUS
<1> USE DEF TypeOK, Fault, Keys
<1>0. left \in Budget
  OBVIOUS
<1>1. ASSUME NEW a \in Agents, Register(a) PROVE TypeOK'
  BY <1>1, NoAgentAssumption DEF Register, FileDuringSave, SavingInv, NotTorn, hubVars
<1>2. ASSUME NEW a \in Agents, Delete(a) PROVE TypeOK'
  BY <1>2, LeftStep, NoAgentAssumption DEF Delete, FileDuringSave, SavingInv, NotTorn, hubVars
<1>3. ASSUME NEW a \in Agents, SetAlias(a) PROVE TypeOK'
  BY <1>3, LeftStep, NoAgentAssumption
     DEF SetAlias, FileDuringSave, SavingInv, NotTorn, hubVars, history
<1>4. ASSUME NEW a \in Agents, Deploy(a) PROVE TypeOK'
  BY <1>4, LeftStep DEF Deploy, hubVars, regVars, history
<1>5. ASSUME NEW a \in Agents, AgentStops(a) PROVE TypeOK'
  BY <1>5, LeftStep DEF AgentStops, hubVars, regVars, history
<1>6. ASSUME NEW a \in Agents, AgentStarts(a) PROVE TypeOK'
  BY <1>6 DEF AgentStarts, hubVars, regVars, history
<1>7. CASE FinishSave \/ FinishSaveUnheard \/ SaveFails
  <2>1. saving # NotSaving
    BY <1>7 DEF FinishSave, FinishSaveUnheard, SaveFails, NotSaving
  <2>2. saving.who \in Agents /\ saving.op \in {"register", "delete", "alias"}
    BY <2>1 DEF SavingInv
  <2>3. ASSUME NEW a \in Agents, Heard(a) PROVE agent' \in [Agents -> [at : {"off", "registering", "registered"}, key : Keys]]
    BY <2>3 DEF Heard
  <2>4. CASE FinishSave
    BY <2>2, <2>3, <2>4 DEF FinishSave, NotSaving, Answered, hubVars
  <2>5. CASE FinishSaveUnheard
    BY <2>2, <2>5, LeftStep DEF FinishSaveUnheard, NotSaving, hubVars
  <2>6. CASE SaveFails
    BY <2>2, <2>3, <2>6, LeftStep DEF SaveFails, NotSaving, Answered, AfterFailedRegister, hubVars
  <2>7. QED
    BY <1>7, <2>4, <2>5, <2>6
<1>8. ASSUME NEW x \in Rotations, BeginRotation(x) PROVE TypeOK'
  BY <1>8, LeftStep DEF BeginRotation, regVars
<1>9. ASSUME NEW x \in Rotations, TruncateKeyFile(x) \/ WriteKeyFile(x) \/ UseKey(x) PROVE TypeOK'
  <2>1. rotation[x].key \in Keys
    OBVIOUS
  <2>2. CASE TruncateKeyFile(x)
    BY <2>2 DEF TruncateKeyFile, To, NoKey, regVars, history
  <2>3. CASE WriteKeyFile(x)
    <3>1. pskFile' = rotation[x].key /\ keyCut' = FALSE
      BY <2>3 DEF WriteKeyFile
    <3>2. rotation' \in [Rotations -> [at : {"idle", "first", "writing", "second", "done"}, key : Keys]]
      BY <2>3 DEF WriteKeyFile, To
    <3>3. UNCHANGED <<kind, fixedKey, hub, psk, streamKey, minted, regVars, agent, left,
                      told, unsaved, keysParted>>
      BY <2>3 DEF WriteKeyFile
    <3>4. QED
      BY <2>1, <3>1, <3>2, <3>3 DEF regVars
  <2>4. CASE UseKey(x)
    BY <2>1, <2>4 DEF UseKey, To, regVars, history
  <2>5. QED
    BY <1>9, <2>2, <2>3, <2>4
<1>10. ASSUME NEW x \in Rotations, KeyFileFails(x) \/ KeyWriteFails(x) PROVE TypeOK'
  <2>1. CASE KeyFileFails(x)
    BY <2>1, LeftStep DEF KeyFileFails, To, regVars
  <2>2. CASE KeyWriteFails(x)
    BY <2>2, LeftStep DEF KeyWriteFails, To, regVars
  <2>3. QED
    BY <1>10, <2>1, <2>2
<1>11. CASE HubCrash
  BY <1>11, LeftStep DEF HubCrash, NoKey, NotSaving
<1>12. CASE HubStart
  <2>1. {psk', pskFile', streamKey', minted'} \subseteq Keys
    BY <1>12 DEF HubStart, LoadKey
  <2>2. registry' \subseteq Agents /\ hub' \in {"up", "down", "refuses"}
    BY <1>12 DEF HubStart
  <2>3. told' \in [Agents -> {"nothing", "registered", "deleted"}]
    BY <1>12 DEF HubStart
  <2>4. QED
    BY <1>12, <2>1, <2>2, <2>3 DEF HubStart
<1>13. QED
  BY <1>1, <1>2, <1>3, <1>4, <1>5, <1>6, <1>7, <1>8, <1>9, <1>10, <1>11, <1>12 DEF AgentsNext

(***************************************************************************)
(* The registry and its file.                                              *)
(***************************************************************************)

\* A step that is not one of the registry's users and not the hub's life.
Elsewhere ==
    \/ \E a \in Agents : Deploy(a) \/ AgentStops(a) \/ AgentStarts(a)
    \/ \E x \in Rotations : BeginRotation(x) \/ TruncateKeyFile(x) \/ WriteKeyFile(x)
                            \/ KeyFileFails(x) \/ KeyWriteFails(x) \/ UseKey(x)

LEMMA ElsewhereStays ==
    ASSUME Elsewhere
    PROVE  UNCHANGED <<kind, fixedKey, hub, regVars, told, unsaved>>
BY DEF Elsewhere, Deploy, AgentStops, AgentStarts, BeginRotation, TruncateKeyFile, WriteKeyFile,
       KeyFileFails, KeyWriteFails, UseKey, hubVars, regVars, history

LEMMA AgentsCases ==
    ASSUME AgentsNext
    PROVE  \/ \E a \in Agents : Register(a) \/ Delete(a) \/ SetAlias(a)
           \/ FinishSave \/ FinishSaveUnheard \/ SaveFails
           \/ HubCrash \/ HubStart \/ Elsewhere
BY DEF AgentsNext, Elsewhere

LEMMA SavingStep == TypeOK /\ SavingInv /\ AgentsNext => SavingInv'
<1> SUFFICES ASSUME TypeOK, SavingInv, AgentsNext PROVE SavingInv'
  OBVIOUS
<1> USE NoAgentAssumption DEF TypeOK, SavingInv, NotTorn, Torn, NotSaving, InPlace
<1>1. ASSUME NEW a \in Agents, Register(a) \/ Delete(a) \/ SetAlias(a) PROVE SavingInv'
  BY <1>1 DEF Register, Delete, SetAlias, FileDuringSave, InPlace, hubVars, NotSaving
<1>2. CASE FinishSave \/ FinishSaveUnheard
  <2>1. saving' = NotSaving /\ registryFile' = registry /\ UNCHANGED <<kind, hub>>
    BY <1>2 DEF FinishSave, FinishSaveUnheard, hubVars
  <2>2. registry # Torn
    BY DEF Torn
  <2>3. QED
    BY <2>1, <2>2
<1>3. CASE SaveFails
  BY <1>3 DEF SaveFails, hubVars
<1>4. CASE HubCrash
  BY <1>4 DEF HubCrash
<1>5. CASE HubStart
  BY <1>5 DEF HubStart
<1>6. CASE Elsewhere
  BY <1>6, ElsewhereStays DEF regVars
<1>7. QED
  BY <1>1, <1>2, <1>3, <1>4, <1>5, <1>6, AgentsCases

LEMMA PromisesStep == TypeOK /\ SavingInv /\ PromisesInv /\ AgentsNext => PromisesInv'
<1> SUFFICES ASSUME TypeOK, SavingInv, PromisesInv, AgentsNext PROVE PromisesInv'
  OBVIOUS
<1> USE NoAgentAssumption DEF TypeOK, SavingInv, PromisesInv, NotTorn, Torn, KeptIn
<1>1. ASSUME NEW a \in Agents, Register(a) PROVE PromisesInv'
  BY <1>1 DEF Register, FileDuringSave, InPlace, hubVars
<1>2. ASSUME NEW a \in Agents, Delete(a) PROVE PromisesInv'
  BY <1>2 DEF Delete, FileDuringSave, InPlace, hubVars
<1>3. ASSUME NEW a \in Agents, SetAlias(a) PROVE PromisesInv'
  BY <1>3 DEF SetAlias, FileDuringSave, InPlace, hubVars, history
<1>4. CASE FinishSave
  BY <1>4 DEF FinishSave, NotSaving, Answered, hubVars
<1>5. CASE FinishSaveUnheard
  BY <1>5 DEF FinishSaveUnheard, NotSaving, hubVars
<1>6. CASE SaveFails
  BY <1>6 DEF SaveFails, NotSaving, Answered, hubVars
<1>7. CASE HubCrash
  BY <1>7 DEF HubCrash, NotSaving
<1>8. CASE HubStart
  BY <1>8 DEF HubStart, NotSaving
<1>9. CASE Elsewhere
  BY <1>9, ElsewhereStays DEF regVars
<1>10. QED
  BY <1>1, <1>2, <1>3, <1>4, <1>5, <1>6, <1>7, <1>8, <1>9, AgentsCases

(***************************************************************************)
(* The key and its file.                                                   *)
(***************************************************************************)

LEMMA KeysStep == TypeOK /\ SavingInv /\ KeysInv /\ AgentsNext => KeysInv'
<1> SUFFICES ASSUME TypeOK, SavingInv, KeysInv, AgentsNext PROVE KeysInv'
  OBVIOUS
<1> USE DEF TypeOK, KeysInv, RotationAt, FileMatches, MemoryFirst, Moving
<1>1. CASE \/ \E a \in Agents : Register(a) \/ Delete(a) \/ SetAlias(a)
           \/ FinishSave \/ FinishSaveUnheard \/ SaveFails
           \/ \E a \in Agents : Deploy(a) \/ AgentStops(a) \/ AgentStarts(a)
  <2>1. UNCHANGED <<kind, hubVars, fixedKey, keysParted, keyCut>>
    BY <1>1 DEF Register, Delete, SetAlias, FinishSave, FinishSaveUnheard, SaveFails,
                Deploy, AgentStops, AgentStarts, history
  <2>2. QED
    BY <2>1 DEF hubVars
<1>2. ASSUME NEW x \in Rotations, BeginRotation(x) PROVE KeysInv'
  <2>1. ~ keysParted' => ~ keysParted /\ \A y \in Rotations : ~ Moving(y)
    BY <1>2, Zenon DEF BeginRotation
  <2>2. UNCHANGED <<kind, fixedKey, hub, pskFile, keyCut>> /\ hub = "up"
    BY <1>2 DEF BeginRotation
  <2>3. /\ rotation' = [rotation EXCEPT ![x] = [at |-> "first", key |-> minted + 1]]
        /\ psk' = IF MemoryFirst THEN minted + 1 ELSE psk
    BY <1>2, Zenon DEF BeginRotation
  <2>4. QED
    BY <2>1, <2>2, <2>3
<1>3. ASSUME NEW x \in Rotations, TruncateKeyFile(x) PROVE KeysInv'
  BY <1>3 DEF TruncateKeyFile, To, history
<1>4. ASSUME NEW x \in Rotations, WriteKeyFile(x) PROVE KeysInv'
  BY <1>4 DEF WriteKeyFile, To, history
<1>5. ASSUME NEW x \in Rotations, KeyFileFails(x) PROVE KeysInv'
  <2>1. ~ keysParted' => ~ keysParted /\ ~ MemoryFirst
    BY <1>5, Zenon DEF KeyFileFails
  <2>2. QED
    BY <1>5, <2>1 DEF KeyFileFails, To
<1>6. ASSUME NEW x \in Rotations, UseKey(x) \/ KeyWriteFails(x) PROVE KeysInv'
  <2>1. CASE UseKey(x)
    BY <2>1 DEF UseKey, To, history
  <2>2. CASE KeyWriteFails(x)
    BY <2>2 DEF KeyWriteFails, To
  <2>3. QED
    BY <1>6, <2>1, <2>2
<1>7. CASE HubCrash
  BY <1>7 DEF HubCrash
<1>8. CASE HubStart
  BY <1>8 DEF HubStart, LoadKey
<1>9. QED
  BY <1>1, <1>2, <1>3, <1>4, <1>5, <1>6, <1>7, <1>8 DEF AgentsNext

LEMMA InitAgents == Init => AgentsInv
<1> SUFFICES ASSUME Init PROVE AgentsInv
  OBVIOUS
<1>1. TypeOK
  BY TypeInit
<1>2. SavingInv /\ PromisesInv
  BY NoAgentAssumption DEF Init, AgentsInit, SavingInv, PromisesInv, NotTorn, Torn, KeptIn, NotSaving
<1>3. KeysInv
  BY DEF Init, AgentsInit, KeysInv, RotationAt, FileMatches, Moving, Idle
<1>4. QED
  BY <1>1, <1>2, <1>3 DEF AgentsInv

LEMMA AgentsStep == AgentsInv /\ [Next]_vars => AgentsInv'
<1> SUFFICES ASSUME AgentsInv, [Next]_vars PROVE AgentsInv'
  OBVIOUS
<1>1. CASE Joining
  BY <1>1, TypeStep, SavingStep, PromisesStep, KeysStep DEF AgentsInv, Joining
<1>2. CASE ~ Joining
  <2>1. agentsStay' = agentsStay /\ left' \in Budget
    BY <1>2, CommandStep DEF AgentsInv
  <2>2. TypeOK'
    BY <2>1 DEF AgentsInv, TypeOK, agentsStay, hubVars, regVars, history
  <2>3. SavingInv' /\ PromisesInv'
    BY <2>1 DEF AgentsInv, SavingInv, PromisesInv, NotTorn, KeptIn, agentsStay, hubVars, regVars, history
  <2>4. KeysInv'
    BY <2>1 DEF AgentsInv, KeysInv, RotationAt, FileMatches, MemoryFirst, Moving, agentsStay, hubVars, regVars, history
  <2>5. QED
    BY <2>2, <2>3, <2>4 DEF AgentsInv
<1>3. QED
  BY <1>1, <1>2

LEMMA AgentsAlways == Spec => []AgentsInv
BY InitAgents, AgentsStep, PTL DEF Spec

\* The state of registry, key, files and agents keeps its types in every step.
THEOREM AgentsTypes == Spec => []TypeOK
<1>1. AgentsInv => TypeOK
  BY DEF AgentsInv
<1>2. QED
  BY <1>1, AgentsAlways, PTL

\* With no rotation under way, the key in use is the key in the file, or the file is empty
\* after a failed write: handleRotatePSK changes both, PersistPSK may fail before or after
\* the truncation, and loadOrGeneratePSK brings them together after a restart.
THEOREM KeysAlwaysAgree == Spec => []KeysAgree
<1>1. AgentsInv => KeysAgree
  BY DEF AgentsInv, KeysInv, FileMatches, KeysAgree
<1>2. QED
  BY <1>1, AgentsAlways, PTL

\* What the hub last said of an agent is so, in memory and after a restart, whatever
\* the saves and crashes in between; and a burn-in hub never finds its registry torn.
THEOREM PromisesKept == Spec => []RegistryKeepsPromises
<1>1. AgentsInv => RegistryKeepsPromises
  BY DEF AgentsInv, SavingInv, PromisesInv, KeptIn, RegistryKeepsPromises, InPlace
<1>2. QED
  BY <1>1, AgentsAlways, PTL

(***************************************************************************)
(* The requests.                                                           *)
(***************************************************************************)

\* The changes that the steps make to the record of a request.
Asked(q, a) == [q EXCEPT !.at = "asking", !.to = a, !.reply = "none"]
Rejected(q) == [q EXCEPT !.at = "done", !.answer = "notFound"]
Late(q) == [q EXCEPT !.late = TRUE]
Ended(q) == [q EXCEPT !.at = "done", !.answer = "failed", !.late = TRUE]
Replied(q, reply) == [q EXCEPT !.reply = reply]
Choosing(q, ask) == [q EXCEPT !.at = "choosing", !.ask = ask]
AskedLess(q, a) == [q EXCEPT !.ask = @ \ {a}]

LEMMA NewRequests ==
    ASSUME NEW op \in {"execute", "cancel"}, NEW id \in JobIDs
    PROVE  LET q == NewRequest(op, id) IN
           /\ q \in Request /\ NoRequest \in Request
           /\ q.op = op /\ q.reply = "none" /\ q.answer = "none" /\ q.late = FALSE /\ q.ask = {}
BY DEF NewRequest, NoRequest, Request

LEMMA AskedRequest ==
    ASSUME NEW q \in Request, NEW a \in Agents
    PROVE  LET p == Asked(q, a) IN
           /\ p \in Request /\ p.at = "asking" /\ p.to = a /\ p.reply = "none"
           /\ p.op = q.op /\ p.ask = q.ask /\ p.answer = q.answer /\ p.late = q.late
BY DEF Asked, Request

LEMMA RejectedRequest ==
    ASSUME NEW q \in Request
    PROVE  LET p == Rejected(q) IN
           /\ p \in Request /\ p.at = "done" /\ p.to = q.to /\ p.reply = q.reply
           /\ p.op = q.op /\ p.ask = q.ask /\ p.answer = "notFound" /\ p.late = q.late
BY DEF Rejected, Request

\* What becomes of a request after one agent.
LEMMA AfterAgentRequest ==
    ASSUME NEW q \in Request, NEW reply \in {"ok", "refused", "failed"}
    PROVE  LET p == AfterAgent(q, reply) IN
           /\ p \in Request /\ p.op = q.op /\ p.ask = q.ask /\ p.late = q.late
           /\ \/ /\ p.at = "choosing" /\ p.op = "cancel" /\ reply # "ok"
                 /\ p.to = NoAgent /\ p.reply = "none" /\ p.answer = q.answer
              \/ /\ p.at = "done" /\ p.to = q.to /\ p.reply = q.reply
                 /\ p.answer = "ok" <=> reply = "ok"
                 /\ p.answer # "none"
<1> DEFINE p == AfterAgent(q, reply)
           broadcast == q.op = "cancel" /\ kind = "burnin" /\ reply # "ok"
           final == IF broadcast THEN "notFound" ELSE reply
<1>1. CASE broadcast /\ q.ask # {}
  <2>1. p = [q EXCEPT !.at = "choosing", !.to = NoAgent, !.reply = "none"]
    BY <1>1 DEF AfterAgent
  <2> HIDE DEF p
  <2>2. /\ p \in Request /\ p.op = q.op /\ p.ask = q.ask /\ p.late = q.late
        /\ p.at = "choosing" /\ p.to = NoAgent /\ p.reply = "none" /\ p.answer = q.answer
    BY <2>1 DEF Request
  <2>3. QED
    BY <1>1, <2>2 DEF p
<1>2. CASE ~(broadcast /\ q.ask # {})
  <2>1. p = [q EXCEPT !.at = "done", !.answer = final]
    BY <1>2 DEF AfterAgent
  <2>2. final \in {"ok", "refused", "notFound", "failed"} /\ (final = "ok" <=> reply = "ok")
    OBVIOUS
  <2> HIDE DEF p, final
  <2>3. /\ p \in Request /\ p.op = q.op /\ p.ask = q.ask /\ p.late = q.late
        /\ p.at = "done" /\ p.to = q.to /\ p.reply = q.reply /\ p.answer = final
    BY <2>1, <2>2 DEF Request
  <2>4. QED
    BY <2>2, <2>3 DEF p
<1>3. QED
  BY <1>1, <1>2

LEMMA LateRequest ==
    ASSUME NEW q \in Request
    PROVE  LET p == Late(q) IN
           /\ p \in Request /\ p.at = q.at /\ p.to = q.to /\ p.reply = q.reply
           /\ p.op = q.op /\ p.ask = q.ask /\ p.answer = q.answer /\ p.late
BY DEF Late, Request

LEMMA EndedRequest ==
    ASSUME NEW q \in Request
    PROVE  LET p == Ended(q) IN
           /\ p \in Request /\ p.at = "done" /\ p.to = q.to /\ p.reply = q.reply
           /\ p.op = q.op /\ p.ask = q.ask /\ p.answer = "failed" /\ p.late
BY DEF Ended, Request

LEMMA RepliedRequest ==
    ASSUME NEW q \in Request, NEW reply \in {"ok", "refused"}
    PROVE  LET p == Replied(q, reply) IN
           /\ p \in Request /\ p.at = q.at /\ p.to = q.to /\ p.reply = reply
           /\ p.op = q.op /\ p.ask = q.ask /\ p.answer = q.answer /\ p.late = q.late
BY DEF Replied, Request

LEMMA ChoosingRequest ==
    ASSUME NEW q \in Request, NEW ask, ask \subseteq Agents
    PROVE  LET p == Choosing(q, ask) IN
           /\ p \in Request /\ p.at = "choosing" /\ p.to = q.to /\ p.reply = q.reply
           /\ p.op = q.op /\ p.ask = ask /\ p.answer = q.answer /\ p.late = q.late
BY DEF Choosing, Request

LEMMA FewerToAsk ==
    ASSUME NEW q \in Request, NEW a \in Agents
    PROVE  LET p == AskedLess(q, a) IN
           /\ p \in Request /\ p.at = q.at /\ p.to = q.to /\ p.reply = q.reply
           /\ p.op = q.op /\ p.ask = q.ask \ {a} /\ p.answer = q.answer /\ p.late = q.late
BY DEF AskedLess, Request

LEMMA OtherRequest ==
    ASSUME NEW k, req'[k] = req[k], Sent(k)' = Sent(k), effects'[k] = effects[k],
           SentInv(k), EffectInv(k)
    PROVE  SentInv(k)' /\ EffectInv(k)'
BY DEF SentInv, EffectInv

\* What is left to show of a step that changes one request.
LEMMA OneRequest ==
    ASSUME RequestTypes, RequestsInv, NEW r \in Requests,
           req'[r] \in Request, req' = [req EXCEPT ![r] = req'[r]],
           job' \in [Agents -> JobIDs \cup {NoJob}],
           wire' \subseteq [from : Requests, to : Agents, key : Keys],
           effects' \in [Requests -> Nat],
           \A k \in Requests \ {r} : Sent(k)' = Sent(k) /\ effects'[k] = effects[k],
           SentInv(r)', EffectInv(r)'
    PROVE  RequestTypes' /\ RequestsInv'
<1>1. RequestTypes'
  BY DEF RequestTypes
<1>2. ASSUME NEW k \in Requests, k # r PROVE SentInv(k)' /\ EffectInv(k)'
  BY <1>2, OtherRequest DEF RequestTypes, RequestsInv
<1>3. QED
  BY <1>1, <1>2 DEF RequestsInv

\* A new request is sent to one agent, or answered at once.
LEMMA NewRequestStep ==
    ASSUME AgentsInv, RequestTypes, RequestsInv, NEW r \in Requests, req[r].at = "idle",
           NEW op \in {"execute", "cancel"}, NEW id \in JobIDs, NEW a \in Agents,
           Forward(NewRequest(op, id), r, a), UNCHANGED <<job, effects>>
    PROVE  RequestTypes' /\ RequestsInv'
<1> DEFINE q == NewRequest(op, id)
<1>1. /\ q \in Request
      /\ q.op = op /\ q.reply = "none" /\ q.answer = "none" /\ q.late = FALSE /\ q.ask = {}
  BY NewRequests
<1>2. psk \in Keys /\ registry \subseteq Agents
  BY DEF AgentsInv, TypeOK
<1>3. Sent(r) = {} /\ effects[r] = 0
  BY DEF RequestsInv, SentInv, EffectInv
<1> HIDE DEF q
<1>4. CASE Ask(q, r, a)
  <2>1. /\ Sent(r)' = {[from |-> r, to |-> a, key |-> psk]}
        /\ \A k \in Requests \ {r} : Sent(k)' = Sent(k)
    BY <1>3, <1>4 DEF Ask, Sent
  <2>2. /\ req' = [req EXCEPT ![r] = Asked(q, a)]
        /\ wire' \subseteq [from : Requests, to : Agents, key : Keys]
    BY <1>2, <1>4 DEF Ask, Asked, RequestTypes
  <2>3. /\ req'[r] \in Request /\ req'[r].at = "asking" /\ req'[r].to = a
        /\ req'[r].op = op /\ req'[r].ask = {} /\ req'[r].answer = "none"
        /\ req'[r].late = FALSE /\ req'[r].reply = "none"
    <3>1. req'[r] = Asked(q, a)
      BY <2>2 DEF RequestTypes
    <3>2. QED
      BY <1>1, <3>1, AskedRequest
  <2>4. SentInv(r)' /\ EffectInv(r)'
    BY <1>3, <2>1, <2>3 DEF SentInv, EffectInv
  <2>5. QED
    BY <2>1, <2>2, <2>3, <2>4, OneRequest DEF RequestTypes
<1>5. CASE Reject(q, r)
  <2>1. /\ \A k \in Requests : Sent(k)' = Sent(k)
        /\ Sent(r)' = {} /\ effects'[r] = 0
    BY <1>3, <1>5 DEF Reject, Sent
  <2>2. req' = [req EXCEPT ![r] = Rejected(q)]
    BY <1>5 DEF Reject, Rejected
  <2>3. /\ req'[r] \in Request /\ req'[r].at = "done" /\ req'[r].op = op
        /\ req'[r].ask = {} /\ req'[r].answer = "notFound" /\ req'[r].late = FALSE
    BY <1>1, <2>2, RejectedRequest DEF RequestTypes
  <2>4. SentInv(r)' /\ EffectInv(r)'
    BY <1>3, <2>1, <2>3 DEF SentInv, EffectInv
  <2>5. QED
    BY <1>5, <2>1, <2>2, <2>3, <2>4, OneRequest DEF RequestTypes, Reject
<1>6. QED
  BY <1>4, <1>5 DEF Forward, q

LEMMA BroadcastStep ==
    ASSUME AgentsInv, RequestTypes, RequestsInv, NEW r \in Requests, NEW id \in JobIDs,
           Broadcast(r, id)
    PROVE  RequestTypes' /\ RequestsInv'
<1> DEFINE q == NewRequest("cancel", id)
<1>1. /\ q \in Request
      /\ q.op = "cancel" /\ q.reply = "none" /\ q.answer = "none" /\ q.late = FALSE /\ q.ask = {}
  BY NewRequests
<1>2. registry \subseteq Agents
  BY DEF AgentsInv, TypeOK
<1> HIDE DEF q
<1>3. /\ \A k \in Requests : Sent(k)' = Sent(k)
      /\ req[r].at = "idle" /\ UNCHANGED <<job, wire, effects>>
      /\ \/ req' = [req EXCEPT ![r] = Rejected(q)]
         \/ req' = [req EXCEPT ![r] = Choosing(q, registry)]
  BY DEF Broadcast, Reject, Arrives, Sent, Rejected, Choosing, q
<1>4. Sent(r)' = {} /\ effects'[r] = 0
  BY <1>3 DEF RequestsInv, SentInv, EffectInv
<1>5. /\ req'[r] \in Request /\ req'[r].op = "cancel" /\ req'[r].late = FALSE
      /\ req'[r].at \in {"choosing", "done"} /\ req'[r].answer \in {"none", "notFound"}
      /\ req'[r].at = "choosing" => req'[r].answer = "none"
      /\ req'[r].reply = "none"
  <2>1. CASE req' = [req EXCEPT ![r] = Rejected(q)]
    <3>1. req'[r] = Rejected(q)
      BY <2>1 DEF RequestTypes
    <3>2. QED
      BY <1>1, <3>1, RejectedRequest
  <2>2. CASE req' = [req EXCEPT ![r] = Choosing(q, registry)]
    <3>1. req'[r] = Choosing(q, registry)
      BY <2>2 DEF RequestTypes
    <3>2. QED
      <4>1. req'[r] \in Request /\ req'[r].op = "cancel" /\ req'[r].late = FALSE
        BY <1>1, <1>2, <3>1, ChoosingRequest
      <4>2. req'[r].at = "choosing" /\ req'[r].answer = "none" /\ req'[r].reply = "none"
        BY <1>1, <1>2, <3>1, ChoosingRequest
      <4>3. QED
        BY <4>1, <4>2
  <2>3. QED
    BY <1>3, <2>1, <2>2
<1>6. SentInv(r)' /\ EffectInv(r)'
  BY <1>4, <1>5 DEF SentInv, EffectInv
<1>7. QED
  BY <1>3, <1>5, <1>6, OneRequest DEF RequestTypes

LEMMA AskNextStep ==
    ASSUME AgentsInv, RequestTypes, RequestsInv, NEW r \in Requests, NEW a \in Agents,
           AskNext(r, a)
    PROVE  RequestTypes' /\ RequestsInv'
<1> DEFINE q == AskedLess(req[r], a)
<1>1. /\ q \in Request /\ q.ask = req[r].ask \ {a} /\ q.op = req[r].op
      /\ q.answer = req[r].answer /\ q.late = req[r].late
  BY FewerToAsk DEF RequestTypes
<1>2. /\ psk \in Keys /\ req[r].at = "choosing" /\ a \in req[r].ask
      /\ Ask(q, r, a) /\ UNCHANGED <<job, effects>>
  BY DEF AskNext, AskedLess, AgentsInv, TypeOK
<1> HIDE DEF q
<1>3. /\ Sent(r)' = Sent(r) \cup {[from |-> r, to |-> a, key |-> psk]}
      /\ \A k \in Requests \ {r} : Sent(k)' = Sent(k)
  BY <1>2 DEF Ask, Sent
<1>4. /\ req' = [req EXCEPT ![r] = Asked(q, a)]
      /\ wire' \subseteq [from : Requests, to : Agents, key : Keys]
  BY <1>2 DEF Ask, Asked, RequestTypes
<1>5. /\ req'[r] \in Request /\ req'[r].at = "asking" /\ req'[r].to = a
      /\ req'[r].reply = "none" /\ req'[r].op = req[r].op /\ req'[r].ask = req[r].ask \ {a}
      /\ req'[r].answer = req[r].answer /\ req'[r].late = req[r].late
  <2>1. req'[r] = Asked(q, a)
    BY <1>4 DEF RequestTypes
  <2>2. QED
    BY <1>1, <2>1, AskedRequest
<1>6. SentInv(r) /\ EffectInv(r)
  BY DEF RequestsInv
<1>7. SentInv(r)'
  BY <1>2, <1>3, <1>5, <1>6 DEF SentInv, EffectInv
<1>8. EffectInv(r)'
  BY <1>2, <1>5, <1>6 DEF EffectInv
<1>9. QED
  BY <1>2, <1>3, <1>4, <1>5, <1>7, <1>8, OneRequest DEF RequestTypes

LEMMA RelayStep ==
    ASSUME RequestTypes, RequestsInv, NEW r \in Requests, Relay(r)
    PROVE  RequestTypes' /\ RequestsInv'
<1>1. /\ req[r] \in Request /\ req[r].reply \in {"ok", "refused", "failed"}
      /\ req[r].at = "asking"
  BY DEF Relay, RequestTypes, Request
<1>2. req'[r] = AfterAgent(req[r], req[r].reply) /\ req' = [req EXCEPT ![r] = req'[r]]
  BY DEF Relay, RequestTypes
<1>3. /\ \A k \in Requests : Sent(k)' = Sent(k) /\ effects'[k] = effects[k]
      /\ UNCHANGED <<job, wire, effects>>
      /\ SentInv(r) /\ EffectInv(r) /\ effects[r] \in Nat
  BY DEF Relay, Sent, RequestsInv, RequestTypes
<1>4. /\ req'[r] \in Request /\ req'[r].op = req[r].op /\ req'[r].ask = req[r].ask
      /\ req'[r].late = req[r].late
  BY <1>1, <1>2, AfterAgentRequest
<1>5. \/ /\ req'[r].at = "choosing" /\ req'[r].op = "cancel" /\ req[r].reply # "ok"
         /\ req'[r].to = NoAgent /\ req'[r].reply = "none" /\ req'[r].answer = req[r].answer
      \/ /\ req'[r].at = "done" /\ req'[r].to = req[r].to /\ req'[r].reply = req[r].reply
         /\ req'[r].answer = "ok" <=> req[r].reply = "ok"
  BY <1>1, <1>2, AfterAgentRequest
<1>6. SentInv(r)'
  BY <1>1, <1>3, <1>4, <1>5 DEF Relay, SentInv
<1>7. EffectInv(r)'
  BY <1>1, <1>3, <1>4, <1>5 DEF EffectInv
<1>8. QED
  BY <1>2, <1>3, <1>4, <1>6, <1>7, OneRequest DEF RequestTypes

LEMMA TimeOutStep ==
    ASSUME RequestTypes, RequestsInv, NEW r \in Requests, TimeOut(r)
    PROVE  RequestTypes' /\ RequestsInv'
<1> DEFINE q == Late(req[r])
<1>1. /\ q \in Request /\ q.at = "asking" /\ q.to = req[r].to /\ q.reply = req[r].reply
      /\ q.op = req[r].op /\ q.ask = req[r].ask /\ q.answer = req[r].answer /\ q.late = TRUE
  BY LateRequest DEF TimeOut, RequestTypes
<1>2. req'[r] = AfterAgent(q, "failed") /\ req' = [req EXCEPT ![r] = req'[r]]
  BY DEF TimeOut, Late, RequestTypes
<1> HIDE DEF q
<1>3. /\ \A k \in Requests : Sent(k)' = Sent(k) /\ effects'[k] = effects[k]
      /\ UNCHANGED <<job, wire, effects>>
      /\ SentInv(r) /\ EffectInv(r) /\ effects[r] \in Nat
      /\ req[r].at = "asking"
  BY DEF TimeOut, Sent, RequestsInv, RequestTypes
<1>4. /\ req'[r] \in Request /\ req'[r].op = req[r].op /\ req'[r].ask = req[r].ask
      /\ req'[r].late = TRUE
  BY <1>1, <1>2, AfterAgentRequest
<1>5. \/ /\ req'[r].at = "choosing" /\ req'[r].op = "cancel"
         /\ req'[r].to = NoAgent /\ req'[r].reply = "none" /\ req'[r].answer = req[r].answer
      \/ /\ req'[r].at = "done" /\ req'[r].to = req[r].to /\ req'[r].answer # "ok"
  BY <1>1, <1>2, AfterAgentRequest
<1>6. SentInv(r)'
  BY <1>3, <1>4, <1>5 DEF SentInv
<1>7. EffectInv(r)'
  BY <1>3, <1>4, <1>5 DEF EffectInv
<1>8. QED
  BY <1>2, <1>3, <1>4, <1>6, <1>7, OneRequest DEF RequestTypes

\* A message taken or lost leaves those of the other requests alone.
LEMMA MessageGone ==
    ASSUME RequestTypes, NEW m \in wire, wire' = wire \ {m}
    PROVE  /\ m.from \in Requests /\ m.to \in Agents /\ m \in Sent(m.from)
           /\ Sent(m.from)' = Sent(m.from) \ {m}
           /\ \A k \in Requests \ {m.from} : Sent(k)' = Sent(k)
           /\ wire' \subseteq [from : Requests, to : Agents, key : Keys]
BY DEF RequestTypes, Sent

LEMMA AgentTakesStep ==
    ASSUME RequestTypes, RequestsInv, NEW m \in wire, AgentTakes(m)
    PROVE  RequestTypes' /\ RequestsInv'
<1> DEFINE r == m.from
           awaited == req[r].at = "asking" /\ req[r].to = m.to
<1>1. /\ r \in Requests /\ m.to \in Agents /\ m \in Sent(r)
      /\ Sent(r)' = Sent(r) \ {m}
      /\ \A k \in Requests \ {r} : Sent(k)' = Sent(k)
      /\ wire' \subseteq [from : Requests, to : Agents, key : Keys]
  BY MessageGone DEF AgentTakes
<1>2. SentInv(r) /\ EffectInv(r) /\ effects[r] \in Nat /\ req[r] \in Request
  BY <1>1 DEF RequestsInv, RequestTypes
<1>3. job' \in [Agents -> JobIDs \cup {NoJob}]
  <2>1. req[r].op = "execute" => req[r].id \in JobIDs \cup {NoJob}
    BY <1>2 DEF Request
  <2>2. QED
    BY <1>1, <2>1 DEF AgentTakes, RequestTypes
<1>4. \/ /\ effects' = [effects EXCEPT ![r] = @ + 1]
         /\ req' = IF awaited THEN [req EXCEPT ![r] = Replied(req[r], "ok")] ELSE req
      \/ /\ effects' = effects
         /\ req' = IF awaited THEN [req EXCEPT ![r] = Replied(req[r], "refused")] ELSE req
  BY <1>1 DEF AgentTakes, Replied, RequestTypes
<1> HIDE DEF r
<1>5. /\ effects' \in [Requests -> Nat]
      /\ \A k \in Requests \ {r} : effects'[k] = effects[k]
      /\ effects'[r] \in {effects[r], effects[r] + 1}
  BY <1>1, <1>4 DEF RequestTypes
<1>6. CASE awaited
  <2>1. PICK reply \in {"ok", "refused"} :
           /\ req'[r] = Replied(req[r], reply) /\ req' = [req EXCEPT ![r] = req'[r]]
           /\ effects'[r] = IF reply = "ok" THEN effects[r] + 1 ELSE effects[r]
    BY <1>1, <1>4, <1>6 DEF RequestTypes
  <2>2. /\ req'[r] \in Request /\ req'[r].at = req[r].at /\ req'[r].to = req[r].to
        /\ req'[r].reply = reply /\ req'[r].op = req[r].op /\ req'[r].ask = req[r].ask
        /\ req'[r].answer = req[r].answer /\ req'[r].late = req[r].late
    BY <1>2, <2>1, RepliedRequest
  <2>3. SentInv(r)'
    BY <1>1, <1>2, <1>6, <2>2 DEF SentInv
  <2>4. EffectInv(r)'
    <3>1. req[r].reply = "none" /\ req[r].answer = "none"
      BY <1>1, <1>2, <1>6 DEF SentInv, EffectInv
    <3>2. ~ req[r].late => effects[r] = 0
      BY <1>2, <1>6, <3>1 DEF EffectInv
    <3>3. req[r].op # "cancel" => effects[r] = 0 /\ Sent(r)' = {} /\ req[r].ask = {}
      BY <1>1, <1>2 DEF SentInv, EffectInv
    <3>4. req[r].to \in Agents /\ req[r].to \notin req[r].ask
      BY <1>2, <1>6 DEF EffectInv
    <3>5. QED
      BY <1>2, <1>6, <2>1, <2>2, <3>1, <3>2, <3>3, <3>4 DEF EffectInv
  <2>5. QED
    BY <1>1, <1>3, <1>5, <2>1, <2>2, <2>3, <2>4, OneRequest
<1>7. CASE ~ awaited
  <2>1. req' = req
    BY <1>4, <1>7
  <2>2. req[r].late
    BY <1>1, <1>2, <1>7 DEF SentInv
  <2>3. SentInv(r)'
    BY <1>1, <1>2, <2>1 DEF SentInv
  <2>4. EffectInv(r)'
    <3>1. req[r].op # "cancel" => effects[r] = 0 /\ Sent(r)' = {} /\ req[r].ask = {}
      BY <1>1, <1>2 DEF SentInv, EffectInv
    <3>2. req[r].at # "idle"
      BY <1>1, <1>2 DEF SentInv
    <3>3. effects[r] > 0 => effects'[r] > 0
      BY <1>2, <1>5
    <3>4. QED
      BY <1>2, <1>5, <2>1, <2>2, <3>1, <3>2, <3>3 DEF EffectInv
  <2>5. req'[r] \in Request /\ req' = [req EXCEPT ![r] = req'[r]]
    BY <1>1, <2>1 DEF RequestTypes
  <2>6. QED
    BY <1>1, <1>3, <1>5, <2>3, <2>4, <2>5, OneRequest
<1>8. QED
  BY <1>6, <1>7

LEMMA UnreachableStep ==
    ASSUME RequestTypes, RequestsInv, NEW m \in wire, Unreachable(m)
    PROVE  RequestTypes' /\ RequestsInv'
<1> DEFINE r == m.from
           awaited == req[r].at = "asking" /\ req[r].to = m.to
<1>1. /\ r \in Requests /\ m.to \in Agents /\ m \in Sent(r)
      /\ Sent(r)' = Sent(r) \ {m}
      /\ \A k \in Requests \ {r} : Sent(k)' = Sent(k)
      /\ wire' \subseteq [from : Requests, to : Agents, key : Keys]
  BY MessageGone DEF Unreachable
<1>2. SentInv(r) /\ EffectInv(r) /\ effects[r] \in Nat /\ req[r] \in Request
  BY <1>1 DEF RequestsInv, RequestTypes
<1>3. /\ req' = IF awaited THEN [req EXCEPT ![r] = AfterAgent(req[r], "failed")] ELSE req
      /\ UNCHANGED <<job, effects>>
  BY DEF Unreachable
<1> HIDE DEF r
<1>4. CASE awaited
  <2>1. req'[r] = AfterAgent(req[r], "failed") /\ req' = [req EXCEPT ![r] = req'[r]]
    BY <1>1, <1>3, <1>4 DEF RequestTypes
  <2>2. /\ req'[r] \in Request /\ req'[r].op = req[r].op /\ req'[r].ask = req[r].ask
        /\ req'[r].late = req[r].late
    BY <1>2, <2>1, AfterAgentRequest
  <2>3. \/ /\ req'[r].at = "choosing" /\ req'[r].op = "cancel"
           /\ req'[r].to = NoAgent /\ req'[r].reply = "none" /\ req'[r].answer = req[r].answer
        \/ /\ req'[r].at = "done" /\ req'[r].to = req[r].to /\ req'[r].answer # "ok"
    BY <1>2, <2>1, AfterAgentRequest
  <2>4. SentInv(r)'
    BY <1>1, <1>2, <1>4, <2>2, <2>3 DEF SentInv
  <2>5. EffectInv(r)'
    <3>1. req[r].reply = "none" /\ req[r].answer = "none"
      BY <1>1, <1>2, <1>4 DEF SentInv, EffectInv
    <3>2. ~ req[r].late => effects[r] = 0
      BY <1>2, <1>4, <3>1 DEF EffectInv
    <3>3. req[r].op # "cancel" => effects[r] = 0 /\ req[r].ask = {}
      BY <1>1, <1>2 DEF EffectInv
    <3>4. QED
      BY <1>2, <1>3, <2>2, <2>3, <3>1, <3>2, <3>3 DEF EffectInv
  <2>6. QED
    BY <1>1, <1>3, <2>1, <2>2, <2>4, <2>5, OneRequest DEF RequestTypes
<1>5. CASE ~ awaited
  <2>1. req' = req
    BY <1>3, <1>5
  <2>2. SentInv(r)' /\ EffectInv(r)'
    BY <1>1, <1>2, <1>3, <2>1 DEF SentInv, EffectInv
  <2>3. req'[r] \in Request /\ req' = [req EXCEPT ![r] = req'[r]]
    BY <1>1, <2>1 DEF RequestTypes
  <2>4. QED
    BY <1>1, <1>3, <2>2, <2>3, OneRequest DEF RequestTypes
<1>6. QED
  BY <1>4, <1>5

LEMMA JoiningStep ==
    ASSUME RequestTypes, RequestsInv, Joining
    PROVE  RequestTypes' /\ RequestsInv'
<1>1. ASSUME NEW k \in Requests
      PROVE  \/ req'[k] = req[k]
             \/ req[k].at \in {"choosing", "asking"} /\ req'[k] = Ended(req[k])
  BY DEF Joining, Ended
<1>2. ASSUME NEW k \in Requests
      PROVE  req'[k] \in Request /\ SentInv(k)' /\ EffectInv(k)'
  <2>1. /\ Sent(k)' = Sent(k) /\ effects'[k] = effects[k] /\ effects[k] \in Nat
        /\ SentInv(k) /\ EffectInv(k) /\ req[k] \in Request
    BY DEF Joining, Sent, RequestsInv, RequestTypes
  <2>2. CASE req'[k] = req[k]
    BY <2>1, <2>2, OtherRequest
  <2>3. CASE req[k].at \in {"choosing", "asking"} /\ req'[k] = Ended(req[k])
    <3>1. /\ req'[k] \in Request /\ req'[k].at = "done" /\ req'[k].to = req[k].to
          /\ req'[k].op = req[k].op /\ req'[k].ask = req[k].ask
          /\ req'[k].answer = "failed" /\ req'[k].late = TRUE
      BY <2>1, <2>3, EndedRequest
    <3>2. SentInv(k)'
      BY <2>1, <2>3, <3>1 DEF SentInv
    <3>3. EffectInv(k)'
      BY <2>1, <3>1 DEF EffectInv
    <3>4. QED
      BY <3>1, <3>2, <3>3
  <2>4. QED
    BY <1>1, <2>2, <2>3
<1>3. /\ job' \in [Agents -> JobIDs \cup {NoJob}]
      /\ req' = [k \in Requests |-> req'[k]] /\ UNCHANGED <<wire, effects>>
  BY DEF Joining, RequestTypes
<1>4. QED
  BY <1>2, <1>3 DEF RequestTypes, RequestsInv

LEMMA RequestsStep == Inv /\ [Next]_vars => RequestTypes' /\ RequestsInv'
<1> SUFFICES ASSUME AgentsInv, RequestTypes, RequestsInv, [Next]_vars
             PROVE  RequestTypes' /\ RequestsInv'
  BY DEF Inv
<1>1. ASSUME NEW r \in Requests, NEW id \in JobIDs, NEW a \in Agents,
             Execute(r, id, a) \/ CancelOnAgent(r, id, a)
      PROVE  RequestTypes' /\ RequestsInv'
  BY <1>1, NewRequestStep DEF Execute, CancelOnAgent, Arrives
<1>2. ASSUME NEW m \in wire, AgentTakes(m) \/ Unreachable(m)
      PROVE  RequestTypes' /\ RequestsInv'
  BY <1>2, AgentTakesStep, UnreachableStep
<1>3. CASE UNCHANGED vars \/ \E a \in Agents : JobEnds(a) \/ \E id \in JobIDs : JobStarts(a, id)
  <2>1. UNCHANGED <<req, wire, effects>> /\ job' \in [Agents -> JobIDs \cup {NoJob}]
    BY <1>3 DEF vars, cmdVars, JobEnds, JobStarts, RequestTypes
  <2>2. \A k \in Requests : Sent(k)' = Sent(k)
    BY <2>1 DEF Sent
  <2>3. QED
    BY <2>1, <2>2, OtherRequest DEF RequestTypes, RequestsInv
<1>4. QED
  BY <1>1, <1>2, <1>3, BroadcastStep, AskNextStep, RelayStep, TimeOutStep, JoiningStep DEF Next

LEMMA InvHolds == Spec => []Inv
<1>1. Init => Inv
  <2>1. Init => RequestTypes
    <3>1. NoRequest \in Request
      BY DEF NoRequest, Request
    <3>2. QED
      BY <3>1 DEF Init, RequestTypes
  <2>2. Init => RequestsInv
    BY DEF Init, RequestsInv, SentInv, EffectInv, Sent, NoRequest
  <2>3. QED
    BY <2>1, <2>2, InitAgents DEF Inv
<1>2. Inv /\ [Next]_vars => Inv'
  BY AgentsStep, RequestsStep DEF Inv
<1>3. QED
  BY <1>1, <1>2, PTL DEF Spec

\* An answer that came in time says whether the agent has done what it was asked, "ok"
\* is never an empty promise, and no job is started twice by one request (HandleExecute,
\* HandleCancelJob).
THEOREM AnswersMatchEffects == Spec => []AnswerMatchesEffect
<1>1. Inv => AnswerMatchesEffect
  <2> SUFFICES ASSUME Inv, NEW r \in Requests
               PROVE  /\ (req[r].at = "done" /\ ~req[r].late) =>
                             effects[r] = (IF req[r].answer = "ok" THEN 1 ELSE 0)
                      /\ (req[r].answer = "ok") => effects[r] > 0
                      /\ effects[r] > 1 => req[r].op = "cancel" /\ req[r].late
    BY DEF AnswerMatchesEffect
  <2>1. EffectInv(r) /\ effects[r] \in Nat
    BY DEF Inv, RequestsInv, RequestTypes
  <2>2. QED
    BY <2>1 DEF EffectInv
<1>2. QED
  BY <1>1, InvHolds, PTL

(***************************************************************************)
(* How often a request can take effect.                                    *)
(***************************************************************************)

\* The effects of a request, its messages on their way and the agents it has still to ask
\* are together no more than the agents.
CountInv ==
    \A r \in Requests :
        /\ IsFiniteSet(Sent(r))
        /\ effects[r] + Cardinality(Sent(r)) + Cardinality(req[r].ask) <= Cardinality(Agents)

\* A step that changes one request moves an agent from those to be asked to those asked,
\* or from these to those that have taken it on; or the request is new.
LEMMA OneCount ==
    ASSUME IsFiniteSet(Agents), RequestTypes, RequestTypes', CountInv, NEW r \in Requests,
           \A k \in Requests \ {r} : /\ Sent(k)' = Sent(k) /\ effects'[k] = effects[k]
                                     /\ req'[k].ask = req[k].ask,
           \/ /\ Sent(r)' = Sent(r) /\ effects'[r] = effects[r] /\ req'[r].ask = req[r].ask
           \/ /\ \E m \in Sent(r) : Sent(r)' = Sent(r) \ {m}
              /\ effects'[r] \in {effects[r], effects[r] + 1} /\ req'[r].ask = req[r].ask
           \/ /\ \E a \in req[r].ask : \E m : /\ Sent(r)' = Sent(r) \cup {m}
                                              /\ req'[r].ask = req[r].ask \ {a}
              /\ effects'[r] = effects[r]
           \/ Sent(r)' = {} /\ effects'[r] = 0
           \/ /\ \E m : Sent(r)' = {m}
              /\ effects'[r] = 0 /\ req'[r].ask = {} /\ Agents # {}
    PROVE  CountInv'
<1> DEFINE n == Cardinality(Agents)
           ask == req[r].ask
           asked == req'[r].ask
           sent == Sent(r)
           sending == Sent(r)'
<1>1. /\ effects[r] \in Nat /\ effects'[r] \in Nat
      /\ ask \in SUBSET Agents /\ asked \in SUBSET Agents
  BY DEF RequestTypes, Request
<1>2. /\ n \in Nat
      /\ IsFiniteSet(ask) /\ Cardinality(ask) \in Nat
      /\ IsFiniteSet(asked) /\ Cardinality(asked) \in Nat /\ Cardinality(asked) <= n
  BY <1>1, FS_CardinalityType, FS_Subset
<1>3. /\ IsFiniteSet(sent) /\ Cardinality(sent) \in Nat
      /\ effects[r] + Cardinality(sent) + Cardinality(ask) <= n
  BY FS_CardinalityType DEF CountInv
<1>4. IsFiniteSet(sending) /\ effects'[r] + Cardinality(sending) + Cardinality(asked) <= n
  <2> HIDE DEF n, ask, asked, sent, sending
  <2>1. CASE sending = sent /\ effects'[r] = effects[r] /\ asked = ask
    BY <1>3, <2>1
  <2>2. ASSUME NEW m \in sent, sending = sent \ {m},
               effects'[r] \in {effects[r], effects[r] + 1}, asked = ask
        PROVE  IsFiniteSet(sending) /\ effects'[r] + Cardinality(sending) + Cardinality(asked) <= n
    <3>1. IsFiniteSet(sending) /\ Cardinality(sending) = Cardinality(sent) - 1
      BY <1>3, <2>2, FS_RemoveElement
    <3>2. QED
      BY <1>1, <1>2, <1>3, <2>2, <3>1
  <2>3. ASSUME NEW a \in ask, NEW m, sending = sent \cup {m}, asked = ask \ {a},
               effects'[r] = effects[r]
        PROVE  IsFiniteSet(sending) /\ effects'[r] + Cardinality(sending) + Cardinality(asked) <= n
    <3>1. /\ IsFiniteSet(sending)
          /\ Cardinality(sending) \in {Cardinality(sent), Cardinality(sent) + 1}
      BY <1>3, <2>3, FS_AddElement
    <3>2. Cardinality(asked) = Cardinality(ask) - 1
      BY <1>2, <2>3, FS_RemoveElement
    <3>3. QED
      BY <1>1, <1>2, <1>3, <2>3, <3>1, <3>2
  <2>4. CASE sending = {} /\ effects'[r] = 0
    BY <1>2, <2>4, FS_EmptySet
  <2>5. ASSUME NEW m, sending = {m}, effects'[r] = 0, asked = {}, Agents # {}
        PROVE  IsFiniteSet(sending) /\ effects'[r] + Cardinality(sending) + Cardinality(asked) <= n
    <3>1. IsFiniteSet(sending) /\ Cardinality(sending) = 1 /\ Cardinality(asked) = 0
      BY <2>5, FS_Singleton, FS_EmptySet
    <3>2. n >= 1
      BY <1>2, <2>5, FS_EmptySet DEF n
    <3>3. QED
      BY <1>2, <2>5, <3>1, <3>2
  <2>6. QED
    BY <2>1, <2>2, <2>3, <2>4, <2>5 DEF ask, asked, sent, sending
<1>5. QED
  BY <1>4 DEF CountInv

\* A step that leaves the messages, the effects and the agents to be asked alone.
LEMMA SameCount ==
    ASSUME CountInv,
           \A k \in Requests : /\ Sent(k)' = Sent(k) /\ effects'[k] = effects[k]
                               /\ req'[k].ask = req[k].ask
    PROVE  CountInv'
BY DEF CountInv

LEMMA CountStep ==
    ASSUME IsFiniteSet(Agents), Inv, RequestTypes', CountInv, [Next]_vars
    PROVE  CountInv'
<1>0. AgentsInv /\ RequestTypes /\ RequestsInv
  BY DEF Inv
<1>1. ASSUME NEW r \in Requests, NEW id \in JobIDs, NEW a \in Agents,
             Execute(r, id, a) \/ CancelOnAgent(r, id, a)
      PROVE  CountInv'
  <2>1. PICK op \in {"execute", "cancel"} :
           /\ req[r].at = "idle" /\ UNCHANGED effects
           /\ Forward(NewRequest(op, id), r, a)
    BY <1>1 DEF Execute, CancelOnAgent, Arrives
  <2> DEFINE q == NewRequest(op, id)
  <2>2. q \in Request /\ q.ask = {}
    BY NewRequests
  <2>3. Sent(r) = {} /\ effects'[r] = 0
    BY <1>0, <2>1 DEF RequestsInv, SentInv, EffectInv
  <2> HIDE DEF q
  <2>4. \A k \in Requests \ {r} : req'[k] = req[k] /\ Sent(k)' = Sent(k)
    BY <1>0, <2>1 DEF Forward, Ask, Reject, Sent, RequestTypes
  <2>5. CASE Ask(q, r, a)
    <3>1. req'[r] = Asked(q, a) /\ Sent(r)' = {[from |-> r, to |-> a, key |-> psk]}
      BY <1>0, <2>3, <2>5 DEF Ask, Asked, RequestTypes, Sent
    <3>2. req'[r].ask = {}
      BY <2>2, <3>1, AskedRequest
    <3>3. QED
      BY <1>0, <2>1, <2>3, <2>4, <3>1, <3>2, OneCount
  <2>6. CASE Reject(q, r)
    <3>1. Sent(r)' = {}
      BY <2>3, <2>6 DEF Reject, Sent
    <3>2. QED
      BY <1>0, <2>1, <2>3, <2>4, <3>1, OneCount
  <2>7. QED
    BY <2>1, <2>5, <2>6 DEF Forward, q
<1>2. ASSUME NEW r \in Requests, NEW id \in JobIDs, Broadcast(r, id) PROVE CountInv'
  <2>1. req[r].at = "idle" /\ UNCHANGED <<wire, effects>>
    BY <1>2 DEF Broadcast, Reject, Arrives
  <2>2. \A k \in Requests : Sent(k)' = Sent(k)
    BY <2>1 DEF Sent
  <2>3. \A k \in Requests \ {r} : req'[k] = req[k]
    BY <1>0, <1>2 DEF Broadcast, Reject, RequestTypes
  <2>4. Sent(r)' = {} /\ effects'[r] = 0
    BY <1>0, <2>1, <2>2 DEF RequestsInv, SentInv, EffectInv
  <2>5. QED
    BY <1>0, <2>1, <2>2, <2>3, <2>4, OneCount
<1>3. ASSUME NEW r \in Requests, NEW a \in Agents, AskNext(r, a) PROVE CountInv'
  <2> DEFINE q == AskedLess(req[r], a)
  <2>1. /\ a \in req[r].ask /\ UNCHANGED effects
        /\ wire' = wire \cup {[from |-> r, to |-> a, key |-> psk]}
        /\ req' = [req EXCEPT ![r] = Asked(q, a)]
    BY <1>3 DEF AskNext, Ask, Asked, AskedLess
  <2>2. q \in Request /\ q.ask = req[r].ask \ {a}
    BY <1>0, FewerToAsk DEF RequestTypes
  <2> HIDE DEF q
  <2>3. req'[r] = Asked(q, a) /\ \A k \in Requests \ {r} : req'[k] = req[k]
    BY <1>0, <2>1 DEF RequestTypes
  <2>4. req'[r].ask = req[r].ask \ {a}
    BY <2>2, <2>3, AskedRequest
  <2>5. /\ Sent(r)' = Sent(r) \cup {[from |-> r, to |-> a, key |-> psk]}
        /\ \A k \in Requests \ {r} : Sent(k)' = Sent(k)
    BY <2>1 DEF Sent
  <2>6. QED
    BY <1>0, <2>1, <2>3, <2>4, <2>5, OneCount
<1>4. ASSUME NEW r \in Requests, Relay(r) \/ TimeOut(r) PROVE CountInv'
  <2>1. /\ \A k \in Requests : Sent(k)' = Sent(k) /\ effects'[k] = effects[k]
        /\ \A k \in Requests \ {r} : req'[k] = req[k]
    BY <1>0, <1>4 DEF Relay, TimeOut, Sent, RequestTypes
  <2>2. CASE Relay(r)
    <3>1. req[r] \in Request /\ req[r].reply \in {"ok", "refused", "failed"}
      BY <1>0, <2>2 DEF Relay, RequestTypes, Request
    <3>2. req'[r] = AfterAgent(req[r], req[r].reply)
      BY <1>0, <2>2 DEF Relay, RequestTypes
    <3>3. req'[r].ask = req[r].ask
      BY <3>1, <3>2, AfterAgentRequest
    <3>4. QED
      BY <2>1, <3>3, SameCount
  <2>3. CASE TimeOut(r)
    <3>1. Late(req[r]) \in Request /\ Late(req[r]).ask = req[r].ask
      BY <1>0, LateRequest DEF RequestTypes
    <3>2. req'[r] = AfterAgent(Late(req[r]), "failed")
      BY <1>0, <2>3 DEF TimeOut, Late, RequestTypes
    <3>3. req'[r].ask = req[r].ask
      BY <3>1, <3>2, AfterAgentRequest
    <3>4. QED
      BY <2>1, <3>3, SameCount
  <2>4. QED
    BY <1>4, <2>2, <2>3
<1>5. ASSUME NEW m \in wire, AgentTakes(m) PROVE CountInv'
  <2> DEFINE r == m.from
  <2>1. /\ r \in Requests /\ m \in Sent(r) /\ Sent(r)' = Sent(r) \ {m}
        /\ \A k \in Requests \ {r} : Sent(k)' = Sent(k)
    BY <1>0, <1>5, MessageGone DEF AgentTakes
  <2>2. /\ effects' = effects \/ effects' = [effects EXCEPT ![r] = @ + 1]
        /\ \/ req' = req
           \/ \E reply \in {"ok", "refused"} : req' = [req EXCEPT ![r] = Replied(req[r], reply)]
    BY <1>0, <1>5, <2>1 DEF AgentTakes, Replied, RequestTypes
  <2> HIDE DEF r
  <2>3. /\ effects'[r] \in {effects[r], effects[r] + 1}
        /\ \A k \in Requests \ {r} : effects'[k] = effects[k] /\ req'[k] = req[k]
    BY <1>0, <2>1, <2>2 DEF RequestTypes
  <2>4. req'[r] = req[r] \/ \E reply \in {"ok", "refused"} : req'[r] = Replied(req[r], reply)
    BY <1>0, <2>1, <2>2 DEF RequestTypes
  <2>5. req'[r].ask = req[r].ask
    BY <1>0, <2>1, <2>4, RepliedRequest DEF RequestTypes
  <2>6. QED
    BY <1>0, <2>1, <2>3, <2>5, OneCount
<1>6. ASSUME NEW m \in wire, Unreachable(m) PROVE CountInv'
  <2> DEFINE r == m.from
  <2>1. /\ r \in Requests /\ m \in Sent(r) /\ Sent(r)' = Sent(r) \ {m}
        /\ \A k \in Requests \ {r} : Sent(k)' = Sent(k)
    BY <1>0, <1>6, MessageGone DEF Unreachable
  <2>2. /\ effects' = effects
        /\ req' = req \/ req' = [req EXCEPT ![r] = AfterAgent(req[r], "failed")]
    BY <1>6 DEF Unreachable
  <2> HIDE DEF r
  <2>3. /\ req'[r] = req[r] \/ req'[r] = AfterAgent(req[r], "failed")
        /\ \A k \in Requests \ {r} : req'[k] = req[k]
    BY <1>0, <2>1, <2>2 DEF RequestTypes
  <2>4. req'[r].ask = req[r].ask
    BY <1>0, <2>1, <2>3, AfterAgentRequest DEF RequestTypes
  <2>5. QED
    BY <1>0, <2>1, <2>2, <2>3, <2>4, OneCount
<1>7. CASE Joining
  <2>1. /\ \A k \in Requests : Sent(k)' = Sent(k) /\ effects'[k] = effects[k]
        /\ \A k \in Requests : req'[k] = req[k] \/ req'[k] = Ended(req[k])
    BY <1>7 DEF Joining, Ended, Sent
  <2>2. \A k \in Requests : req'[k].ask = req[k].ask
    BY <1>0, <2>1, EndedRequest DEF RequestTypes
  <2>3. QED
    BY <2>1, <2>2, SameCount
<1>8. CASE UNCHANGED vars \/ \E a \in Agents : JobEnds(a) \/ \E id \in JobIDs : JobStarts(a, id)
  <2>1. UNCHANGED <<req, wire, effects>>
    BY <1>8 DEF vars, cmdVars, JobEnds, JobStarts
  <2>2. \A k \in Requests : Sent(k)' = Sent(k)
    BY <2>1 DEF Sent
  <2>3. QED
    BY <2>1, <2>2, SameCount
<1>9. QED
  BY <1>1, <1>2, <1>3, <1>4, <1>5, <1>6, <1>7, <1>8 DEF Next

\* The requests keep their types in every step, and no request takes effect more often
\* than there are agents, whatever messages come late (HandleCancelJob).
THEOREM CommandsTypes == ASSUME IsFiniteSet(Agents) PROVE Spec => []CommandsTypeOK
<1>1. Init => CountInv
  <2> SUFFICES ASSUME Init, NEW r \in Requests
               PROVE  /\ IsFiniteSet(Sent(r))
                      /\ effects[r] + Cardinality(Sent(r)) + Cardinality(req[r].ask)
                             <= Cardinality(Agents)
    BY DEF CountInv
  <2>1. Sent(r) = {} /\ effects[r] = 0 /\ req[r].ask = {}
    BY DEF Init, Sent, NoRequest
  <2>2. IsFiniteSet(Sent(r)) /\ Cardinality(Sent(r)) = 0 /\ Cardinality(req[r].ask) = 0
    BY <2>1, FS_EmptySet
  <2>3. Cardinality(Agents) \in Nat
    BY FS_CardinalityType
  <2>4. QED
    BY <2>1, <2>2, <2>3
<1>2. Inv /\ Inv' /\ CountInv /\ [Next]_vars => CountInv'
  BY CountStep DEF Inv
<1>3. Inv /\ CountInv => CommandsTypeOK
  <2> SUFFICES ASSUME Inv, CountInv PROVE CommandsTypeOK
    OBVIOUS
  <2>1. TypeOK /\ RequestTypes
    BY DEF Inv, AgentsInv
  <2>2. ASSUME NEW r \in Requests PROVE effects[r] \in 0 .. Cardinality(Agents)
    <3>1. effects[r] \in Nat /\ req[r].ask \in SUBSET Agents
      BY <2>1 DEF RequestTypes, Request
    <3>2. Cardinality(Sent(r)) \in Nat /\ Cardinality(req[r].ask) \in Nat
      BY <3>1, FS_CardinalityType, FS_Subset DEF CountInv
    <3>3. effects[r] + Cardinality(Sent(r)) + Cardinality(req[r].ask) <= Cardinality(Agents)
      BY DEF CountInv
    <3>4. Cardinality(Agents) \in Nat
      BY FS_CardinalityType
    <3>5. QED
      BY <3>1, <3>2, <3>3, <3>4
  <2>3. QED
    BY <2>1, <2>2 DEF CommandsTypeOK, RequestTypes
<1>4. QED
  BY <1>1, <1>2, <1>3, InvHolds, PTL DEF Spec
=============================================================================
