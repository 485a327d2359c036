----------------------------- MODULE HubCommands -----------------------------
(***************************************************************************)
(* The commands that a hub passes on to the agents that have joined it     *)
(* (HubAgents): a job to start, a job to cancel, or with the ZFS manager   *)
(* any request that it proxies. An agent is reduced to the one job it has  *)
(* last taken on; what it makes of it afterwards (snapraid may find its    *)
(* engine taken after all, burn-in ends a cancelled job in its own time)   *)
(* is the matter of SnapraidAgent and BurninJobs.                          *)
(*                                                                         *)
(* Burn-in does not know which agent has a job: a cancel is sent to one    *)
(* agent after the other until one answers 200. Snapraid sends it to the   *)
(* agent named in the request or the first one online, whatever its job.   *)
(* Every request to an agent has a timeout, after which the agent may      *)
(* still do what it was asked.                                             *)
(***************************************************************************)
EXTENDS HubAgents

CONSTANTS Requests, JobIDs, NoJob

ASSUME NoJobAssumption == NoJob \notin JobIDs

VARIABLES job,       \* the job that each agent has taken on
          req,       \* the handlers of the requests at the hub
          wire,      \* what is on its way to the agents
          effects    \* history: how often an agent has taken a request on

cmdVars == <<job, req, wire, effects>>
vars == <<agentsVars, cmdVars>>
agentsStay == <<kind, fixedKey, hubVars, regVars, agent, history>>   \* all but the budget

\* `to` is the agent being asked, `ask` the agents still to be asked, `reply` what
\* the agent has answered; `late` says that some agent's answer did not come in time.
NoRequest == [op |-> "none", id |-> NoJob, at |-> "idle", to |-> NoAgent, ask |-> {},
              reply |-> "none", answer |-> "none", late |-> FALSE]

Request == [op : {"none", "execute", "cancel"}, id : JobIDs \cup {NoJob},
            at : {"idle", "choosing", "asking", "done"}, to : Agents \cup {NoAgent},
            ask : SUBSET Agents, reply : {"none", "ok", "refused"},
            answer : {"none", "ok", "refused", "notFound", "failed"}, late : BOOLEAN]

CommandsTypeOK ==
    /\ TypeOK
    /\ job \in [Agents -> JobIDs \cup {NoJob}]
    /\ req \in [Requests -> Request]
    /\ wire \subseteq [from : Requests, to : Agents, key : Keys]
    /\ effects \in [Requests -> 0 .. Cardinality(Agents)]

Init == /\ AgentsInit
        /\ job = [a \in Agents |-> NoJob]
        /\ req = [r \in Requests |-> NoRequest]
        /\ wire = {}
        /\ effects = [r \in Requests |-> 0]

\* The request is sent to the agent, with the key of the moment.
Ask(q, r, a) ==
    /\ req' = [req EXCEPT ![r] = [q EXCEPT !.at = "asking", !.to = a, !.reply = "none"]]
    /\ wire' = wire \cup {[from |-> r, to |-> a, key |-> psk]}

Reject(q, r) ==
    /\ req' = [req EXCEPT ![r] = [q EXCEPT !.at = "done", !.answer = "notFound"]]
    /\ UNCHANGED wire

\* resolveAgent, RouteCommand, proxyToAgent: an agent that is not in the registry is
\* not asked.
Forward(q, r, a) == IF a \in registry THEN Ask(q, r, a) ELSE Reject(q, r)

NewRequest(op, id) == [NoRequest EXCEPT !.op = op, !.id = id]

\* A request reaches the hub.
Arrives(r) == /\ hub = "up" /\ req[r].at = "idle" /\ left.requests > 0
              /\ left' = [left EXCEPT !.requests = @ - 1]

\* HandleExecute, handleCommand, proxyToAgent.
Execute(r, id, a) ==
    /\ Arrives(r)
    /\ Forward(NewRequest("execute", id), r, a)
    /\ UNCHANGED <<agentsStay, job, effects>>

\* Burn-in's HandleCancelJob: the agents in the registry now are asked in turn.
Broadcast(r, id) ==
    /\ kind = "burnin" /\ Arrives(r)
    /\ LET q == NewRequest("cancel", id) IN
       IF registry = {} THEN Reject(q, r)
       ELSE /\ req' = [req EXCEPT ![r] = [q EXCEPT !.at = "choosing", !.ask = registry]]
            /\ UNCHANGED wire
    /\ UNCHANGED <<agentsStay, job, effects>>

\* Snapraid's handleCancelJob: one agent, named or found online (resolveAgentID).
CancelOnAgent(r, id, a) ==
    /\ kind = "snapraid" /\ Arrives(r)
    /\ Forward(NewRequest("cancel", id), r, a)
    /\ UNCHANGED <<agentsStay, job, effects>>

AskNext(r, a) ==
    /\ req[r].at = "choosing" /\ a \in req[r].ask
    /\ Ask([req[r] EXCEPT !.ask = @ \ {a}], r, a)
    /\ UNCHANGED <<agentsVars, job, effects>>

\* requirePSK of the agent; burn-in's agent does not ask for a key.
Welcome(m) == kind = "burnin" \/ m.key = agent[m.to].key

\* Whether there is no job in the way (the ZFS agent works on several requests at once),
\* or the job that is to be cancelled: burn-in looks for the ID, snapraid aborts whatever
\* runs.
Possible(q, running) ==
    IF q.op = "execute" THEN running = NoJob \/ kind = "zfs"
    ELSE IF kind = "burnin" THEN running = q.id ELSE running # NoJob

\* The agent takes the request: in time, or after the hub has given up on it.
AgentTakes(m) ==
    LET q == req[m.from]
        done == Welcome(m) /\ Possible(q, job[m.to])
        awaited == q.at = "asking" /\ q.to = m.to IN
    /\ agent[m.to].at # "off"
    /\ wire' = wire \ {m}
    /\ IF done
       THEN /\ job' = [job EXCEPT ![m.to] = IF q.op = "execute" THEN q.id ELSE NoJob]
            /\ effects' = [effects EXCEPT ![m.from] = @ + 1]
       ELSE UNCHANGED <<job, effects>>
    /\ req' = IF awaited THEN [req EXCEPT ![m.from].reply = IF done THEN "ok" ELSE "refused"] ELSE req
    /\ UNCHANGED agentsVars

\* Mutant: the broadcast goes on to the last agent.
AfterAgentAsksAll(q, reply) ==
    IF q.op = "cancel" /\ kind = "burnin" /\ q.ask # {}
    THEN [q EXCEPT !.at = "choosing", !.to = NoAgent, !.reply = "none"]
    ELSE [q EXCEPT !.at = "done", !.answer = reply]

\* The hub goes on after one agent: the broadcast ends with the first 200 and with
\* the last agent, the other requests with the only one.
AfterAgent(q, reply) ==
    LET broadcast == q.op = "cancel" /\ kind = "burnin" /\ reply # "ok" IN
    IF broadcast /\ q.ask # {} THEN [q EXCEPT !.at = "choosing", !.to = NoAgent, !.reply = "none"]
    ELSE [q EXCEPT !.at = "done", !.answer = IF broadcast THEN "notFound" ELSE reply]

\* The agent's answer arrives.
Relay(r) ==
    /\ req[r].at = "asking" /\ req[r].reply # "none"
    /\ req' = [req EXCEPT ![r] = AfterAgent(req[r], req[r].reply)]
    /\ UNCHANGED <<agentsVars, job, wire, effects>>

\* Nobody listens at the agent's address.
Unreachable(m) ==
    /\ agent[m.to].at = "off"
    /\ wire' = wire \ {m}
    /\ LET q == req[m.from] IN
       req' = IF q.at = "asking" /\ q.to = m.to
              THEN [req EXCEPT ![m.from] = AfterAgent(q, "failed")] ELSE req
    /\ UNCHANGED <<agentsVars, job, effects>>

\* Mutant: a client without a timeout.
TimeOutNever(r) == FALSE /\ UNCHANGED vars

\* The client's timeout: the agent may have done its work, or do it yet. "failed" is
\* 502, or no answer at all when the server's own write timeout is over as well.
TimeOut(r) ==
    /\ req[r].at = "asking"
    /\ req' = [req EXCEPT ![r] = AfterAgent([req[r] EXCEPT !.late = TRUE], "failed")]
    /\ UNCHANGED <<agentsVars, job, wire, effects>>

\* A job that no request of ours started: by the agent's schedule, or past the hub.
JobStarts(a, id) ==
    /\ agent[a].at # "off" /\ job[a] = NoJob /\ left.jobs > 0
    /\ left' = [left EXCEPT !.jobs = @ - 1]
    /\ job' = [job EXCEPT ![a] = id]
    /\ UNCHANGED <<agentsStay, req, wire, effects>>

JobEnds(a) ==
    /\ job[a] # NoJob
    /\ job' = [job EXCEPT ![a] = NoJob]
    /\ UNCHANGED <<agentsVars, req, wire, effects>>

\* What happens to the hub and the agents: a crash of the hub ends its handlers, a
\* stopped agent's job.
Joining ==
    /\ AgentsNext
    /\ job' = [a \in Agents |-> IF agent'[a].at = "off" THEN NoJob ELSE job[a]]
    /\ req' = IF hub = "up" /\ hub' = "down"
              THEN [r \in Requests |-> IF req[r].at \in {"choosing", "asking"}
                                       THEN [req[r] EXCEPT !.at = "done", !.answer = "failed", !.late = TRUE]
                                       ELSE req[r]]
              ELSE req
    /\ UNCHANGED <<wire, effects>>

Next ==
    \/ Joining
    \/ \E r \in Requests : \/ \E id \in JobIDs : \/ Broadcast(r, id)
                                                 \/ \E a \in Agents : Execute(r, id, a) \/ CancelOnAgent(r, id, a)
                           \/ \E a \in Agents : AskNext(r, a)
                           \/ Relay(r) \/ TimeOut(r)
    \/ \E m \in wire : AgentTakes(m) \/ Unreachable(m)
    \/ \E a \in Agents : JobEnds(a) \/ \E id \in JobIDs : JobStarts(a, id)

Spec == Init /\ [][Next]_vars

\* The loops of agents and hub go on: a hub that died is started again, an agent
\* keeps posting its registration, a write ends, the handlers run, and timers fire.
Fairness ==
    /\ WF_vars(Joining /\ HubStart)
    /\ WF_vars(Joining /\ (FinishSave \/ SaveFails))
    /\ \A a \in Agents : WF_vars(Joining /\ Register(a))
    /\ \A r \in Requests : /\ WF_vars(\E a \in Agents : AskNext(r, a))
                           /\ WF_vars(Relay(r) \/ TimeOut(r))

FairSpec == Spec /\ Fairness

(***************************************************************************)
(* Properties.                                                             *)
(***************************************************************************)
\* An answer says what has been done: "ok" for exactly one job taken on or cancelled,
\* a refusal or "not found" for none, unless an agent's answer came too late; then
\* the request may have had its effect although it failed, and a broadcast may have
\* cancelled jobs of one ID on two agents (HandleExecute, HandleCancelJob).
AnswerMatchesEffect ==
    \A r \in Requests :
        /\ (req[r].at = "done" /\ ~req[r].late) => effects[r] = (IF req[r].answer = "ok" THEN 1 ELSE 0)
        /\ (req[r].answer = "ok") => effects[r] > 0
        /\ effects[r] > 1 => req[r].op = "cancel" /\ req[r].late

\* Every agent that has the key of the hub gets into the registry, and every request
\* gets an answer, though agents hang, answers are lost and the hub is restarted; for
\* as long as the key stays, the agent runs and the hub can start (RegisterWithHub,
\* the timeouts of the hubs' clients).
Progress ==
    /\ \A a \in Agents : []<>(\/ agent[a].at # "registering" \/ agent[a].key # psk
                              \/ hub = "refuses")
    /\ \A r \in Requests : []<>(req[r].at \in {"idle", "done"})
=============================================================================
