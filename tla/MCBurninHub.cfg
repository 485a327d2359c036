CONSTANTS
    a1 = a1
    j1 = j1
    j2 = j2
    Agents = {a1}
    Jobs = {j1}
    AgentOf <- OneAgent
    MaxProgress = 1
    MaxConns = 2
    MaxCrashes = 1
SPECIFICATION Spec
INVARIANTS OpenReaderIsTracked GhostJobOnlyByLoss StoresAgree NotificationsPairUp
CHECK_DEADLOCK FALSE
