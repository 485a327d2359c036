CONSTANTS
    a1 = a1
    j1 = j1
    j2 = j2
    Agents = {a1}
    Jobs = {j1}
    AgentOf <- OneAgent
    MaxProgress = 1
    MaxConns = 1
    MaxCrashes = 0
SPECIFICATION Spec
INVARIANTS StartAnnouncedOnce
CHECK_DEADLOCK FALSE
