CONSTANTS
    a1 = a1
    a2 = a2
    Kinds = {"burnin", "snapraid", "zfs"}
    Agents = {a1, a2}
    NoAgent = NoAgent
    Rotations = {x1, x2}
    Budgets <- SomeBudgets
    Requests = {r1}
    JobIDs = {j1, j2}
    NoJob = NoJob
SPECIFICATION FairSpec
INVARIANTS KeysAgree RegistryKeepsPromises AnswerMatchesEffect
PROPERTIES Progress
CHECK_DEADLOCK FALSE
