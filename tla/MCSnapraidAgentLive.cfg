CONSTANTS
    f1 = f1
    f2 = f2
    Firings = {f1, f2}
    Requests = {r1}
    NoActor = NoActor
    Schedules <- SomeSchedules
    Verbs = {"refresh"}
    Reports = {}
    MaxDeleted = 1
    MaxUpdated = 1
    AddDelRatio = 2
    AutoFix = TRUE
    MaxCrashes = 0
SPECIFICATION FairSpec
INVARIANTS OnePipelineAtATime
PROPERTIES SchedulerNotDeadlocked
CHECK_DEADLOCK FALSE
