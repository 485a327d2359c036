CONSTANTS
    f1 = f1
    f2 = f2
    Firings = {f1}
    Requests = {r1}
    NoActor = NoActor
    Schedules <- SomeSchedules
    Verbs = {"sync", "touch"}
    Reports <- SomeReports
    MaxDeleted = 1
    MaxUpdated = 1
    AddDelRatio = 2
    AutoFix = TRUE
    MaxCrashes = 1
SPECIFICATION Spec
INVARIANTS GatesGuardSync HistoryFollowsJobs
    NoStaleActiveJob ContainersComeBack CompletionMeansSynced
CHECK_DEADLOCK FALSE
