CONSTANTS
    Slots = {s1, s2}
    Devices = {sda}
    Commands = {"burnin"}
    MaxSecond = 1
    MaxCrashes = 0
    NoSlot = NoSlot
    NoJob = NoJob
    NoRecord = NoRecord
SPECIFICATION Spec
INVARIANT RunningJobsAbortable
CHECK_DEADLOCK FALSE
