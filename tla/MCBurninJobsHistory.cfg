CONSTANTS
    Slots = {s1, s2}
    Devices = {sda}
    Commands = {"burnin"}
    MaxSecond = 1
    MaxCrashes = 1
    NoSlot = NoSlot
    NoJob = NoJob
    NoRecord = NoRecord
SPECIFICATION Spec
PROPERTY HistorySurvivesRestart
CHECK_DEADLOCK FALSE
