CONSTANTS
    Slots = {s1, s2}
    Devices = {sda}
    Commands = {"burnin", "full"}
    MaxSecond = 1
    MaxCrashes = 1
    NoSlot = NoSlot
    NoJob = NoJob
    NoRecord = NoRecord
SPECIFICATION FairSpec
INVARIANTS TypeOK LocksMatchJobs StatusAlwaysKnown AbortReachesJob
PROPERTIES CancelStopsJob ImplementsReservation DriveEventuallyFree
CHECK_DEADLOCK FALSE
