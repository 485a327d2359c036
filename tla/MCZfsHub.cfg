CONSTANTS
    MaxNews = 2
    MaxFaults = 1
    CounterSize = 8
    Refreshers = {r1, r2}
    Handlers = {1, 2}
SPECIFICATION FairSpec
PROPERTIES AnnouncedOnce RatesNeverAboveActivity HubCatchesUp
CHECK_DEADLOCK FALSE
