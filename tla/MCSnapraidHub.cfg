CONSTANTS
    MaxJobs = 2
    MaxEvents = 2
    MaxFaults = 1
    Handlers = {1, 2}
SPECIFICATION FairSpec
PROPERTIES CompletionOnlyAfterEnd EventsInOrderOnce HubCatchesUp
CHECK_DEADLOCK FALSE
