CONSTANTS
    MaxJobs = 2
    MaxEvents = 2
    MaxFaults = 0
    Handlers = {1, 2}
SPECIFICATION Spec
PROPERTY CompletionKeepsTrigger
CHECK_DEADLOCK FALSE
