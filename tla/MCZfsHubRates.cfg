CONSTANTS
    MaxNews = 2
    MaxFaults = 0
    CounterSize = 8
    Refreshers = {r1}
    Handlers = {1}
SPECIFICATION Spec
PROPERTY ZeroOnlyWithoutPrevious
CHECK_DEADLOCK FALSE
