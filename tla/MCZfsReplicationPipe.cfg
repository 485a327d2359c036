CONSTANTS
    hourly = hourly
    verify = verify
    mirror = mirror
    offsite = offsite
    auto = auto
    repl = repl
    Tasks = {offsite}
    NoTask = NoTask
    NoSnap = NoSnap
    Kind <- Kinds
    Prefix <- DefaultPrefixes
    Covers <- NoOverlap
    Retention <- KeepOne
    Remote = {offsite}
    UseBookmarks = {}
    ManageRemote = {}
    MaxRuns = 1
    MaxSnaps = 2
    ManualRuns = {}
    MaxChunks = 2
    MaxMishaps = 0
SPECIFICATION FairSpec
PROPERTY FailedReceiveReported
CHECK_DEADLOCK FALSE
