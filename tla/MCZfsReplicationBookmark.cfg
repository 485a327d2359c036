CONSTANTS
    hourly = hourly
    verify = verify
    mirror = mirror
    offsite = offsite
    auto = auto
    repl = repl
    Tasks = {hourly, verify, mirror, offsite}
    NoTask = NoTask
    NoSnap = NoSnap
    Kind <- Kinds
    Prefix <- DefaultPrefixes
    Covers <- NoOverlap
    Retention <- KeepOne
    Remote = {offsite}
    UseBookmarks = {offsite}
    ManageRemote = {offsite}
    MaxRuns = 2
    MaxSnaps = 3
    ManualRuns = {2}
    MaxChunks = 2
    MaxMishaps = 1
SPECIFICATION Spec
INVARIANT BookmarkKeepsChain
CHECK_DEADLOCK FALSE
