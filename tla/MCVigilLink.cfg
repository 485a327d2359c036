CONSTANTS
    Kinds = {"burnin", "snapraid", "zfs"}
    Capacity = 2
    MaxFrames = 5
    MaxSends = 2
    MaxConns = 3
SPECIFICATION FairLinkSpec
INVARIANTS OneFrameWasted
PROPERTIES LinkRecovers ImplementsChannels
CHECK_DEADLOCK FALSE
