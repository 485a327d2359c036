SPECIFICATION FairSpec
CONSTANTS
  Kinds = {"snapraid", "zfs"}
  Items = {i1, i2}
  i1 = i1  i2 = i2
  Gone = Gone  Off = Off  Bad = Bad  NoKey = NoKey
  MaxVersion = 2
  Offers = {Gone, Off, Bad, 2}
  MaxRequests = 2
  MaxFaults = 1
INVARIANTS NothingForgotten OnlyTheLatest
PROPERTIES EveryRequestEnds
CHECK_DEADLOCK FALSE
