CONSTANTS
    Names = {a, b}
    Props = {p, q}
    MaxWrites = 2
    MaxEvents = 2
SPECIFICATION FairOpsSpec
INVARIANTS AnsweredWriteShown
PROPERTIES CacheCatchesUp
