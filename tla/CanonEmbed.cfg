SPECIFICATION FairSpec
CONSTANTS
    Entities = {e}
    Characters = {c}
    Sessions = {s}
    Workers = {w1, w2}
    MaxSaves = 2
    MaxReindex = 1
    MaxFaults = 1
INVARIANTS FreshWhenHandled ReindexCatchesUp
PROPERTY EventuallyFresh
CHECK_DEADLOCK FALSE
