\* Two keys, no crash.
SPECIFICATION MCGracefulSpec
CONSTANTS
    Key = {k1, k2}
    Value = {v1}
    Tombstone = Tombstone
    NoEntry = NoEntry
    Torn = Torn
    Nil = Nil
    FlushBytes = 3
    CompactionThreshold = 2
    NameLimit = 1000000
    Faults = {}
    MaxId = 5
    MaxLog = 2
    MaxUsed = 1
PROPERTIES
    NoAckedWriteLost
    WriteLeavesRoom
\* The bounds stop the clients.
CHECK_DEADLOCK FALSE
