\* Crashes that cut a record.
SPECIFICATION MCSpec
CONSTANTS
    Key = {k1}
    Value = {v1}
    Tombstone = Tombstone
    NoEntry = NoEntry
    Torn = Torn
    Nil = Nil
    FlushBytes = 2
    CompactionThreshold = 2
    NameLimit = 1000000
    Faults = {"torn"}
    MaxId = 5
    MaxLog = 2
    MaxUsed = 1
PROPERTIES
    NoAckedWriteLost
\* The bounds stop the clients.
CHECK_DEADLOCK FALSE
