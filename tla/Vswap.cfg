\* SSTable::SSTable fails to open.
SPECIFICATION MCSpec
CONSTANTS
    Key = {k1}
    Value = {v1}
    Tombstone = Tombstone
    NoEntry = NoEntry
    Torn = Torn
    Nil = Nil
    FlushBytes = 2
    CompactionThreshold = 2
    NameLimit = 1000000
    Faults = {"sst_open"}
    MaxId = 5
    MaxLog = 2
    MaxUsed = 1
INVARIANTS
    ReadsMatchDisk
\* The bounds stop the clients.
CHECK_DEADLOCK FALSE
