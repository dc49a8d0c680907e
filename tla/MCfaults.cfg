\* Crashes, and the failures the code takes notice of or may ignore.
SPECIFICATION MCSpec
CONSTANTS
    Key = {k1}
    Value = {v1}
    Tombstone = Tombstone
    NoEntry = NoEntry
    Torn = Torn
    Nil = Nil
    FlushBytes = 2
    CompactionThreshold = 2
    NameLimit = 1000000
    Faults = {"torn", "remove", "seal", "sst_create", "wal_open", "manifest_write"}
    MaxId = 4
    MaxLog = 2
    MaxUsed = 1
INVARIANTS
    ReadsMatchDisk
PROPERTIES
    DurableWhileClean
\* The bounds stop the clients.
CHECK_DEADLOCK FALSE
