\* Crashes and every failure.
SPECIFICATION MCFairSpec
CONSTANTS
    Key = {k1}
    Value = {v1}
    Tombstone = Tombstone
    NoEntry = NoEntry
    Torn = Torn
    Nil = Nil
    FlushBytes = 2
    CompactionThreshold = 2
    NameLimit = 1000000
    Faults = {"torn", "remove", "wal_open", "wal_read", "wal_write", "seal", "sst_create", "sst_write",
              "sst_open", "sst_read", "manifest_write", "manifest_replace",
              "manifest_rename"}
    MaxId = 3
    MaxLog = 1
    MaxUsed = 2
INVARIANTS
    TypeOK
    ManifestSound
    NewestFirst
    FreshSegment
PROPERTIES
    CommittedTablesImmutable
    
    CallsReturn
\* The bounds stop the clients.
CHECK_DEADLOCK FALSE
