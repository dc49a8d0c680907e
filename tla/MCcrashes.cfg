\* Crashes anywhere, a file system that may refuse to rename over a file.
SPECIFICATION MCSpec
CONSTANTS
    Key = {k1}
    Value = {v1}
    Tombstone = Tombstone
    NoEntry = NoEntry
    Torn = Torn
    Nil = Nil
    FlushBytes = 2
    CompactionThreshold = 2
    NameLimit = 1000000
    Faults = {"torn", "manifest_replace"}
    MaxId = 5
    MaxLog = 2
    MaxUsed = 1
INVARIANTS
    ReadsMatchDisk
    SegmentMatchesMemTable
    NoGarbage
PROPERTIES
    DurableWhileClean
\* The bounds stop the clients.
CHECK_DEADLOCK FALSE
