\* Two writers, two readers, one of them the same thread; creating an SSTable may
\* throw.
SPECIFICATION MCFairThreadsSpec
CONSTANTS
    Key = {k1}
    Value = {v1}
    Tombstone = Tombstone
    NoEntry = NoEntry
    Torn = Torn
    Nil = Nil
    FlushBytes = 2
    CompactionThreshold = 2
    NameLimit = 1000000
    Faults = {"sst_create"}
    Thread = {w1, w2, r1}
    Writers = {w1, w2}
    Readers = {w2, r1}
    MaxId = 4
    MaxLog = 2
INVARIANTS
    LockInv
    StatsOfOneMoment
PROPERTIES
    NothingMovesUnderReaders
    Linearizable
    CallsLeave
    WaitsOnlyForOthers
