\* Bytes of one bit, lengths of two bytes.
SPECIFICATION MCSpec
CONSTANTS
    Base = 2
    LenBytes = 2
    Keys <- MCKeys
    Values <- MCValues
    Torn = Torn
    NoRecord = NoRecord
    Tombstone = Tombstone
    NoEntry = NoEntry
    MaxLog = 3
INVARIANTS
    BytesExact
    ReplaysAsLsmTables
    MemTableMatchesSegment
