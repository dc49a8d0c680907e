\* Six keys, a stride of two, three hash functions, sizes of at most 31 in the file.
SPECIFICATION Spec
CONSTANTS
    Key <- MCKey
    Value = {v1}
    Tombstone = Tombstone
    NoEntry = NoEntry
    Unset = Unset
    Hashes <- MCHashes
    INDEX_STRIDE = 2
    K = 3
    BitsPerKey = 3
    MinBits = 4
    ByteBits = 4
    WordValues = 32
INVARIANTS
    LookupAgrees
    FilterReadsBack
    LookupIsShort
PROPERTIES
    ScanAgrees
\* A file that is refused has no object.
CHECK_DEADLOCK FALSE
