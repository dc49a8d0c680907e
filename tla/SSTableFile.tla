---------------------------- MODULE SSTableFile ----------------------------
(***************************************************************************)
(* One SSTable: the file that build() writes, what load_meta() takes from  *)
(* it, and lookup() and scan_all() entry by entry.                         *)
(*                                                                         *)
(* The file is a sequence of cells; an offset counts the cells in front.   *)
(* A cell is an entry, the Bloom section, the index section or the footer. *)
(* LsmTables and KVStore take the file for the table it was built from.    *)
(***************************************************************************)
EXTENDS BloomFilter, Sequences, FiniteSets

CONSTANTS
    Key,            \* natural numbers in place of strings, compared alike
    Value, Tombstone, NoEntry,
    Hashes,         \* hash functions: from keys to natural numbers
    INDEX_STRIDE,
    Unset           \* no answer yet

ASSUME FileAssumption ==
    /\ Key \subseteq Int /\ IsFiniteSet(Key)
    /\ Hashes \subseteq [Key -> Nat]
    /\ INDEX_STRIDE \in Nat \ {0}
    /\ {Tombstone, NoEntry, Unset} \cap Value = {}

Entry == Value \cup {Tombstone, NoEntry}

VARIABLES
    hash,       \* fnv1a_a
    table,      \* the map that was given to build()
    file,       \* the cells of the file
    index,      \* index_
    bloom,      \* bloom_
    bloom_offset, \* bloom_offset_
    pc,         \* "build", "load", "open", "search", "scan", "refused"
    key,        \* lookup: the key
    at,         \* lookup, scan_all: ftell
    result,     \* lookup: its answer
    scanned     \* scan_all: the entries read

object == <<index, bloom, bloom_offset>>
call   == <<key, at, result, scanned>>
vars   == <<hash, table, file, object, pc, call>>

KeysOf(t) == {k \in Key : t[k] # NoEntry}

\* In increasing order: at n is the key above n - 1 others.
Sorted(keys) ==
    [n \in 1..Cardinality(keys) |->
        CHOOSE k \in keys : Cardinality({other \in keys : other < k}) = n - 1]

Filter(keys) == AddAll(NewFilter(Cardinality(keys)), {hash[k] : k \in keys})

\* bloom_(0).
NoFilter == NewFilter(0)

Init ==
    /\ hash \in Hashes
    /\ table \in [Key -> Entry]
    /\ file = <<>>
    /\ index = <<>> /\ bloom = NoFilter /\ bloom_offset = 0
    /\ pc = "build"
    /\ key = Unset /\ at = 0 /\ result = Unset /\ scanned = <<>>

-----------------------------------------------------------------------------
(* SSTable::build.                                                         *)

\* [key][flags][value]: the value of a tombstone is written too, empty.
EntryCell(k) ==
    [key |-> k, flags |-> IF table[k] = Tombstone THEN 1 ELSE 0,
     value |-> IF table[k] = Tombstone THEN NoEntry ELSE table[k]]

\* Entry n, from 0, has an index point.
Indexed(n) == n % INDEX_STRIDE = 0

\* A point for each indexed entry, with its offset.
Sparse(keys) ==
    LET points == Sorted({n \in 0..(Len(keys) - 1) : Indexed(n)})
    IN  [i \in DOMAIN points |-> [key |-> keys[points[i] + 1], offset |-> points[i]]]

Layout ==
    LET keys == Sorted(KeysOf(table))
        data == [i \in DOMAIN keys |-> EntryCell(keys[i])]
    IN  data \o << Section(Filter(KeysOf(table))),
                   Sparse(keys),
                   [bloom_offset |-> Len(data), index_offset |-> Len(data) + 1] >>

\* What fwrite and fsync return is not looked at: a file system that is full
\* leaves an empty file.
Build ==
    /\ pc = "build"
    /\ file' \in {Layout, <<>>}
    /\ pc' = "load"
    /\ UNCHANGED <<hash, table, object, call>>

-----------------------------------------------------------------------------
(* SSTable::load_meta.                                                     *)

Cell(offset) == file[offset + 1]

Footer == file[Len(file)]

\* Without a footer the object stays empty.
LoadNothing ==
    /\ pc = "load"
    /\ file = <<>>
    /\ pc' = "open"
    /\ UNCHANGED <<hash, table, file, object, call>>

\* BloomFilter throws on a section that is cut, and the constructor with it.
LoadRefused ==
    /\ pc = "load"
    /\ file # <<>> /\ Refuses(Cell(Footer.bloom_offset))
    /\ pc' = "refused"
    /\ UNCHANGED <<hash, table, file, object, call>>

LoadMeta ==
    /\ pc = "load"
    /\ file # <<>> /\ ~ Refuses(Cell(Footer.bloom_offset))
    /\ bloom_offset' = Footer.bloom_offset
    /\ bloom' = ReadFilter(Cell(Footer.bloom_offset))
    /\ index' = Cell(Footer.index_offset)
    /\ pc' = "open"
    /\ UNCHANGED <<hash, table, file, call>>

-----------------------------------------------------------------------------
(* SSTable::lookup.                                                        *)

Answer(entry) == result' = entry /\ pc' = "open"

\* Mutant: the point of the key itself is passed over.
PointsBelow(k) == {i \in DOMAIN index : index[i].key < k}

\* The points that upper_bound leaves in front.
PointsUpTo(k) == {i \in DOMAIN index : index[i].key <= k}

\* The filter and the index: no answer, or the place to scan from.
Lookup(k) ==
    /\ pc = "open"
    /\ key' = k
    /\ IF MayContain(bloom, hash[k]) /\ PointsUpTo(k) # {}
       THEN /\ pc' = "search"
            /\ at' = index[CHOOSE i \in PointsUpTo(k) :
                              \A j \in PointsUpTo(k) : j <= i].offset
            /\ result' = Unset
       ELSE Answer(NoEntry) /\ UNCHANGED at
    /\ UNCHANGED <<hash, table, file, object, scanned>>

EntryIn(cell) == IF cell.flags % 2 = 1 THEN Tombstone ELSE cell.value

\* Mutant: the scan goes on past the place of the key.
OvershotNever(cell) == FALSE

Overshot(cell) == cell.key > key

\* One entry of the scan.
Search ==
    /\ pc = "search"
    /\ IF at >= bloom_offset THEN Answer(NoEntry)
       ELSE \/ Cell(at).key = key /\ Answer(EntryIn(Cell(at)))
            \/ Cell(at).key # key /\ Overshot(Cell(at)) /\ Answer(NoEntry)
            \/ Cell(at).key # key /\ ~ Overshot(Cell(at)) /\ UNCHANGED <<result, pc>>
    /\ at' = at + 1
    /\ UNCHANGED <<hash, table, file, object, key, scanned>>

-----------------------------------------------------------------------------
(* SSTable::scan_all.                                                      *)

ScanAll ==
    /\ pc = "open"
    /\ pc' = "scan"
    /\ at' = 0
    /\ scanned' = <<>>
    /\ key' = Unset /\ result' = Unset
    /\ UNCHANGED <<hash, table, file, object>>

ScanNext ==
    /\ pc = "scan"
    /\ at < bloom_offset
    /\ scanned' = Append(scanned, [key |-> Cell(at).key, entry |-> EntryIn(Cell(at))])
    /\ at' = at + 1
    /\ UNCHANGED <<hash, table, file, object, pc, key, result>>

\* Mutant: it ends in front of the last entry.
ScanEndShort ==
    /\ pc = "scan"
    /\ at + 1 >= bloom_offset
    /\ pc' = "open"
    /\ UNCHANGED <<hash, table, file, object, call>>

ScanEnd ==
    /\ pc = "scan"
    /\ at >= bloom_offset
    /\ pc' = "open"
    /\ UNCHANGED <<hash, table, file, object, call>>

Next ==
    \/ Build
    \/ LoadNothing \/ LoadRefused \/ LoadMeta
    \/ \E k \in Key : Lookup(k)
    \/ Search
    \/ ScanAll \/ ScanNext \/ ScanEnd

Spec == Init /\ [][Next]_vars

-----------------------------------------------------------------------------
(* What the engine relies on.                                              *)

\* The table the file stands for in KVStore: none of it if it was not written.
Stored == IF file = <<>> THEN [k \in Key |-> NoEntry] ELSE table

\* lookup() agrees with the map the file was built from: for keys in front of
\* the first entry, behind the last, between two index points and on one; a
\* tombstone is told from a key that is not there.  The filter never hides a
\* key.  A file that could not be written reads as an empty table.
LookupAgrees ==
    (pc = "open" /\ result # Unset) => result = Stored[key]

\* The entries are those of the table t, all of them, once each and in key order.
IsScanOf(entries, t) ==
    /\ {entries[i].key : i \in DOMAIN entries} = KeysOf(t)
    /\ \A i \in DOMAIN entries : entries[i].entry = t[entries[i].key]
    /\ \A i, j \in DOMAIN entries : i < j => entries[i].key < entries[j].key

\* A scan_all() that returns has read every entry of the table, once, in key order:
\* it returns nothing only for a table without entries or a file that was not
\* written.
ScanAgrees == [][(pc = "scan" /\ pc' # "scan") => IsScanOf(scanned', Stored')]_vars

\* The filter that was written is the filter that is read, or the file is
\* refused, which happens only when its size does not fit into the file.
FilterReadsBack ==
    /\ (pc = "open" /\ file # <<>>) => bloom = Filter(KeysOf(table))
    /\ pc = "refused" => SizeFor(Cardinality(KeysOf(table))) >= WordValues

\* The sparse index keeps a lookup short: it reads the entries of one stride
\* and at most one more.
LookupIsShort ==
    pc = "search" =>
        \E i \in PointsUpTo(key) : at - index[i].offset <= INDEX_STRIDE
=============================================================================
