---------------------------- MODULE LsmTables ----------------------------
(***************************************************************************)
(* The data of the store: what a MemTable, the data section of an SSTable  *)
(* and the replay of a WAL segment have in common is a table that gives    *)
(* some keys an entry, a value or a tombstone.  This module has no state;  *)
(* KVStore builds its actions from these operators.                        *)
(***************************************************************************)
EXTENDS Integers, Sequences, FiniteSets, Functions

CONSTANTS
    Key,        \* the keys clients use
    Value,      \* the values clients store
    Tombstone,  \* the entry that del() leaves
    NoEntry,    \* a table that does not know the key; also "not found" to a client
    Torn        \* the last bytes of a log whose final record was cut by a crash

ASSUME EntryAssumption ==
    /\ Tombstone \notin Value
    /\ NoEntry \notin Value \cup {Tombstone}

\* What a write carries: put() a value, del() a tombstone.
Written == Value \cup {Tombstone}

Record == [key : Key, entry : Written]

ASSUME TornAssumption == Torn \notin Record

\* MemEntry, or its absence.
Entry == Written \cup {NoEntry}

Table == [Key -> Entry]

EmptyTable == [k \in Key |-> NoEntry]

\* Mutant: del() erases the entry.
SetEntryErasing(table, k, e) ==
    [table EXCEPT ![k] = IF e = Tombstone THEN NoEntry ELSE e]

\* MemTable::put and MemTable::del, by what they leave under the key.
SetEntry(table, k, e) == [table EXCEPT ![k] = e]

\* newer over older: an entry of newer, a tombstone too, hides the older one.
Overlay(newer, older) ==
    [k \in Key |-> IF newer[k] # NoEntry THEN newer[k] ELSE older[k]]

\* MemTable::bytes(), with one byte for a key and one for a value.
Bytes(table) ==
    Cardinality({k \in Key : table[k] # NoEntry})
        + Cardinality({k \in Key : table[k] \in Value})

\* The merge result without its tombstones.
DropTombstones(table) ==
    [k \in Key |-> IF table[k] = Tombstone THEN NoEntry ELSE table[k]]

\* What a client sees of an entry: a tombstone reads as "not found".
Visible(e) == IF e = Tombstone THEN NoEntry ELSE e

-----------------------------------------------------------------------------
(* Logs: a WAL segment is the sequence of the records appended to it, with *)
(* Torn where a crash cut one.                                             *)

Log == Seq(Record \cup {Torn})

\* The records in front of the first cut one.
Whole(log) == {i \in DOMAIN log : \A j \in 1..i : log[j] # Torn}

\* A cut record that later records were appended behind.
BuriedTear(log) == \E i \in DOMAIN log : log[i] = Torn /\ i < Len(log)

IsLastFor(log, k, i) ==
    /\ i \in Whole(log)
    /\ log[i].key = k
    /\ \A j \in Whole(log) : log[j].key = k => j <= i

\* WAL::replay into an empty MemTable: of the records on a key the last wins.
Replay(log) ==
    [k \in Key |->
        IF \E i \in Whole(log) : IsLastFor(log, k, i)
        THEN log[CHOOSE i \in Whole(log) : IsLastFor(log, k, i)].entry
        ELSE NoEntry]

\* What replay can make of a log.  Behind a cut record the reader is out of step:
\* it may find records that nobody wrote and pass over others, and what it finds
\* goes over the records in front.  WriteAhead compares this with the bytes.
Replays(log) ==
    IF ~ BuriedTear(log) THEN {Replay(log)}
    ELSE {Overlay(garbled, Replay(log)) : garbled \in Table}

-----------------------------------------------------------------------------
(* Lookups through layers of tables.                                       *)

\* The table in a file, empty when the file cannot be opened.
Content(files, id) == IF id \in DOMAIN files THEN files[id] ELSE EmptyTable

Knows(files, ids, k, i) == Content(files, ids[i])[k] # NoEntry

\* The first of the layers 1..n that knows k, in list order.
IsFirstHit(files, ids, n, k, i) ==
    /\ i \in 1..n
    /\ Knows(files, ids, k, i)
    /\ \A j \in 1..(i - 1) : ~ Knows(files, ids, k, j)

\* Its entry: what DB::get finds below the MemTable.
LookupUpTo(files, ids, n, k) ==
    IF \E i \in 1..n : IsFirstHit(files, ids, n, k, i)
    THEN Content(files, ids[CHOOSE i \in 1..n : IsFirstHit(files, ids, n, k, i)])[k]
    ELSE NoEntry

Lookup(files, ids, k) == LookupUpTo(files, ids, Len(ids), k)

\* The entry of the highest-numbered table that knows k.
Newest(tables, k) ==
    LET knowing == {i \in DOMAIN tables : tables[i][k] # NoEntry}
    IN  IF knowing = {} THEN NoEntry
        ELSE tables[CHOOSE i \in knowing : \A j \in knowing : j <= i][k]

-----------------------------------------------------------------------------
(* A directory of files: a function from file numbers to contents.         *)

NoFiles == [id \in {} |-> EmptyTable]

WriteFile(files, id, content) ==
    [i \in DOMAIN files \cup {id} |-> IF i = id THEN content ELSE files[i]]

RemoveFile(files, id) == Restrict(files, DOMAIN files \ {id})
=============================================================================
