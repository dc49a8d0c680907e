----------------------------- MODULE WriteAhead -----------------------------
(***************************************************************************)
(* A WAL segment byte by byte and the MemTable it stands for: records are  *)
(* appended and synced, a crash cuts the last one anywhere, and recovery   *)
(* reads the segment from its start and then appends to it.                *)
(*                                                                         *)
(* KVStore takes a segment for a sequence of records, Torn where one was   *)
(* cut, and LsmTables!Replays for what a replay may find.  Here is what    *)
(* the reader of wal.cpp makes of the bytes; log keeps the other view.     *)
(***************************************************************************)
EXTENDS MemTable

CONSTANTS
    Base,       \* the number of values of a byte (256)
    LenBytes,   \* the bytes of a length (4)
    Keys,       \* the keys clients use, strings of bytes
    Values,     \* the values clients store
    Torn,       \* the remains of a record, in log
    Tombstone, NoEntry, \* as in LsmTables
    NoRecord    \* no write in flight

Byte == 0..(Base - 1)

ASSUME BytesAssumption == Base \in Nat \ {0, 1} /\ LenBytes \in Nat \ {0}
ASSUME StringsAssumption == Keys \cup Values \subseteq Seq(Byte)

\* Base ^ i, the worth of the byte behind i lower ones.
Weight[i \in 0..LenBytes] == IF i = 0 THEN 1 ELSE Base * Weight[i - 1]

\* Nothing in the code refuses a longer string; its length would be cut, and the
\* reader be out of step behind it.
ASSUME LengthsAssumption == \A s \in Keys \cup Values : Len(s) < Weight[LenBytes]

\* WalOp.
PutOp == 0
DelOp == 1

\* WalRecord.
Records == [op : {PutOp}, key : Keys, value : Values]
             \cup [op : {DelOp}, key : Keys, value : {<<>>}]

-----------------------------------------------------------------------------
(* The format: [op][key_len][key][val_len][val].                           *)

\* A length is cut to its bytes, lowest byte first.
LenField(n) == [i \in 1..LenBytes |-> (n \div Weight[i - 1]) % Base]

StrField(s) == LenField(Len(s)) \o s

Encoded(r) == <<r.op>> \o StrField(r.key) \o StrField(r.value)

VARIABLES
    file,       \* the bytes of the segment
    log,        \* the same as records: those appended, Torn for one that was cut
    buffer,     \* what wal_ has not yet given to the file system
    rec,        \* the record in the buffer, or NoRecord
    memtable,   \* memtable_
    pos,        \* replay: the bytes read so far
    pc          \* the step that comes next

walvars == <<file, log, buffer, rec>>
vars == <<walvars, memtable, pos, pc>>

Init ==
    /\ file = <<>> /\ log = <<>>
    /\ buffer = <<>> /\ rec = NoRecord
    /\ memtable = Cleared
    /\ pos = 0
    /\ pc = "down"

-----------------------------------------------------------------------------
(* WAL::replay, record by record, into an empty MemTable.                  *)

\* Mutant: highest byte first.
LenAtReversed(p) ==
    SumFunction([i \in 1..LenBytes |-> file[p + i] * Weight[LenBytes - i]])

\* The number in the length field behind the first p bytes.
LenAt(p) ==
    SumFunction([i \in 1..LenBytes |-> file[p + i] * Weight[i - 1]])

StrEnd(p) == p + LenBytes + LenAt(p)

\* rstr succeeds there.
HasStr(p) == p + LenBytes <= Len(file) /\ StrEnd(p) <= Len(file)

StrAt(p) == SubSeq(file, p + LenBytes + 1, StrEnd(p))

\* The op byte, the key and the value can be read.
Whole == HasStr(pos + 1) /\ HasStr(StrEnd(pos + 1))

Reopen ==
    /\ pc = "down"
    /\ pc' = "replay"
    /\ pos' = 0
    /\ UNCHANGED <<walvars, memtable>>

\* Mutant: only the puts are replayed.
ReplayedPuts(op, k, v) == IF op = PutOp THEN Put(memtable, k, v) ELSE memtable

\* DB::recover takes every op but Put for a Del.
Replayed(op, k, v) == IF op = PutOp THEN Put(memtable, k, v) ELSE Del(memtable, k)

ReplayRecord ==
    /\ pc = "replay"
    /\ pos < Len(file) /\ Whole
    /\ LET k == pos + 1
           v == StrEnd(k)
       IN  /\ memtable' = Replayed(file[pos + 1], StrAt(k), StrAt(v))
           /\ pos' = StrEnd(v)
    /\ UNCHANGED <<walvars, pc>>

\* At the end, or at a record that is not whole.
ReplayEnd ==
    /\ pc = "replay"
    /\ pos < Len(file) => ~ Whole
    /\ pc' = "recovered"
    /\ UNCHANGED <<walvars, memtable, pos>>

\* WAL::WAL opens to append, behind whatever is there.
OpenWal ==
    /\ pc = "recovered"
    /\ pc' = "idle"
    /\ pos' = 0
    /\ UNCHANGED <<walvars, memtable>>

-----------------------------------------------------------------------------
(* put and del, a flush, and the end of the process.                       *)

AppendRecord(r) ==
    /\ pc = "idle"
    /\ buffer' = Encoded(r)
    /\ rec' = r
    /\ pc' = "sync"
    /\ UNCHANGED <<file, log, memtable, pos>>

\* The first n bytes of the buffer reach the file.
Reaches(n) ==
    /\ file' = file \o SubSeq(buffer, 1, n)
    /\ log' = IF n = 0 THEN log
              ELSE Append(log, IF n = Len(buffer) THEN rec ELSE Torn)

Sync ==
    /\ pc = "sync"
    /\ Reaches(Len(buffer))
    /\ buffer' = <<>>
    /\ pc' = "apply"
    /\ UNCHANGED <<rec, memtable, pos>>

Apply ==
    /\ pc = "apply"
    /\ memtable' = Replayed(rec.op, rec.key, rec.value)
    /\ rec' = NoRecord
    /\ pc' = "idle"
    /\ UNCHANGED <<file, log, buffer, pos>>

\* A flush ends: the MemTable is in an SSTable, the next segment is empty.
Rotate ==
    /\ pc = "idle"
    /\ memtable.data # Cleared.data
    /\ file' = <<>> /\ log' = <<>>
    /\ memtable' = Cleared
    /\ UNCHANGED <<buffer, rec, pos, pc>>

\* Of a record in the buffer any part may have reached the file.
Crash ==
    /\ pc # "down"
    /\ \E n \in 0..Len(buffer) : Reaches(n)
    /\ buffer' = <<>> /\ rec' = NoRecord
    /\ memtable' = Cleared
    /\ pos' = 0
    /\ pc' = "down"

Next ==
    \/ Reopen \/ ReplayRecord \/ ReplayEnd \/ OpenWal
    \/ \E r \in Records : AppendRecord(r)
    \/ Sync \/ Apply \/ Rotate
    \/ Crash

Spec == Init /\ [][Next]_vars

-----------------------------------------------------------------------------
(* What the engine relies on.                                              *)

\* bytes_ is the size of the contents after any sequence of writes, deletes and
\* replayed records, so that a MemTable is flushed when it is full and not later;
\* in particular it never wraps below zero.
BytesExact == memtable.bytes = Size(memtable)

\* The segment and the MemTable as LsmTables sees them.
Strings == UNION {[1..n -> Byte] : n \in 0..(Weight[LenBytes] - 1)}

L == INSTANCE LsmTables WITH Key <- Keys, Value <- Strings

ASSUME SentinelsAssumption ==
    /\ Tombstone \notin Strings
    /\ NoEntry \notin Strings \cup {Tombstone}
    /\ Torn \notin Records \cup L!Record

EntryIn(op, v) == IF op = PutOp THEN v ELSE Tombstone

AbstractLog ==
    [i \in DOMAIN log |->
        IF log[i] = Torn THEN Torn
        ELSE [key |-> log[i].key, entry |-> EntryIn(log[i].op, log[i].value)]]

View ==
    [k \in Keys |->
        IF ~ Knows(memtable, k) THEN NoEntry
        ELSE IF memtable.data[k].tombstone THEN Tombstone
        ELSE memtable.data[k].value]

\* A replay of the bytes finds what LsmTables says a replay of the records may
\* find: all of them, without one the crash cut.
ReplaysAsLsmTables == pc = "recovered" => View \in L!Replays(AbstractLog)

\* After recoveries from any cuts, as long as nothing was appended behind one,
\* the MemTable holds what a replay of its segment would yield.
MemTableMatchesSegment ==
    (pc = "idle" /\ ~ L!BuriedTear(AbstractLog)) => View = L!Replay(AbstractLog)
=============================================================================
