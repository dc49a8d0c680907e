# Verification of the key-value store

TLA+ modules, model-checking configurations and machine-checked proofs for the
LSM-tree key-value store in `src/` (its code), `include/` (its headers),
`ARCHITECTURE.md`, `README.md` and `GUIDE.md` of this repository. Paths below
are relative to the root of the repository.

## 1. The system

| Component | Code | State | Operations |
|---|---|---|---|
| Storage engine | `src/db.cpp`, `include/db.h` | `memtable_`, `wal_`, `sstables_` (newest first), `next_sst_id_`, `current_wal_id_`, `manifest_gen_`, `wal_replayed_`, lock `mu_` | constructor (recovery), `put`, `del`, `get`, `flush_memtable`, `compact`, `stats`, destructor |
| Write-ahead log | `src/wal.cpp` | segments `wal_N.log`, sealed segments `wal_N.log.done`, a `FILE*` with its buffer | open to append, `append`, `sync`, `replay` |
| SSTable | `src/sstable.cpp` | immutable files `sst_N.sst`; in memory a sparse index, a Bloom filter, two offsets | `build`, open (`load_meta`), `lookup`, `scan_all` |
| MANIFEST | `src/manifest.cpp` | `MANIFEST`, `MANIFEST.tmp`: a generation and the list of live SSTables | `exists`, `read`, `write` |
| MemTable | `src/memtable.cpp` | sorted map of entries and tombstones, `bytes_` | `put`, `del`, `get`, `raw`, `clear` |
| Bloom filter | `src/bloom.cpp` | a bit array whose size is a power of two | construction, `add`, `may_contain`, reading back |
| REPL, tests, benchmarks | `src/main.cpp`, `src/test_crash.cpp`, `src/bench.cpp` | none of the store's | call the engine |

How they interact:

* A write appends a record to the active segment, syncs it, applies it to the
  MemTable, and perhaps flushes; a flush of a write may be followed by a
  compaction. All of it happens in the caller's thread under the exclusive lock.
* A flush builds an SSTable from the MemTable, commits it with the MANIFEST,
  seals the segment by renaming it, goes on with a new segment, clears the
  MemTable and deletes the sealed segment.
* A compaction flushes, merges all SSTables oldest first, drops tombstones,
  commits the merged SSTable with the MANIFEST and deletes the old files.
* A lookup asks the MemTable and then the SSTables, newest first, and stops at
  the first that knows the key, by a value or a tombstone. It holds the lock in
  shared mode, and so does `stats`. In an SSTable it asks the Bloom filter, then
  the sparse index, and then reads entries from the point the index gives.
* Recovery removes `MANIFEST.tmp` and sealed segments, loads the SSTables of the
  MANIFEST (or scans the directory), removes orphans, replays every segment
  oldest first and opens the active one.

What is hard to get right, and hard to test: a crash between any two of these
steps and a recovery that crashes too; numbers of SSTables and segments that are
computed again after a crash and must not collide; calls that throw half-way and
leave an object that goes on; file system errors that the code does not look at;
a log whose last record was cut, at any byte; readers that look at several
places while writers wait; boundaries of the sparse index; counters and sizes
that are kept by differences or cut to 32 bits. `PROJECT.json` lists these hazards by line.

What makes each component correct:

* engine: an acknowledged write survives (`db.h`, durability contract); reads
  agree with what a restart would find; nothing in use is deleted and nothing
  out of use stays; every call ends;
* log: replay yields the records acknowledged, and no others;
* SSTable: `lookup` and `scan_all` agree with the map it was built from, and the
  file of a listed SSTable never changes;
* MANIFEST: there is always a whole one, or else the directory alone is enough to
  find what was written; its generation grows;
* MemTable: the last write on a key wins, `bytes_` is the size of its contents;
* Bloom filter: no key that was added is reported absent, and the filter read
  from the file is the one that was written;
* lock: a call is alone while it changes the store, a reader sees one moment,
  an exception releases it, nobody waits for a lock that nobody holds.

## 2. Modules

| Module | What it is |
|---|---|
| `LsmTables` | The data: tables (what MemTable, SSTable and replay have in common), logs with cut records, lookups through layers, directories as functions from numbers to contents. No state. |
| `KVStore` | The engine with its files, as a state machine: one action per step between two effects on the disk, plus the crash. |
| `DurableMap` | The promise: a map with one write in flight that survives crashes. |
| `KVStoreProperties` | `Get`, `Recoverable` (what a client would read after a restart) and the properties. Instantiates `DurableMap` with `store <- Recoverable`, `pending <- rec`, `landed <- pc = "apply"`. |
| `MCKVStore` | Bounds for TLC. |
| `LsmTablesProofs` | Lemmas on tables, replays and lookups, which the proofs below cite. |
| `KVStoreProofs` | Inductive invariants and theorems about the files. |
| `DurabilityProofs` | What a restart would find, through every step: durability and the agreement of reads with the disk. |
| `GracefulProofs` | The refinement of `DurableMap` by a store that is closed before its process ends. |
| `UpkeepProofs` | Nothing is left behind in the directory, and a write leaves room for the next. |
| `LinearizableMap` | The promise to threads: every `put`, `del` and `get` takes effect at one moment between its call and its return. |
| `StoreThreads` | `KVStore` shared by threads: the lock `mu_`, `get` layer by layer, `stats` field by field. Extends `KVStore`: each of its steps is one of `KVStore` or leaves it alone. |
| `StoreThreadsProperties` | Its properties. Instantiates `LinearizableMap` with `store <- Recoverable` and the answer each call has settled on. |
| `StoreThreadsProofs` | Inductive invariants and theorems about the lock and the readers, and the refinement of `LinearizableMap` by the store with its threads. |
| `MCStoreThreads` | Bounds for TLC. |
| `MemTable` | `data_` and `bytes_` under `put`, `del` and `clear`, on strings of bytes. No state of its own. |
| `WriteAhead` | One WAL segment byte by byte with the MemTable it stands for: append, sync, crash, replay, appending behind a cut. Instantiates `LsmTables` to compare with the record view that `KVStore` has. |
| `WriteAheadProofs` | Theorems about the bytes of a segment and the MemTable. |
| `MCWriteAhead` | Bounds for TLC. |
| `BloomFilter` | Size, probes, bits, and the section of the file. No state of its own. |
| `SSTableFile` | One SSTable: the cells of the file that `build` writes, `load_meta`, `lookup` and `scan_all` entry by entry. |
| `SSTableFileProofs` | Theorems about the file, its index and its filter. |
| `MCSSTableFile` | Keys and hash functions for TLC. |

`StoreThreads` is the composition of the engine and its callers. `WriteAhead`
and `SSTableFile` are the two data formats below the engine; each shows that
what `KVStore` takes a segment or a file for is what the code makes of it.

### State and actions of `KVStore`

On disk: `manifest` (a record, or `Nil`), `manifest_tmp`, `sst_files`,
`wal_files` (functions from the number in the file's name), `done_files`. The
object: `memtable`, `sstables` (numbers, newest first), `next_sst_id`,
`current_wal_id`, `manifest_gen`, `wal`. The thread that holds `mu_`: `pc`,
`call`, and the locals of the call (`rec`, `ret`, `done_seg`, `merged`, `todo`,
`segs`). `wal_replayed_` is a statistic and left out.

| Code | Actions |
|---|---|
| `DB::DB`, `DB::recover` | `Open`, `RemoveTmp`, `RemoveDone`, `LoadListed` / `LoadScanned` / `LoadFails`, `RemoveOrphans`, `ReplayNext`, `OpenWal` / `OpenWalFails` |
| `update_manifest_locked`, `Manifest::write` | `WriteManifest`, `RenameManifest`, `RetryRename`, a subroutine of recovery, flush and compaction that returns to the step in `ret` |
| `put`, `del` | `Write`, `SyncWal`, `ApplyWrite` |
| `flush_memtable_locked` | `FlushBuild`, `FlushWrite`, `SealWal`, `NextWal`, `DropDone` |
| `flush_memtable`, `compact`, `~DB` | `FlushMemtable`, `Compact`, `Close` start them |
| `compact_locked` | `MergeNext`, `CompactBuild`, `CompactWrite`, `DropOld`, `CompactEnd` |
| an exception | `Unwind`: to the caller; out of the constructor or destructor, the object is gone |
| the end of the process | `Crash`, from every step |

A write is acknowledged, for the properties, when `ApplyWrite` is done, which is
before the flush it may cause: earlier than the code returns, hence stronger.

For `KVStore` alone `get` is one step (the operator `Get`): it holds the shared
lock for all of its work and nothing it reads changes under a shared lock, which
is what `StoreThreads` shows. `Get` and `Recoverable` are computed from the state
alone and take no part in it.

The constant `Faults` says which calls of the file system may fail (`FaultKinds`
lists them): a run takes the set whose failures its properties withstand.
`wal_open` and `wal_read` are two calls on one file, by `WAL::WAL` and by
`WAL::replay`: the first throws, the second is silent, and `Readings` then lets
`ReplayNext` find an empty table. `manifest_replace` is a rename that is refused
because a MANIFEST is there, which is what the fallback of `Manifest::write` is
for (`src/manifest.cpp:71`); `manifest_rename` is one that may fail each time.
`sst_lookup` matters to `StoreThreads` only. The operators whose comment
begins with `Mutant:` take no part in the specification. Each is the body of the
operator that follows it with a plausible mistake; with it in place, a property
of a run must fail.

### State and actions of `StoreThreads`

`asked` is the call each thread is in, `mode` how it holds `mu_`, `seen` what a
`get` or `stats` has read so far. All variables of `KVStore` are the object's.

| Code | Actions |
|---|---|
| a public method is called | `Ask` |
| `std::unique_lock` is granted | `LockExclusive`, together with the first step of the call; `flush_memtable` and `compact` that have nothing to do return at once |
| the body of `put`, `del`, `flush_memtable`, `compact` | `Run`: a step of `KVStore`; the step that ends the call, also by an exception, releases the lock |
| `std::shared_lock` is granted | `LockShared` |
| `get`: `raw`, then `lookup` file by file; `stats`: a field | `Look`: with `sst_lookup` in `Faults`, a file may be found to know nothing (`Shown`) |
| the end of `get` and `stats` | `Unlock` |
| constructor and destructor, which take no lock | `Owner`; the destructor runs when no call is under way. Out of a destructor, which is `noexcept`, an exception ends the process (`Terminates`): such a step is a crash, and not one of `Owner` |

### State and actions of `WriteAhead`

`file` is the segment's bytes, `buffer` what stdio holds back, `memtable` the
MemTable with `bytes_`, `pos` the reader's place. `log` is the same segment as
`KVStore` sees it, kept for comparison.

| Code | Actions |
|---|---|
| `recover`, `WAL::replay` | `Reopen`, `ReplayRecord` for each record that `rstr` can read, `ReplayEnd` |
| `WAL::WAL` on an existing file | `OpenWal` |
| `put`, `del`: `append`, `sync`, `MemTable::put` or `del` | `AppendRecord`, `Sync`, `Apply` |
| the rotation at the end of a flush | `Rotate` |
| the end of the process, with any part of the buffer in the file | `Crash` |

### State and actions of `SSTableFile`

`table` is the map given to `build`, `hash` the hash function, `file` the cells
on disk, `index`, `bloom`, `bloom_offset` the object's members, `key`, `at`,
`result`, `scanned` the locals of `lookup` and `scan_all`.

| Code | Actions |
|---|---|
| `build` | `Build` (`Layout`), or an empty file when nothing could be written |
| `load_meta` | `LoadMeta`; `LoadNothing` without a footer; `LoadRefused` when `BloomFilter` throws |
| `lookup` | `Lookup` (filter and index), `Search` for each entry |
| `scan_all` | `ScanAll`, `ScanNext` for each entry, `ScanEnd` |

### Abstractions

* A key, a value, a record is one element of a small set; sizes are counted with
  one byte for a key and one for a value.
* In `KVStore` a segment is a sequence of records. `Torn` stands for the remains
  of one that a crash cut. Replay stops at it. Behind it, once records have been
  appended, the reader is out of step, and `Replays` lets what it finds be any
  table over the records in front. `WriteAhead` is the reason for that width: the
  bytes of one record can be read as several others.
* `WriteAhead` has bytes of `Base` values and lengths of `LenBytes` bytes, lowest
  first. Its keys and values are shorter than the largest length, as
  `LengthsAssumption` says; the code does not check that.
* In `SSTableFile` an offset counts cells and a key is a number, given to the
  filter by any of the `Hashes`. A file that a failed write left is either whole
  or empty: a cut one has two offsets made of whatever bytes come last, and what
  is read then is not modelled.
* The sum of a probe wraps at 2^64 in the code; the size of a filter is a power
  of two below that, so it makes no difference to the position.
* `StoreThreads` leaves out crashes, which end all threads at once and are
  `KVStore`'s, and the call that writes to a null `wal_`.
* SSTables are numbered below `NameLimit`, 1,000,000 in every run. There
  `sst_%06llu.sst` gets longer, and the names that a scan of the directory sorts
  as strings (`src/db.cpp:76-79`) are no longer in the order of the numbers;
  below it the two orders are the same, and `NameOrder` uses that of the numbers.
  `BuildSst` has the bound as a guard, so the theorems speak of no store beyond it.
* A crash ends the process; what was given to the file system stays. This is the
  crash of `src/test_crash.cpp` (`_exit`), not a loss of power.
* In `KVStore` an SSTable file is the table in it; under construction, or damaged by a failed
  write, it is empty.
* An update of the MANIFEST that fails throws. An error of the stream that shows
  only at its close, which the code does not see, is not modelled.
* `put` on a null `wal_` (after a flush that could not open its next segment)
  dereferences null; that outcome is a `Crash`, and the write never begins.

## 3. Properties and runs

`Clean` holds while no segment has a record behind a cut one (`NoBuriedTear`)
and no segment but the active one has records (`NoLeftover`). Findings 1 and 2 of
section 4 are the two ways a working file system leads out of `Clean`; without
it nothing could be said about all the rest of the engine. What happens outside
`Clean`, as after a seal that failed and newer data, is left to these two
findings: `DurableWhileClean` and `ReadsMatchDisk` do not speak of it.

| Property | States |
|---|---|
| `NoAckedWriteLost` | The engine implements `DurableMap`: refinement, through every step of recovery, flush and compaction. |
| `DurableWhileClean` | The same for each step between clean states: no such step of any actor changes what a restart would find, except a write that lands once. |
| `ReadsMatchDisk` | Between calls, in clean states, `get` returns what a restart would find. |
| `SegmentMatchesMemTable` | Between calls the MemTable is the replay of the active segment, so that sealing loses nothing. |
| `ManifestSound` | Every SSTable the MANIFEST lists is on disk. |
| `CommittedTablesImmutable` | The file of a listed SSTable does not change, so no number is used twice. |
| `NewestFirst` | The lists are newest first and below the next number. |
| `FreshSegment` | A flush goes on with an empty segment. |
| `NoGarbage` | Between calls the directory holds what is in use, and nothing else but segments. |
| `GenerationGrows` | A MANIFEST that replaces another has a higher generation, also after updates that failed when it was counted. |
| `WriteLeavesRoom` | A write that returns leaves the MemTable below its limit, as `ARCHITECTURE.md:54` has it and not `db.h:53` (section 4), and the SSTables below theirs. |
| `CallsReturn` | Every call ends. |
| `Linearizable` | The store with its threads implements `LinearizableMap`: refinement. A `get` that looks at layer after layer answers with what the key had at one moment, after every write that returned before it began. |
| `NothingMovesUnderReaders` | While a reader is inside, the MemTable, the list and the files do not change. |
| `StatsOfOneMoment` | What `stats` has read so far are fields of one state. |
| `LockInv` | A call changes the store exactly while one thread holds the lock exclusively, alone; exceptions release it. |
| `CallsLeave` | A thread that got the lock leaves it: no call waits for a lock it holds itself. |
| `WaitsOnlyForOthers` | A thread waits for ever only while others get the lock again and again. |
| `BytesExact` | `bytes_`, kept by differences, is the size of the contents. |
| `ReplaysAsLsmTables` | The reader of the bytes finds what `LsmTables!Replays` says of the records. |
| `MemTableMatchesSegment` | Through recoveries from any cut, until something is appended behind one, the MemTable is the replay of the segment. |
| `LookupAgrees` | `lookup` in the file answers as the map it was built from. |
| `ScanAgrees` | A `scan_all` that returns has read every entry once, in order, tombstones as tombstones. It returns nothing only for a table without entries or a file that was not written. |
| `FilterReadsBack` | The filter read is the filter written; a file is refused only when the size of its filter does not fit into the field. |
| `LookupIsShort` | A lookup reads the entries of one stride and at most one more: the bound that holds, and not that of `ARCHITECTURE.md` (section 4). |

| Run | Configuration | Bounds | States | Shows |
|---|---|---|---|---|
| `crashes` | `MCcrashes.cfg` | 1 key, 1 value, flush at 2 bytes, 5 SSTable numbers, 2 records per segment, `Faults = {"torn", "manifest_replace"}` | 561,479 | With crashes anywhere and a file system that works, or refuses to rename over a file, so that recovery may find no MANIFEST: `ReadsMatchDisk`, `SegmentMatchesMemTable`, `NoGarbage`, `DurableWhileClean` |
| `keys` | `MCkeys.cfg` | 2 keys, flush at 3 bytes, no crash, no fault | 113,590 | `NoAckedWriteLost`, `WriteLeavesRoom` over clean shutdowns and reopenings |
| `faults` | `MCfaults.cfg` | as `crashes` with 4 numbers; `remove`, `seal`, `sst_create`, `wal_open`, `manifest_write` may fail | 938,268 | `ReadsMatchDisk`, `DurableWhileClean` after every exception |
| `files` | `MCfiles.cfg` | 3 numbers, 1 record per segment, two segments in use, all faults but `sst_lookup`, which no step of `KVStore` meets | 161,310 | `TypeOK`, `ManifestSound`, `NewestFirst`, `FreshSegment`, `CommittedTablesImmutable`, `GenerationGrows`, `CallsReturn` |
| `threads` | `MCthreads.cfg` | 3 threads (two write, two read, one does both), 1 key, 1 value, 4 SSTable numbers, 2 records per segment, `Faults = {"sst_create"}` | 41,931 | `Linearizable`, `NothingMovesUnderReaders`, `StatsOfOneMoment`, `LockInv`, `CallsLeave`, `WaitsOnlyForOthers` |
| `wal` | `MCwal.cfg` | bytes of one bit, lengths of two bytes, keys of 1 and 2 bytes, values of 0 and 3, 3 records | 146,662 | `BytesExact`, `ReplaysAsLsmTables`, `MemTableMatchesSegment` |
| `sstable` | `MCsstable.cfg` | 6 keys, stride 2, 3 hash functions, 3 probes, filter sizes 4 to 32 with at most 31 in the file | 107,019 | `LookupAgrees`, `ScanAgrees`, `FilterReadsBack`, `LookupIsShort` |
| `leftover`, `torn`, `walsync`, `swap`, `merge` | `V*.cfg` | small | | the findings of section 4 |

Why the bounds are enough for what they show. With one key there are three
entries (value, tombstone, none), which is all that the merge, the drop of
tombstones and the first hit of a lookup tell apart for a key; keys meet only in
the size of the MemTable and in the order of records, which `keys` covers with
two. Three SSTable numbers are a flush, a second flush and their compaction; the
fourth and fifth are a flush on top of a compacted tree, with a crash burning a
number in between. Crashes are not counted: any number happens. `MaxUsed` stops a
store that has left too many segments in use from being opened again.
Deadlock is not checked in these runs because the bounds stop the clients.

`threads`: two writers and a reader that hold or wait for the lock are the
smallest set in which a waiting writer meets a reader and another writer. One
thread may do both, so that it reads after its own write. A write, a flush and a
compaction with two SSTables fit into the bounds; a call that may build SSTables
begins only while numbers are left for it and all others under way, so that no
call is stopped half-way, and deadlock is checked.

`wal`: with lengths of two one-bit bytes the value of three bytes is the longest
that the field can hold, and each byte of a record can be taken for an op, a part
of a length or a letter. Three records are one in front of a cut, the cut one and
one behind. Deadlock is checked.

`sstable`: with a stride of two, tables of up to six entries have up to three
index points and end on, before and behind one; lookups of the keys that are not
in a table fall in front of, between and behind the points. The hash functions
put all keys on the same bits, each on its own, and some together. Tables of six
keys need a filter of 32 bits, which the field of the file cannot hold: that is
the filter of 2^32 bits in the code, which 9.6 bits per key, rounded up to a power
of two, reach with some 224 million keys. A file that is
refused has no object, hence deadlock is not checked.

Fairness: `FairSpec` assumes `WF_vars(Step)`, that the thread inside a call is
scheduled until the call is over. It has the lock, no step waits for another
thread, and the code has no other condition to wait for. Nothing is assumed of
the clients, nor that a failing call succeeds in the end.

`FairThreadsSpec` assumes weak fairness of `Inside(t)`, that a thread which holds
the lock is scheduled, and of `Lock(t)`, that a thread which waits for a lock that
stays free gets it. Both are what an operating system and `std::shared_mutex`
promise. Strong fairness of `Lock(t)` is not assumed: the standard says nothing of
the order, and a writer may starve behind readers that follow each other.
`WaitsOnlyForOthers` says that this is the only way to wait for ever. Nothing is
assumed of callers: a thread may never call again.

Soundness of the bounds for `CallsReturn`: they stop only the beginning of a
call, never a step of one.

## 4. Findings

1. **A segment left behind is replayed over newer data** (`leftover`;
   `src/db.cpp:120`). Recovery replays `wal_N` and goes on with
   `max(N, next_sst_id_)`. When the two differ, which takes only a crash between
   the MANIFEST commit and the seal of a flush, or one after a compaction or an
   interrupted build used up a number, nothing ever seals `wal_N`: the flush
   that stores its records seals the segment that is open. Every later recovery
   replays it over whatever was flushed since. The same behaviour was reproduced
   with the program: put an old value after a compaction, end the process,
   reopen, put a new value and flush, end the process, reopen: the old value is
   read. `README.md:9` ("no acknowledged write is ever lost") and
   `ARCHITECTURE.md:210` ("harmless duplicates") say otherwise.
2. **Records are appended behind a cut one** (`torn`; `src/wal.cpp:38`). The
   torn record is dropped, as `wal.h:44` says, but not cut off; what is written
   after the recovery lies behind it and is not found by the next.
3. **A failed sync is acknowledged** (`walsync`; `src/wal.cpp:56`), against
   `db.h:20`.
4. **A failed compaction empties the list** (`swap`; `src/db.cpp:284`): the list
   is cleared before the merged SSTable is opened, and stays empty when that
   throws.

5. **A merge deletes what it could not read** (`merge`; `src/sstable.cpp:185`).
   `scan_all` of a file that cannot be opened, say for want of a file descriptor,
   is empty; the compaction commits a merge without its entries and removes it
   (`src/db.cpp:295`), against `README.md:9` and `db.h:21`.

Also seen in the code, without a run of its own:

* `WAL::replay` takes a failing `fopen` for a segment that is "empty or
  non-existent" (`src/wal.cpp:62`); recovery found it in the directory, goes on
  without its records, and the next flush seals and deletes it unread, against
  `README.md:9`. The fault `wal_read` models it; with it, `SegmentMatchesMemTable`
  and, with two keys, `DurableWhileClean` are violated.
* A lookup that cannot open its file says "not found" (`src/sstable.cpp:159`),
  and `get` goes on to older data, also behind a tombstone, against
  `sstable.h:20`. The fault `sst_lookup` models it; with it, `Linearizable` is
  violated.
* `SSTable::build` ignores write errors before the log is given up
  (`src/sstable.cpp:93`), and `Manifest::write` looks at its stream before the
  stream is flushed (`src/manifest.cpp:59`).
* The fallback of a refused rename removes the MANIFEST first
  (`src/manifest.cpp:72`), so that a crash before the second rename leaves none.
  `manifest.h:14` says that the previous one is intact then. When the second
  rename succeeds or the process ends before it, a scan of the directory finds
  the same data: `crashes` shows it. When it fails and the process goes on,
  SSTables stay in the directory that no list has, and after another loss of the
  MANIFEST a deleted key can come back; when the removal of such an SSTable fails
  too, it can hide a newer value.

Where documents and code disagree, and the properties follow the code:

* The MemTable is flushed "once it exceeds this many bytes" for `db.h:53`, and
  when it has reached them for `ARCHITECTURE.md:54` and for the code
  (`src/db.cpp:245`), which `WriteLeavesRoom` follows.
* A lookup reads at most 16 entries for `ARCHITECTURE.md:126` and `:325`. For a key
  that is not there, behind the last entry of a stride, and that the filter lets
  pass, the code reads 17: only the first entry of the next stride ends the search
  (`src/sstable.cpp:174`). `LookupIsShort` therefore says one stride and one more.
* `fnv1a_a` and `fnv1a_b` have the same constants, written in decimal and in
  hexadecimal (`src/bloom.cpp:20` and `:26`, against the comment on line 18).
* A new store reports generation 1, where `GUIDE.md:118` shows 0.
* `compact()` with one SSTable does not even flush (`src/db.cpp:258`), and
  compaction runs in the writer's thread, where `GUIDE.md:179` says in the
  background.

## 5. Proofs

Each theorem holds for all sets of keys and values, all options and, where the
store has threads, any set of threads. The last column says which calls of the
file system may fail; a crash may come at any step of `KVStore` in all of them.

| Theorem | Module | Property | Failures |
|---|---|---|---|
| `TypesCorrect` | `KVStoreProofs` | `TypeOK` | any |
| `ManifestAlwaysSound` | `KVStoreProofs` | `ManifestSound` | any |
| `AlwaysNewestFirst` | `KVStoreProofs` | `NewestFirst` | any |
| `CommittedTablesNeverChange` | `KVStoreProofs` | `CommittedTablesImmutable` | any |
| `FlushFindsFreshSegment` | `KVStoreProofs` | `FreshSegment` | any |
| `GenerationAlwaysGrows` | `KVStoreProofs` | `GenerationGrows` | any |
| `SegmentAlwaysMatchesMemTable` | `DurabilityProofs` | `SegmentMatchesMemTable` | any but `wal_write`, `wal_read` |
| `ReadsAlwaysMatchDisk` | `DurabilityProofs` | `ReadsMatchDisk` | `Tolerated` |
| `DurableWhileAlwaysClean` | `DurabilityProofs` | `DurableWhileClean` | `Tolerated` |
| `GracefulIsDurable` | `GracefulProofs` | `NoAckedWriteLost`, of `GracefulSpec` | `Silent` |
| `NothingIsLeftBehind` | `UpkeepProofs` | `NoGarbage` | any but `Untidy` |
| `WritesAlwaysLeaveRoom` | `UpkeepProofs` | `WriteLeavesRoom`, for finitely many keys | any |
| `LockIsHeld` | `StoreThreadsProofs` | `LockInv` | any |
| `ReadersSeeNothingMove` | `StoreThreadsProofs` | `NothingMovesUnderReaders` | any |
| `StatsAreOfOneMoment` | `StoreThreadsProofs` | `StatsOfOneMoment` | any |
| `ThreadsSeeOneMap` | `StoreThreadsProofs` | `Linearizable` | `Benign` |
| `BytesAreExact` | `WriteAheadProofs` | `BytesExact` | a crash cuts a record at any byte |
| `BytesReplayAsRecords` | `WriteAheadProofs` | `ReplaysAsLsmTables` | a crash cuts a record at any byte |
| `MemTableIsReplayable` | `WriteAheadProofs` | `MemTableMatchesSegment` | a crash cuts a record at any byte |
| `LookupsAgree` | `SSTableFileProofs` | `LookupAgrees` | the file is not written |
| `ScansAgree` | `SSTableFileProofs` | `ScanAgrees` | the file is not written |
| `FiltersReadBack` | `SSTableFileProofs` | `FilterReadsBack` | the file is not written |
| `LookupsAreShort` | `SSTableFileProofs` | `LookupIsShort` | the file is not written |

"Any" is any set of `FaultKinds`. SSTables are numbered below `NameLimit` in all
of them; `AlwaysNewestFirst` is the one that fails in the code beyond it, after
a scan of the directory.

Assumptions on the constants: `EntryAssumption`, `TornAssumption`,
`OptionsAssumption`, `NameAssumption`, `FaultsAssumption`, `NilAssumption`,
`CallerAssumption` (constants that must differ do, options and `NameLimit` are
natural numbers), for the log
`BytesAssumption`, `StringsAssumption`, `LengthsAssumption` and
`SentinelsAssumption` (a byte has at least two values, a length at least one
byte; keys and values are strings of bytes and their lengths fit; what stands for
no entry, a tombstone or a cut record is none), and for the file
`FileAssumption` and `BloomAssumption` (finitely many keys, a stride that is not
zero, the smallest filter and the width of its field powers of two: 64 and 2^32),
stated where the constants are declared and evaluated by TLC in every run that
has them.

The sets of failures are as wide as those of `FaultKinds` that a property
withstands: with any one more, the engine has a behaviour that violates it (for
`manifest_replace` and durability a failed update of the MANIFEST, two
compactions and a crash in the fallback of a later one; with nothing else
failing, `manifest_replace` does no harm, as `crashes` shows). The exception is
`sst_lookup`: no step of `KVStore` depends on it, and it is left out because `Get`
and `Recoverable` take every file for readable.

* `Tolerated` is `torn`, `remove`, `wal_open`, `seal`, `sst_create`,
  `manifest_write`. Of the others, `wal_write` is finding 3, `sst_open` finding
  4, `sst_read` finding 5, `wal_read` lets recovery skip a segment, `sst_write`
  commits an SSTable that was not written, and `manifest_replace` and
  `manifest_rename` leave a moment without a MANIFEST, in which a scan of the
  directory brings back SSTables that an earlier compaction could not commit.
* `Benign` is `Tolerated` without `seal`: a seal that fails leaves a segment with
  records that no later flush seals, as in finding 1, so the store is not `Clean`
  when it is opened again.
* `Silent` is `torn`, `remove`, `wal_open`: what fails in silence, or throws when
  no segment has records that are in an SSTable too. Another exception in the
  destructor leaves records in a segment that is no longer the one in use, and
  the next process begins unclean. So `GracefulSpec`, whose process ends only in
  its constructor or destructor, keeps its promise over reopenings without such
  exceptions. `ThreadsSpec` needs no such bound: there an exception out of the
  destructor ends the process, and with it the behaviour.
* `Untidy` is `remove`, `wal_open`, `sst_open`, `manifest_write`,
  `manifest_rename`: the failures that leave a file until the next recovery, or
  a MANIFEST that is behind the object.

### The files

None of the properties is inductive. `FilesInv` adds what the code relies on
without saying it:

* `LocalsInv`: what a step takes its call's locals to hold (a record to write,
  a step to return to, segments that exist);
* `ListsInv`: memory and MANIFEST list files that exist, newest first, below
  the next number: `next_sst_id_` is above the MANIFEST once it is loaded;
* `CommittedInv`: at the steps that delete or seal (removal of orphans, seal,
  deletion of the merged files) memory and MANIFEST list the same SSTables.
  Without it the removal of orphans could delete a listed file;
* `BuildInv`: the SSTable under construction has a number above all listed;
* `DropInv`: a compaction deletes only what it has taken off the list.

Each has a lemma that every step preserves it. `CommittedTablesImmutable` follows
from the same invariant. `FreshSegment` needs `SegmentsInv` too: a segment's
number is at most one above an SSTable that recovery would find, so the numbers
that recovery computes lie above every segment, and the next flush finds none of
its number. `GenerationInv` keeps the counter from falling behind the MANIFEST.

### What a restart would find

`DurabilityProofs` compares what the object holds in memory with what the files
say, at every step and not only between calls:

* `TablesInv`. Where the MemTable does not know a key, the list in memory and the
  list of the MANIFEST show it alike (`AgreeInv`): they may differ by flushes and
  merges that did not reach the MANIFEST, and what such a flush wrote is still in
  the MemTable. Between the commit of a flush and its new segment the MemTable is
  in the SSTables too (`SavedInv`); without an active segment all of it is
  committed (`KeptInv`). The SSTables that a merge has still to visit, over what
  it has merged, show what the whole list shows (`MergeInv`);
* `LogsInv`. The MemTable is the replay of the active segment, but for the record
  that was written and not yet applied (`ActiveLogInv`); without an active
  segment no segment says otherwise than the MemTable (`SealedLogInv`); recovery
  has in the MemTable what it has replayed (`RecoverInv`).

From both follows `ServedInv`: in clean states, what the object answers is what a
restart finds.

The lemmas of `LsmTablesProofs` carry the data: a replay of a log with one more
record is the replay with that record on top; a table put in front of the layers
that hold it changes no lookup, which is why a segment may be replayed over the
SSTable that was made of it; the merge of the layers shows what the layers show;
tombstones may be dropped only from the oldest. `DurableWhileClean` is then one
case per action: each step either leaves `Recoverable` alone or lands the write
in flight. `SegmentMatchesMemTable` is a part of `LogsInv`.

### A store that is closed

`DurableWhileClean` speaks of steps between clean states. `GracefulIsDurable` has
no such condition, because `EmptiedInv` shows that a store which is closed before
its process ends is always clean: only the active segment has records, none is
cut, and no segment has any when the object is gone, when no segment is active,
and when a flush has just gone on with a new one. It rests on `ClosesInv`, that
an exception in the destructor comes after the seal, if at all, and this on
`ThrowInv`, which says where exceptions come from.

### Upkeep

`NoGarbage` needs the files in use at each step of a flush or a compaction, and
at the end of each that the rest is gone: `UpkeepInv`. Its `Unfailing` says why
the fallback of a refused rename always succeeds: the MANIFEST is gone by then. `WriteLeavesRoom` needs
`MergedInv`, that a compaction ends with one SSTable, and that a MemTable over
finitely many keys is measured by a number.

### Threads

`ThreadsStepIsStoreStep` shows that every step of `StoreThreads` is one of
`KVStore` without its crash, or leaves its variables alone. So
`ThreadsImplementStore`, `ThreadsSpec` implies `Spec`, and all the invariants
above hold with threads too. `LockInv` is not inductive, because it says nothing
of constructor, destructor and the threads outside. `ThreadsInv` adds
`BetweenCalls` (no call runs before one begins and after it ends, which `StepFacts`
gets from the steps of `KVStore`), `ObjectThere` (threads are in a call only while
the object is there) and `InsideAsked`. From it follows `ReaderStopsOthers`: a
step taken while a reader is inside leaves the whole store alone.
`ReadersSeeNothingMove` is that lemma; `StatsAreOfOneMoment` needs it together
with `StatsInv`, that what a call of `stats` has read is the front of the fields
of the present state.

`ThreadsSeeOneMap` is the refinement of `LinearizableMap`. Its invariant adds
`CallerInv` (the record being written is that of the thread inside), `GetInv`
(a `get` has looked at the first layers, they still say what it saw there, and only
the last of them may know the key) and `EmptiedInv`, by which all states are
clean. `AnsweredInv` follows: a `get` that has found its answer has found what a
restart would. Each action of `StoreThreads` then is a call, a return,
the one moment of a call, or a stutter of the map.

### The bytes of a segment

`Inv` of `WriteAheadProofs` says what makes the two views of a segment one.

* `FileIsLog`: there are marks in the file, one in front of each record, between
  which stand the bytes of a record of `log`, or for `Torn` a part of some record
  that is not empty and not all of it. `FileStaysLog` shows that this holds
  whatever part of the buffer a crash leaves.
* `Reading`: the reader is `InStep`, at a mark with only whole records in front
  of it, and the MemTable is the replay of these; or it is `OutOfStep`, behind a
  cut that records were appended to, and the MemTable is some table over the
  replay. `InStepReads` carries it: in step, a whole record is read for what it is
  (`RecordRead`), and of a cut one at the end of the file either the key or the
  value cannot be read (`RecordCut`), wherever the cut is: behind the op
  byte, in a length, in the key or in the value. `AnyRecordRead` says that what is read
  out of step is still made of strings, which is all that `bytes_` needs.
* `Applying`, `Applied`: a write is in the segment before it is in the MemTable,
  and after `Apply` the two agree. A record appended behind a cut makes
  `BuriedTear` true for good, until a flush begins a new segment.
* `Exact`: `bytes_` is the sum of the sizes. `SetIsExact` has a case for a key
  that is known and one for a key that is new.

Two things that the libraries do not state are shown first, as elsewhere from
smallest counterexamples. `SumFunction` is a fold over a `CHOOSE` of the elements;
`SumsExist` gives the function it chooses, `SumWithout` that any element may be
added last. `LengthFromBytes` says that the bytes of a length stand for it, from
the digits of a number (`NextDigit`) and their bound (`BytesBelow`); this is where
`LengthsAssumption` is needed.

### SSTable

`LookupInv` holds of the file and its reader. `FileInv`: the object has read what
`build` wrote. `SearchInv`: a search has only keys below its own behind it, so
that it may stop at the first one above, and is within a stride of the last index
point that is not above its key. `ScanInv`: a scan has read the first entries of
the file, so that at the end of the data section it has read all of them
(`ScanReachesEnd`). For the filter, `NoKeyIsHidden` says that a key that was added is never
reported absent, and `FilterWrittenAndRead` that the size in the file gives the
size in memory again, because `next_pow2` leaves a power of two alone and a size
that does not fit is cut to 0. These rest on powers of two, where a smaller one
divides a larger one (`Pow2Divides`), and on sorting (`SortedFacts`). The provers
have no laws for either; both are shown without induction, from the smallest
counterexample (`SmallestNumber`) and by counting the keys below a key.

### Checked only by TLC

`CallsReturn`, `CallsLeave` and `WaitsOnlyForOthers`: liveness under fairness is
beyond the proof system. Every other property that a passing run checks is a
theorem, under the failures of the table above. Durability and the agreement of
reads with the disk under `manifest_replace` are only checked: a proof needs an
invariant about the SSTables that a crash can leave to a scan.

## 6. Not modelled, and the plan

Left to do: loss of power, that is files and directory entries that were not
synced, and with it the errors of a stream that show only at its close.

Not modelled within the components above: the text of the MANIFEST, the contents
of a cut SSTable file, file names (SSTables from number 1,000,000 on sort wrongly as
strings, without a MANIFEST: the model ends there), the counter `wal_replayed_`, the rate of false
positives.

Not to be modelled: the REPL, the benchmarks, the test driver and the build.
They keep no state of the store.
