------------------------------ MODULE KVStore ------------------------------
(***************************************************************************)
(* The storage engine of db.cpp: an LSM tree made of a MemTable, WAL       *)
(* segments, SSTables and a MANIFEST, step by step between two effects on  *)
(* the disk, with a crash of the process possible at each of them.         *)
(*                                                                         *)
(* One thread at a time is inside: every call that changes state holds the *)
(* lock mu_ exclusively for all of its steps.  pc says where that thread   *)
(* is, call which of the calls it runs.                                    *)
(*                                                                         *)
(* A crash is the end of the process (the _exit of the crash tests): what  *)
(* was handed to the file system stays, what was in memory is lost.        *)
(***************************************************************************)
EXTENDS LsmTables

CONSTANTS
    Nil,                   \* no MANIFEST; no write in flight
    FlushBytes,            \* Options::memtable_flush_bytes
    CompactionThreshold,   \* Options::compaction_threshold
    NameLimit,             \* the first number with more digits than %06llu pads to
    Faults                 \* the file system calls that may fail

FaultKinds ==
    { "torn",             \* a crash during write(2) leaves part of a record
      "remove",           \* remove() of any file
      "wal_open",         \* WAL::WAL cannot open its segment
      "wal_read",         \* WAL::replay cannot open the segment
      "wal_write",        \* the flush or fsync of WAL::sync
      "seal",             \* the rename of a segment to .done
      "sst_create",       \* SSTable::build cannot create its file
      "sst_write",        \* a write or the fsync of SSTable::build
      "sst_open",         \* SSTable::load_meta cannot open its file
      "sst_lookup",       \* SSTable::lookup cannot open its file
      "sst_read",         \* SSTable::scan_all cannot open its file
      "manifest_write",   \* writing MANIFEST.tmp
      "manifest_replace", \* a rename over a file that exists
      "manifest_rename"   \* any rename of MANIFEST.tmp
    }

Manifest == [generation : Nat, live : Seq(Nat)]

ASSUME OptionsAssumption == FlushBytes \in Nat /\ CompactionThreshold \in Nat
ASSUME NameAssumption    == NameLimit \in Nat
ASSUME FaultsAssumption  == Faults \subseteq FaultKinds
ASSUME NilAssumption     == Nil \notin Manifest \cup Record

VARIABLES
    \* on disk
    manifest,        \* MANIFEST, or Nil when there is none
    manifest_tmp,    \* MANIFEST.tmp
    sst_files,       \* sst_N.sst: N to the table in the file
    wal_files,       \* wal_N.log: N to the records in the segment
    done_files,      \* the N of the files wal_N.log.done
    \* the DB object
    memtable,        \* memtable_
    sstables,        \* sstables_: the numbers of the SSTables, newest first
    next_sst_id,     \* next_sst_id_
    current_wal_id,  \* current_wal_id_
    manifest_gen,    \* manifest_gen_
    wal,             \* wal_: null, or the active segment is open
    \* the thread that holds the lock
    pc,              \* the step it takes next
    call,            \* the public call it runs
    rec,             \* put(), del(): the record appended and not yet synced
    ret,             \* where it goes when the MANIFEST is written
    done_seg,        \* flush: the number of the sealed segment
    merged,          \* compaction: the merge so far
    todo,            \* compaction: the SSTables still to visit, in list order
    segs             \* recovery: the segments still to replay

meta   == <<manifest, manifest_tmp>>
logs   == <<wal_files, done_files>>
files  == <<meta, sst_files, logs>>
tree   == <<sstables, next_sst_id, manifest_gen>>
writer == <<memtable, current_wal_id, wal>>
object == <<tree, writer>>
locals == <<rec, ret, done_seg, merged, todo, segs>>
vars   == <<files, object, pc, call, locals>>

Calls == {"none", "open", "write", "flush", "compact", "close"}

Steps ==
    { "down", "remove_tmp", "remove_done", "load", "remove_orphans", "replay",
      "idle", "sync", "apply",
      "build_sst", "write_sst", "seal", "next_wal", "drop_done",
      "merge", "write_merged", "drop_old",
      "write_manifest", "rename_manifest", "retry_rename", "unwind" }

DiskTypes ==
    /\ manifest \in Manifest \cup {Nil}
    /\ manifest_tmp \in {"absent", "present"}
    /\ DOMAIN sst_files \subseteq Nat /\ sst_files \in [DOMAIN sst_files -> Table]
    /\ DOMAIN wal_files \subseteq Nat /\ wal_files \in [DOMAIN wal_files -> Log]
    /\ done_files \subseteq Nat

ObjectTypes ==
    /\ sstables \in Seq(Nat)
    /\ next_sst_id \in Nat
    /\ manifest_gen \in Nat
    /\ memtable \in Table
    /\ current_wal_id \in Nat
    /\ wal \in {"null", "open"}

ThreadTypes ==
    /\ pc \in Steps
    /\ call \in Calls
    /\ rec \in Record \cup {Nil}
    /\ ret \in {"none", "remove_orphans", "seal", "drop_old"}
    /\ done_seg \in Nat
    /\ merged \in Table
    /\ todo \in Seq(Nat)
    /\ segs \subseteq Nat

TypeOK == DiskTypes /\ ObjectTypes /\ ThreadTypes

-----------------------------------------------------------------------------
(* Between calls.                                                          *)

Init ==
    /\ manifest = Nil
    /\ manifest_tmp = "absent"
    /\ sst_files = NoFiles
    /\ wal_files = NoFiles
    /\ done_files = {}
    /\ sstables = <<>> /\ next_sst_id = 0 /\ manifest_gen = 0
    /\ memtable = EmptyTable /\ current_wal_id = 0 /\ wal = "null"
    /\ pc = "down" /\ call = "none"
    /\ rec = Nil /\ ret = "none" /\ done_seg = 0
    /\ merged = EmptyTable /\ todo = <<>> /\ segs = {}

\* No call runs, and nothing is left of its locals.
Leave ==
    /\ call' = "none"
    /\ rec' = Nil /\ ret' = "none" /\ done_seg' = 0
    /\ merged' = EmptyTable /\ todo' = <<>> /\ segs' = {}

\* The call ends and releases the lock.
Return == pc' = "idle" /\ Leave

\* The object goes away, by its destructor, an exception in the constructor,
\* or the end of the process.
Halt ==
    /\ pc' = "down"
    /\ Leave
    /\ sstables' = <<>> /\ next_sst_id' = 0 /\ manifest_gen' = 0
    /\ memtable' = EmptyTable /\ current_wal_id' = 0 /\ wal' = "null"

\* Control passes to the step p of the same call.
Goto(p) == pc' = p /\ UNCHANGED call

\* An exception leaves the step.
Throw == Goto("unwind") /\ UNCHANGED locals

\* It reaches the caller; one thrown in the constructor leaves no object, one
\* thrown in the destructor ends the process.
Unwind ==
    /\ pc = "unwind"
    /\ IF call \in {"open", "close"}
       THEN Halt
       ELSE Return /\ UNCHANGED object
    /\ UNCHANGED files

-----------------------------------------------------------------------------
(* update_manifest_locked and Manifest::write: steps shared by recovery,   *)
(* flush and compaction.  WriteManifest(p) calls it, to go on at p.        *)

\* Mutant: the update is left out.
UpdateManifestSkipped(p) == Goto(p) /\ UNCHANGED ret

UpdateManifest(p) == Goto("write_manifest") /\ ret' = p

\* Mutant: the generation is written before it is counted.
NextGenerationStale == manifest_gen

NextGeneration == manifest_gen + 1

WriteManifest ==
    /\ pc = "write_manifest"
    /\ manifest_gen' = NextGeneration
    /\ \/ /\ manifest_tmp' = "present"
          /\ Goto("rename_manifest")
          /\ UNCHANGED locals
       \/ /\ "manifest_write" \in Faults
          /\ manifest_tmp' \in {manifest_tmp, "present"}
          /\ Throw
    /\ UNCHANGED <<manifest, sst_files, logs, sstables, next_sst_id, writer>>

\* The file system may fail to remove what it is asked to.
Removed(content, absent) ==
    {absent} \cup (IF "remove" \in Faults THEN {content} ELSE {})

\* Mutant: the list of an earlier MANIFEST is written again.
CommitManifestOldList ==
    /\ manifest' = [generation |-> manifest_gen,
                    live |-> IF manifest = Nil THEN sstables ELSE manifest.live]
    /\ manifest_tmp' = "absent"
    /\ Goto(ret)
    /\ ret' = "none"

\* The commit point: MANIFEST.tmp becomes the MANIFEST.
CommitManifest ==
    /\ manifest' = [generation |-> manifest_gen, live |-> sstables]
    /\ manifest_tmp' = "absent"
    /\ Goto(ret)
    /\ ret' = "none"

RenameMayFail ==
    "manifest_rename" \in Faults \/ ("manifest_replace" \in Faults /\ manifest # Nil)

\* A failed rename removes the MANIFEST and tries again.
RenameManifest ==
    /\ pc = "rename_manifest"
    /\ \/ CommitManifest
       \/ /\ RenameMayFail
          /\ manifest' \in Removed(manifest, Nil)
          /\ Goto("retry_rename")
          /\ UNCHANGED <<manifest_tmp, ret>>
    /\ UNCHANGED <<sst_files, logs, object, rec, done_seg, merged, todo, segs>>

\* Mutant: it tries until it succeeds.
RetryRenameForever ==
    /\ pc = "retry_rename"
    /\ CommitManifest \/ (Goto("rename_manifest") /\ UNCHANGED <<meta, ret>>)
    /\ UNCHANGED <<sst_files, logs, object, rec, done_seg, merged, todo, segs>>

RetryRename ==
    /\ pc = "retry_rename"
    /\ CommitManifest \/ (RenameMayFail /\ Throw /\ UNCHANGED meta)
    /\ UNCHANGED <<sst_files, logs, object, rec, done_seg, merged, todo, segs>>

-----------------------------------------------------------------------------
(* DB::DB and DB::recover.                                                 *)

Open ==
    /\ pc = "down"
    /\ pc' = "remove_tmp"
    /\ call' = "open"
    /\ UNCHANGED <<files, object, locals>>

\* Step 1.
RemoveTmp ==
    /\ pc = "remove_tmp"
    /\ manifest_tmp' \in Removed(manifest_tmp, "absent")
    /\ Goto("remove_done")
    /\ UNCHANGED <<manifest, sst_files, logs, object, locals>>

\* Step 2, a file at a time; what could not be removed is left behind.
RemoveDone ==
    /\ pc = "remove_done"
    /\ \/ /\ \E id \in done_files : done_files' = done_files \ {id}
          /\ UNCHANGED <<pc, call>>
       \/ /\ done_files = {} \/ "remove" \in Faults
          /\ Goto("load")
          /\ UNCHANGED done_files
    /\ UNCHANGED <<meta, sst_files, wal_files, object, locals>>

Descending(ids) == \A i, j \in DOMAIN ids : i < j => ids[j] < ids[i]

\* Mutant: the largest number of the list, which is taken.
NextAfterTaken(ids) ==
    IF ids = <<>> THEN 0
    ELSE CHOOSE id \in Range(ids) : \A other \in Range(ids) : other <= id

\* One more than the largest number of the list.
NextAfter(ids) ==
    IF ids = <<>> THEN 0
    ELSE 1 + CHOOSE id \in Range(ids) : \A other \in Range(ids) : other <= id

\* Step 3: the SSTables the MANIFEST lists or, without a MANIFEST, those in the
\* directory, sorted by name.  A file that cannot be opened throws.
LoadListed ==
    /\ pc = "load"
    /\ manifest # Nil
    /\ Range(manifest.live) \subseteq DOMAIN sst_files
    /\ sstables' = manifest.live
    /\ next_sst_id' = NextAfter(manifest.live)
    /\ manifest_gen' = manifest.generation
    /\ Goto("remove_orphans")
    /\ UNCHANGED <<files, writer, locals>>

\* Mutant: oldest first.
NameOrderAscending(ids) == \A i, j \in DOMAIN ids : i < j => ids[i] < ids[j]

\* Names of one length are ordered as their numbers: all SSTables are numbered
\* below NameLimit.
NameOrder(ids) == Descending(ids)

LoadScanned ==
    /\ pc = "load"
    /\ manifest = Nil
    /\ \E ids \in [1..Cardinality(DOMAIN sst_files) -> DOMAIN sst_files] :
          /\ Range(ids) = DOMAIN sst_files
          /\ NameOrder(ids)
          /\ sstables' = ids
          /\ next_sst_id' = NextAfter(ids)
    /\ UpdateManifest("remove_orphans")
    /\ UNCHANGED <<files, manifest_gen, writer, rec, done_seg, merged, todo, segs>>

LoadFails ==
    /\ pc = "load"
    /\ (manifest # Nil => Range(manifest.live) \subseteq DOMAIN sst_files)
         => "sst_open" \in Faults
    /\ Throw
    /\ UNCHANGED <<files, object>>

\* Mutant: nothing is an orphan.
OrphansNone == {}

Orphans == DOMAIN sst_files \ Range(sstables)

\* Step 4.  At its end the segments are listed, for step 5.
RemoveOrphans ==
    /\ pc = "remove_orphans"
    /\ \/ /\ \E id \in Orphans : sst_files' = RemoveFile(sst_files, id)
          /\ UNCHANGED <<pc, call, segs>>
       \/ /\ Orphans = {} \/ "remove" \in Faults
          /\ Goto("replay")
          /\ segs' = DOMAIN wal_files
          /\ UNCHANGED sst_files
    /\ UNCHANGED <<meta, logs, object, rec, ret, done_seg, merged, todo>>

AtLeast(n, m) == IF n >= m THEN n ELSE m

\* Mutant: only the puts are replayed.
ReplayedPuts(table) == Overlay(DropTombstones(table), memtable)

ReplayedOver(table) == Overlay(table, memtable)

\* What WAL::replay finds: nothing, in a segment that it cannot open.
Readings(id) ==
    Replays(wal_files[id]) \cup (IF "wal_read" \in Faults THEN {EmptyTable} ELSE {})

\* Step 5, oldest segment first.
ReplayNext ==
    /\ pc = "replay"
    /\ \E id \in segs :
          /\ \A other \in segs : id <= other
          /\ \E table \in Readings(id) : memtable' = ReplayedOver(table)
          /\ current_wal_id' = AtLeast(current_wal_id, id)
          /\ segs' = segs \ {id}
    /\ UNCHANGED <<files, tree, wal, pc, call, rec, ret, done_seg, merged, todo>>

\* Mutant: it truncates the segment.
OpenSegmentTruncating(id) == wal_files' = WriteFile(wal_files, id, <<>>)

\* WAL::WAL opens to append: a segment that exists keeps its records.
OpenSegment(id) ==
    wal_files' = IF id \in DOMAIN wal_files THEN wal_files
                 ELSE WriteFile(wal_files, id, <<>>)

\* Step 6.
OpenWal ==
    /\ pc = "replay"
    /\ segs = {}
    /\ current_wal_id' = AtLeast(current_wal_id, next_sst_id)
    /\ OpenSegment(current_wal_id')
    /\ wal' = "open"
    /\ Return
    /\ UNCHANGED <<meta, sst_files, done_files, memtable, tree>>

\* A segment, to replay or to go on with, cannot be opened.
OpenWalFails ==
    /\ pc = "replay"
    /\ "wal_open" \in Faults
    /\ Throw
    /\ UNCHANGED <<files, object>>

-----------------------------------------------------------------------------
(* DB::put and DB::del.                                                    *)

\* WAL::append: the record is in the buffer of wal_.  With a null wal_, left by
\* a flush that could not open the next segment, the call dereferences null and
\* the process ends: that outcome is the Crash of a thread at "idle".
Write(k, e) ==
    /\ pc = "idle"
    /\ wal = "open"
    /\ pc' = "sync"
    /\ call' = "write"
    /\ rec' = [key |-> k, entry |-> e]
    /\ UNCHANGED <<files, object, ret, done_seg, merged, todo, segs>>

Logged(record) ==
    [wal_files EXCEPT ![current_wal_id] = Append(@, record)]

\* WAL::sync, which does not look at what fflush and fsync return: a failure
\* leaves nothing of the record in the file, or a part of it.
SyncWal ==
    /\ pc = "sync"
    /\ wal_files' \in {Logged(rec)} \cup
           (IF "wal_write" \in Faults THEN {wal_files, Logged(Torn)} ELSE {})
    /\ Goto("apply")
    /\ UNCHANGED <<meta, sst_files, done_files, object, locals>>

\* Mutant: the size before the write is looked at.
FullBefore(table) == Bytes(memtable) >= FlushBytes

\* maybe_flush.
Full(table) == Bytes(table) >= FlushBytes

\* The MemTable takes the record.
ApplyWrite ==
    /\ pc = "apply"
    /\ memtable' = SetEntry(memtable, rec.key, rec.entry)
    /\ IF Full(memtable')
       THEN /\ Goto("build_sst")
            /\ rec' = Nil
            /\ UNCHANGED <<ret, done_seg, merged, todo, segs>>
       ELSE Return
    /\ UNCHANGED <<files, tree, current_wal_id, wal>>

-----------------------------------------------------------------------------
(* DB::flush_memtable_locked.                                              *)

\* SSTable::build begins: a number is taken, the file made or truncated.  The
\* bound NameLimit is where the names of the files become longer.
BuildSst(next) ==
    /\ next_sst_id < NameLimit
    /\ next_sst_id' = next_sst_id + 1
    /\ \/ sst_files' = WriteFile(sst_files, next_sst_id, EmptyTable) /\ Goto(next) /\ UNCHANGED locals
       \/ "sst_create" \in Faults /\ UNCHANGED sst_files /\ Throw
    /\ UNCHANGED <<meta, logs, sstables, manifest_gen, writer>>

\* Mutant: off by one.
BuiltBefore == next_sst_id - 2

\* It ends: the table is in the file.  A failed write or fsync goes unnoticed.
Built == next_sst_id - 1

WriteSst(table) ==
    \E content \in {table} \cup (IF "sst_write" \in Faults THEN {EmptyTable} ELSE {}) :
        sst_files' = WriteFile(sst_files, Built, content)

FlushMemtable ==
    /\ pc = "idle"
    /\ memtable # EmptyTable
    /\ pc' = "build_sst"
    /\ call' = "flush"
    /\ UNCHANGED <<files, object, locals>>

\* Mutant: the new SSTable goes to the back of the list.
WithNewestLast == Append(sstables, Built)

WithNewest == <<Built>> \o sstables

\* Step 1.
FlushBuild == pc = "build_sst" /\ BuildSst("write_sst")

FlushWrite ==
    /\ pc = "write_sst"
    /\ WriteSst(memtable)
    /\ \/ sstables' = WithNewest /\ UpdateManifest("seal")     \* step 2
       \/ "sst_open" \in Faults /\ UNCHANGED <<sstables, ret>> /\ Throw
    /\ UNCHANGED <<meta, logs, next_sst_id, manifest_gen, writer,
                   rec, done_seg, merged, todo, segs>>

\* Step 3.  The rename may fail; nothing looks at that.
SealWal ==
    /\ pc = "seal"
    /\ wal' = "null"
    /\ done_seg' = current_wal_id
    /\ \/ /\ current_wal_id \in DOMAIN wal_files
          /\ wal_files' = RemoveFile(wal_files, current_wal_id)
          /\ done_files' = done_files \cup {current_wal_id}
       \/ /\ current_wal_id \notin DOMAIN wal_files \/ "seal" \in Faults
          /\ UNCHANGED logs
    /\ Goto("next_wal")
    /\ UNCHANGED <<meta, sst_files, tree, memtable, current_wal_id,
                   rec, ret, merged, todo, segs>>

\* Mutant: the number of the sealed segment is used again.
NextSegmentSame == current_wal_id

NextSegment == next_sst_id

\* Steps 4 and 5.
NextWal ==
    /\ pc = "next_wal"
    /\ current_wal_id' = NextSegment
    /\ \/ /\ OpenSegment(NextSegment)
          /\ wal' = "open"
          /\ memtable' = EmptyTable
          /\ Goto("drop_done")
          /\ UNCHANGED locals
       \/ /\ "wal_open" \in Faults
          /\ Throw
          /\ UNCHANGED <<wal_files, wal, memtable>>
    /\ UNCHANGED <<meta, sst_files, done_files, tree>>

\* A write compacts when enough SSTables have accumulated.
Compacts ==
    /\ Len(sstables) >= 2
    /\ \/ call = "compact"
       \/ call = "write" /\ Len(sstables) >= CompactionThreshold

\* Step 6, and on with the call.
DropDone ==
    /\ pc = "drop_done"
    /\ done_files' \in Removed(done_files, done_files \ {done_seg})
    /\ \/ /\ Compacts
          /\ Goto("merge")
          /\ todo' = sstables
          /\ done_seg' = 0
          /\ UNCHANGED <<object, rec, ret, merged, segs>>
       \/ ~ Compacts /\ call # "close" /\ Return /\ UNCHANGED object
       \/ call = "close" /\ Halt
    /\ UNCHANGED <<meta, sst_files, wal_files>>

-----------------------------------------------------------------------------
(* DB::compact_locked.                                                     *)

\* It flushes first, when there is something to flush.
Compact ==
    /\ pc = "idle"
    /\ Len(sstables) >= 2
    /\ call' = "compact"
    /\ IF memtable # EmptyTable
       THEN pc' = "build_sst" /\ UNCHANGED todo
       ELSE pc' = "merge" /\ todo' = sstables
    /\ UNCHANGED <<files, object, rec, ret, done_seg, merged, segs>>

\* Mutant: entries that are there already are kept.
MergedUnder(table) == Overlay(merged, table)

MergedOver(table) == Overlay(table, merged)

\* Oldest SSTable first, from the back of the list; SSTable::scan_all finds
\* nothing in a file it cannot open.
MergeNext ==
    /\ pc = "merge"
    /\ todo # <<>>
    /\ \E table \in {Content(sst_files, todo[Len(todo)])} \cup
                    (IF "sst_read" \in Faults THEN {EmptyTable} ELSE {}) :
          merged' = MergedOver(table)
    /\ todo' = SubSeq(todo, 1, Len(todo) - 1)
    /\ UNCHANGED <<files, object, pc, call, rec, ret, done_seg, segs>>

CompactBuild ==
    /\ pc = "merge"
    /\ todo = <<>>
    /\ BuildSst("write_merged")

\* The list is emptied before the new SSTable is opened.
CompactWrite ==
    /\ pc = "write_merged"
    /\ WriteSst(DropTombstones(merged))
    /\ \/ /\ sstables' = <<Built>>
          /\ todo' = sstables
          /\ merged' = EmptyTable
          /\ UpdateManifest("drop_old")
       \/ /\ "sst_open" \in Faults
          /\ sstables' = <<>>
          /\ UNCHANGED <<todo, merged, ret>>
          /\ Throw
    /\ UNCHANGED <<meta, logs, next_sst_id, manifest_gen, writer, rec, done_seg, segs>>

\* The files of the old list, from its front.
DropOld ==
    /\ pc = "drop_old"
    /\ todo # <<>>
    /\ sst_files' \in Removed(sst_files, RemoveFile(sst_files, Head(todo)))
    /\ todo' = Tail(todo)
    /\ UNCHANGED <<meta, logs, object, pc, call, rec, ret, done_seg, merged, segs>>

CompactEnd ==
    /\ pc = "drop_old"
    /\ todo = <<>>
    /\ Return
    /\ UNCHANGED <<files, object>>

-----------------------------------------------------------------------------
(* DB::~DB, and the end of the process.                                    *)

\* The destructor flushes what the MemTable holds.
Close ==
    /\ pc = "idle"
    /\ IF memtable # EmptyTable
       THEN pc' = "build_sst" /\ call' = "close" /\ UNCHANGED <<object, locals>>
       ELSE Halt
    /\ UNCHANGED files

\* The record of a write in flight is in the log whole, in part or not at all.
Crash ==
    /\ pc # "down"
    /\ Halt
    /\ wal_files' \in {wal_files} \cup
           (IF pc # "sync" THEN {}
            ELSE {Logged(rec)} \cup
                 (IF "torn" \in Faults THEN {Logged(Torn)} ELSE {}))
    /\ UNCHANGED <<meta, sst_files, done_files>>

-----------------------------------------------------------------------------

\* What a client decides.
Client ==
    \/ Open
    \/ \E k \in Key, e \in Written : Write(k, e)
    \/ FlushMemtable
    \/ Compact
    \/ Close

\* The steps of a call that has begun.
Step ==
    \/ RemoveTmp \/ RemoveDone \/ LoadListed \/ LoadScanned \/ LoadFails
    \/ RemoveOrphans \/ ReplayNext \/ OpenWal \/ OpenWalFails
    \/ WriteManifest \/ RenameManifest \/ RetryRename
    \/ SyncWal \/ ApplyWrite
    \/ FlushBuild \/ FlushWrite \/ SealWal \/ NextWal \/ DropDone
    \/ MergeNext \/ CompactBuild \/ CompactWrite \/ DropOld \/ CompactEnd
    \/ Unwind

Work == Client \/ Step

Next == Work \/ Crash

Spec == Init /\ [][Next]_vars

\* A process nobody kills.
GracefulSpec == Init /\ [][Work]_vars

\* A thread inside a call is scheduled until the call is over.
FairSpec == Spec /\ WF_vars(Step)
=============================================================================
