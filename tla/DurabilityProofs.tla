-------------------------- MODULE DurabilityProofs --------------------------
(***************************************************************************)
(* Proofs about the contents of the store: what readers see, what a        *)
(* restart would find, and that the engine implements the durable map.     *)
(*                                                                         *)
(* Three things hold the data: the MemTable, the segments, and the lists   *)
(* of SSTables, one in memory and one in the MANIFEST.  TablesInv relates  *)
(* the MemTable and the two lists; it says nothing of the segments.        *)
(* LogsInv relates the MemTable and the segments, and takes nothing of the *)
(* SSTables but their numbers.  The theorems put the two together.         *)
(***************************************************************************)
EXTENDS KVStoreProofs

-----------------------------------------------------------------------------
(* What the engine can be durable under.                                   *)

\* The failures that the code notices or can do without.  The others lose data
\* silently: a write that is not in the log or the SSTable, an SSTable that a
\* merge or the list goes without, a MANIFEST removed to be replaced.
Tolerated == {"torn", "remove", "wal_open", "seal", "sst_create", "manifest_write"}

-----------------------------------------------------------------------------
(* The views.                                                              *)

\* The object is there, and its constructor has returned.
Serving == pc # "down" /\ call # "open"

\* The list on disk, and what a lookup finds through it, ...
Live == IF manifest = Nil THEN <<>> ELSE manifest.live

Stored(k) == Lookup(sst_files, Live, k)

\* ... and through the list in memory.
Listed(k) == Lookup(sst_files, sstables, k)

-----------------------------------------------------------------------------
(* The MemTable and the SSTables.                                          *)

\* Which call runs, and what its locals and the MemTable hold.
CallInv ==
    /\ After("remove_orphans", {"remove_tmp", "remove_done", "load", "remove_orphans", "replay"})
         => call = "open"
    /\ call = "open" =>
         \/ After("remove_orphans", {"remove_tmp", "remove_done", "load", "remove_orphans", "replay"})
         \/ pc = "unwind"
    /\ pc \notin {"sync", "apply"} => rec = Nil
    /\ pc \in {"sync", "apply"} => wal = "open"
    /\ pc = "next_wal" => wal = "null"
    /\ pc \notin {"merge", "write_merged", "unwind"} => merged = EmptyTable
    /\ After("remove_orphans", {"down", "remove_tmp", "remove_done", "load", "remove_orphans"})
         => memtable = EmptyTable
    /\ After("drop_old", {"drop_done", "merge", "write_merged", "drop_old"})
         => memtable = EmptyTable

\* Without a MANIFEST there is nothing yet: recovery writes one first.
FirstInv ==
    manifest = Nil =>
        /\ DOMAIN sst_files = {} /\ DOMAIN wal_files = {} /\ sstables = <<>>
        /\ Loaded => Updating /\ ret = "remove_orphans" /\ call = "open"

\* The SSTables that the merge has still to visit are over what it has merged.
MergeInv ==
    /\ pc = "write_merged" => todo = <<>>
    /\ pc \in {"merge", "write_merged"} =>
        /\ Len(todo) <= Len(sstables)
        /\ \A i \in 1..Len(todo) : todo[i] = sstables[i]
        /\ \A k \in Key :
              Listed(k) = IF LookupUpTo(sst_files, sstables, Len(todo), k) # NoEntry
                          THEN LookupUpTo(sst_files, sstables, Len(todo), k)
                          ELSE merged[k]

\* From the new SSTable to the new segment, what the MemTable holds is in the
\* SSTables too.
SavedInv ==
    After("seal", {"seal", "next_wal"}) =>
        \A k \in Key : memtable[k] # NoEntry => Listed(k) = memtable[k]

\* Where the MemTable does not know a key, the two lists agree on it: they
\* differ by flushes and merges that did not reach the MANIFEST, and what such
\* a flush has written is still in the MemTable.
AgreeInv ==
    Loaded =>
        \A k \in Key : memtable[k] = NoEntry => Visible(Listed(k)) = Visible(Stored(k))

\* Without an active segment the MemTable holds nothing that is not committed.
KeptInv ==
    (Serving /\ wal = "null") =>
        \A k \in Key : memtable[k] # NoEntry => Stored(k) = memtable[k]

TablesInv == CallInv /\ FirstInv /\ MergeInv /\ SavedInv /\ AgreeInv /\ KeptInv

-----------------------------------------------------------------------------
(* The MemTable and the segments.                                          *)

\* Segments with records.
Used == {id \in DOMAIN wal_files : wal_files[id] # <<>>}

\* The active segment exists.
ActiveInv == (Serving /\ wal = "open") => current_wal_id \in DOMAIN wal_files

\* Recovery: a segment that is the only one with records is in the MemTable,
\* whole and alone, once it is replayed.
RecoverInv ==
    pc = "replay" /\ NoBuriedTear =>
        \A u \in Nat : Used \subseteq {u} =>
            memtable = IF u \in DOMAIN wal_files \ segs THEN Replay(wal_files[u]) ELSE EmptyTable

\* The active segment yields the MemTable, but for the write being applied.
ActiveLogInv ==
    (Serving /\ wal = "open" /\ Clean) =>
        Replay(wal_files[current_wal_id]) =
            IF pc = "apply" THEN SetEntry(memtable, rec.key, rec.entry) ELSE memtable

\* Without one, nothing in the segments says otherwise than the MemTable.
SealedLogInv ==
    (Serving /\ wal = "null" /\ Clean) =>
        \A k \in Key : Replayed(k) \in {NoEntry, memtable[k]}

LogsInv == ActiveInv /\ RecoverInv /\ ActiveLogInv /\ SealedLogInv

-----------------------------------------------------------------------------
(* What a step can do to the SSTables of a list.                           *)

\* A file that is not on a list is not looked at.
LEMMA OtherFiles ==
    ASSUME NEW dir, NEW ids \in Seq(Nat), NEW id, id \notin Range(ids), NEW table,
           NEW n \in 0..Len(ids), NEW k
    PROVE  /\ LookupUpTo(WriteFile(dir, id, table), ids, n, k) = LookupUpTo(dir, ids, n, k)
           /\ LookupUpTo(RemoveFile(dir, id), ids, n, k) = LookupUpTo(dir, ids, n, k)
<1>1. ASSUME NEW i \in 1..n
      PROVE  /\ Content(WriteFile(dir, id, table), ids[i]) = Content(dir, ids[i])
             /\ Content(RemoveFile(dir, id), ids[i]) = Content(dir, ids[i])
    <2>1. ids[i] # id
        BY DEF Range
    <2> QED
        BY <2>1 DEF Content, WriteFile, RemoveFile, Restrict
<1> QED
    BY <1>1, LookupFrame

\* A step writes or removes at most one SSTable, which neither list names.
LEMMA TouchedFile ==
    ASSUME FilesInv, [Next]_vars
    PROVE  \/ UNCHANGED sst_files
           \/ \E id \in Nat, table \in Table :
                 /\ id \notin Range(sstables)
                 /\ id \notin Range(Live)
                 /\ sst_files' \in {WriteFile(sst_files, id, table), RemoveFile(sst_files, id)}
<1> USE DEF files, object, locals, meta, logs, tree, writer
<1>0. /\ DiskTypes /\ ObjectTypes /\ ThreadTypes
      /\ ListsInv /\ CommittedInv /\ BuildInv /\ DropInv
    BY DEF FilesInv, TypeOK
<1>1. EmptyTable \in Table /\ (manifest = Nil => Range(Live) = {})
    BY DEF EmptyTable, Table, Entry, Live, Range
<1>2. CASE FlushBuild \/ CompactBuild
    <2>1. next_sst_id \in Nat /\ Loaded
        BY <1>0, <1>2 DEF ObjectTypes, FlushBuild, CompactBuild, BuildSst, Loaded
    <2>2. next_sst_id \notin Range(sstables) /\ next_sst_id \notin Range(Live)
        BY <1>0, <1>1, <2>1 DEF ListsInv, NewestFirst, Live
    <2> QED
        BY <1>1, <1>2, <2>1, <2>2 DEF FlushBuild, CompactBuild, BuildSst
<1>3. CASE FlushWrite \/ CompactWrite
    <2>1. PICK content \in Table : sst_files' = WriteFile(sst_files, Built, content)
        <3>1. DropTombstones(merged) \in Table
            BY <1>0 DEF DropTombstones, ThreadTypes, Table, Entry
        <3> QED
            BY <1>0, <1>1, <1>3, <3>1 DEF FlushWrite, CompactWrite, WriteSst, ObjectTypes
    <2>2. Built \in Nat /\ Built \notin Range(sstables) /\ Built \notin Range(Live)
        BY <1>0, <1>1, <1>3 DEF FlushWrite, CompactWrite, BuildInv, Built, ObjectTypes, Live
    <2> QED
        BY <2>1, <2>2
<1>4. CASE RemoveOrphans
    <2>1. manifest # Nil /\ Live = sstables
        BY <1>0, <1>4 DEF RemoveOrphans, CommittedInv, Live
    <2>2. ASSUME NEW id \in Orphans
          PROVE  id \in Nat /\ id \notin Range(sstables)
        BY <1>0 DEF Orphans, DiskTypes
    <2> QED
        BY <1>1, <1>4, <2>1, <2>2 DEF RemoveOrphans
<1>5. CASE DropOld
    <2>1. Live = sstables
        BY <1>0, <1>5 DEF DropOld, CommittedInv, Live
    <2>2. Head(todo) \in Range(todo) /\ Head(todo) \in Nat
        BY <1>0, <1>5 DEF DropOld, ThreadTypes, Range
    <2>3. Head(todo) \notin Range(sstables)
        BY <1>0, <1>5, <2>2 DEF DropOld, DropInv, After
    <2> QED
        BY <1>1, <1>5, <2>1, <2>2, <2>3 DEF DropOld, Removed
<1>6. CASE \/ Next /\ ~ (FlushBuild \/ CompactBuild \/ FlushWrite \/ CompactWrite
                          \/ RemoveOrphans \/ DropOld)
           \/ UNCHANGED vars
    BY <1>6
    DEF Next, Work, Client, Step, vars,
        Open, Write, FlushMemtable, Compact, Close, RemoveTmp, RemoveDone,
        LoadListed, LoadScanned, LoadFails, ReplayNext, OpenWal, OpenWalFails,
        WriteManifest, RenameManifest, RetryRename, SyncWal, ApplyWrite,
        SealWal, NextWal, DropDone, MergeNext, CompactEnd, Unwind, Crash
<1> QED
    BY <1>2, <1>3, <1>4, <1>5, <1>6

\* The list on disk is a list.
LEMMA LiveType ==
    ASSUME TypeOK
    PROVE  Live \in Seq(Nat)
BY DEF TypeOK, DiskTypes, Manifest, Live

\* So what a lookup finds changes only when the list does.
LEMMA SameListSameTables ==
    ASSUME FilesInv, [Next]_vars, NEW k \in Key
    PROVE  /\ \A n \in 0..Len(sstables) :
                 LookupUpTo(sst_files', sstables, n, k) = LookupUpTo(sst_files, sstables, n, k)
           /\ Lookup(sst_files', sstables, k) = Listed(k)
           /\ Lookup(sst_files', Live, k) = Stored(k)
<1>1. sstables \in Seq(Nat) /\ Live \in Seq(Nat)
    BY LiveType DEF FilesInv, TypeOK, ObjectTypes
<1>2. CASE UNCHANGED sst_files
    BY <1>2 DEF Listed, Stored
<1>3. CASE ~ UNCHANGED sst_files
    <2>1. PICK id \in Nat, table \in Table :
              /\ id \notin Range(sstables)
              /\ id \notin Range(Live)
              /\ sst_files' \in {WriteFile(sst_files, id, table), RemoveFile(sst_files, id)}
        BY <1>3, TouchedFile
    <2>2. ASSUME NEW n \in 0..Len(sstables)
          PROVE  LookupUpTo(sst_files', sstables, n, k) = LookupUpTo(sst_files, sstables, n, k)
        <3>1. /\ LookupUpTo(WriteFile(sst_files, id, table), sstables, n, k) = LookupUpTo(sst_files, sstables, n, k)
              /\ LookupUpTo(RemoveFile(sst_files, id), sstables, n, k) = LookupUpTo(sst_files, sstables, n, k)
            BY <1>1, <2>1, OtherFiles
        <3> QED
            BY <2>1, <3>1
    <2>3. ASSUME NEW n \in 0..Len(Live)
          PROVE  LookupUpTo(sst_files', Live, n, k) = LookupUpTo(sst_files, Live, n, k)
        <3>1. /\ LookupUpTo(WriteFile(sst_files, id, table), Live, n, k) = LookupUpTo(sst_files, Live, n, k)
              /\ LookupUpTo(RemoveFile(sst_files, id), Live, n, k) = LookupUpTo(sst_files, Live, n, k)
            BY <1>1, <2>1, OtherFiles
        <3> QED
            BY <2>1, <3>1
    <2>4. Len(sstables) \in 0..Len(sstables) /\ Len(Live) \in 0..Len(Live)
        BY <1>1
    <2> QED
        BY <2>2, <2>3, <2>4 DEF Lookup, Listed, Stored
<1> QED
    BY <1>2, <1>3

-----------------------------------------------------------------------------
(* Every step preserves the invariant of the tables.                       *)

\* Which call runs, and what its locals hold.
LEMMA CallStep ==
    ASSUME FilesInv, CallInv, [Next]_vars
    PROVE  CallInv'
<1> USE DEF files, object, locals, meta, logs, tree, writer, After, Updating, CallInv
<1>0. ThreadTypes /\ LocalsInv
    BY DEF FilesInv, TypeOK
<1>1. CASE Open \/ RemoveTmp \/ RemoveDone
    BY <1>0, <1>1 DEF Open, RemoveTmp, RemoveDone, Goto
<1>2. CASE LoadListed \/ LoadScanned \/ LoadFails
    BY <1>0, <1>2 DEF LoadListed, LoadScanned, LoadFails, UpdateManifest, Goto, Throw
<1>3. CASE RemoveOrphans \/ ReplayNext
    BY <1>0, <1>3 DEF RemoveOrphans, ReplayNext, Goto
<1>4. CASE OpenWal \/ OpenWalFails
    BY <1>0, <1>4 DEF OpenWal, OpenWalFails, Return, Leave, Goto, Throw
<1>5. CASE WriteManifest
    BY <1>0, <1>5 DEF WriteManifest, Goto, Throw
<1>6. CASE RenameManifest \/ RetryRename
    BY <1>0, <1>6 DEF RenameManifest, RetryRename, CommitManifest, Goto, Throw, LocalsInv, ThreadTypes
<1>7. CASE \E k \in Key, e \in Written : Write(k, e)
    BY <1>0, <1>7 DEF Write
<1>8. CASE SyncWal \/ ApplyWrite
    BY <1>0, <1>8 DEF SyncWal, ApplyWrite, Goto, Return, Leave
<1>9. CASE FlushMemtable \/ Compact \/ Close
    BY <1>0, <1>9 DEF FlushMemtable, Compact, Close, Halt, Leave
<1>10. CASE FlushBuild \/ CompactBuild
    BY <1>0, <1>10 DEF FlushBuild, CompactBuild, BuildSst, Goto, Throw
<1>11. CASE FlushWrite \/ CompactWrite
    <2>1. UNCHANGED <<memtable, wal, rec, call>> /\ pc \in {"write_sst", "write_merged"}
        BY <1>11 DEF FlushWrite, CompactWrite, UpdateManifest, Goto, Throw
    <2>2. CASE pc = "write_sst" /\ pc' = "write_manifest" /\ ret' = "seal" /\ UNCHANGED merged
        BY <1>0, <2>1, <2>2
    <2>3. CASE /\ pc = "write_merged" /\ pc' = "write_manifest" /\ ret' = "drop_old"
               /\ merged' = EmptyTable
        BY <1>0, <2>1, <2>3
    <2>4. CASE pc' = "unwind"
        BY <1>0, <2>1, <2>4
    <2> QED
        BY <1>11, <2>2, <2>3, <2>4 DEF FlushWrite, CompactWrite, UpdateManifest, Goto, Throw
<1>12. CASE SealWal \/ NextWal
    BY <1>0, <1>12 DEF SealWal, NextWal, Goto, Throw
<1>13. CASE DropDone
    BY <1>0, <1>13 DEF DropDone, Goto, Return, Halt, Leave
<1>14. CASE MergeNext \/ DropOld \/ CompactEnd
    BY <1>0, <1>14 DEF MergeNext, DropOld, CompactEnd, Return, Leave
<1>15. CASE Unwind \/ Crash
    BY <1>0, <1>15 DEF Unwind, Crash, Halt, Return, Leave
<1>16. CASE UNCHANGED vars
    BY <1>0, <1>16 DEF vars
<1> QED
    BY <1>1, <1>2, <1>3, <1>4, <1>5, <1>6, <1>7, <1>8, <1>9, <1>10, <1>11, <1>12,
       <1>13, <1>14, <1>15, <1>16 DEF Next, Work, Client, Step

\* Without a MANIFEST, recovery is the only call, and finds nothing.
LEMMA FirstStep ==
    ASSUME FilesInv, CallInv, FirstInv, [Next]_vars, Faults \subseteq Tolerated
    PROVE  FirstInv'
<1> USE DEF files, object, locals, meta, logs, tree, writer
<1>0. DiskTypes /\ ObjectTypes /\ ThreadTypes /\ LocalsInv /\ CallInv
      /\ ~ RenameMayFail
    BY DEF FilesInv, TypeOK, Tolerated, RenameMayFail
<1> SUFFICES ASSUME manifest' = Nil
             PROVE  FirstInv'
    BY DEF FirstInv
<1>1. manifest = Nil /\ ~ CommitManifest
    <2>1. ~ CommitManifest
        BY <1>0, NilAssumption DEF CommitManifest, Manifest, ObjectTypes
    <2> QED
        BY <1>0, <2>1
        DEF Next, Work, Client, Step, vars,
            Open, Write, FlushMemtable, Compact, Close, RemoveTmp, RemoveDone,
            LoadListed, LoadScanned, LoadFails, RemoveOrphans, ReplayNext, OpenWal, OpenWalFails,
            WriteManifest, RenameManifest, RetryRename, SyncWal, ApplyWrite,
            FlushBuild, FlushWrite, SealWal, NextWal, DropDone, MergeNext, CompactBuild,
            CompactWrite, DropOld, CompactEnd, Unwind, Crash, BuildSst
<1>2. /\ DOMAIN sst_files = {} /\ DOMAIN wal_files = {} /\ sstables = <<>>
      /\ Loaded => Updating /\ ret = "remove_orphans" /\ call = "open"
    BY <1>1 DEF FirstInv
<1>3. CASE Open \/ RemoveTmp \/ RemoveDone \/ LoadFails
    BY <1>0, <1>2, <1>3
    DEF FirstInv, Loaded, Updating, Open, RemoveTmp, RemoveDone, LoadFails, Goto, Throw, LocalsInv
<1>4. CASE LoadScanned
    <2>1. PICK ids \in [1..Cardinality(DOMAIN sst_files) -> DOMAIN sst_files] : sstables' = ids
        BY <1>4 DEF LoadScanned
    <2>2. ids \in Seq(Nat) /\ Len(ids) = 0
        BY <1>0, <1>2, FS_EmptySet
    <2>3. sstables' = <<>>
        BY <2>1, <2>2
    <2> QED
        BY <1>0, <1>2, <1>4, <2>3 DEF FirstInv, LoadScanned, UpdateManifest, Goto, Updating, LocalsInv
<1>5. CASE WriteManifest \/ RenameManifest \/ RetryRename
    BY <1>0, <1>1, <1>2, <1>5
    DEF FirstInv, WriteManifest, RenameManifest, RetryRename, Goto, Throw, Loaded, Updating
<1>6. CASE Unwind \/ Crash
    <2>1. pc # "sync"
        BY <1>2 DEF Loaded, Updating
    <2>2. CASE Halt
        BY <1>2, <1>6, <2>1, <2>2 DEF FirstInv, Unwind, Crash, Halt, Loaded
    <2>3. CASE ~ Halt
        BY <1>2, <1>6, <2>3 DEF Unwind, Crash, Loaded, Updating
    <2> QED
        BY <2>2, <2>3
<1>7. CASE UNCHANGED vars
    BY <1>1, <1>7 DEF FirstInv, vars, Loaded, Updating
<1>8. CASE Next /\ ~ (\/ Open \/ RemoveTmp \/ RemoveDone \/ LoadFails \/ LoadScanned
                      \/ WriteManifest \/ RenameManifest \/ RetryRename \/ Unwind \/ Crash)
    <2>1. Loaded /\ ~ Updating
        BY <1>1, <1>8
        DEF Next, Work, Client, Step, Loaded, Updating,
            Write, FlushMemtable, Compact, Close, LoadListed, RemoveOrphans, ReplayNext,
            OpenWal, OpenWalFails, SyncWal, ApplyWrite, FlushBuild, FlushWrite, SealWal, NextWal,
            DropDone, MergeNext, CompactBuild, CompactWrite, DropOld, CompactEnd
    <2> QED
        BY <1>2, <2>1
<1> QED
    BY <1>3, <1>4, <1>5, <1>6, <1>7, <1>8

\* The entry in a file just written.
LEMMA ContentOfWritten ==
    ASSUME NEW dir, NEW id, NEW table
    PROVE  Content(WriteFile(dir, id, table), id) = table
BY DEF Content, WriteFile

\* The merge goes down the list.
LEMMA MergeStep ==
    ASSUME FilesInv, CallInv, MergeInv, [Next]_vars, Faults \subseteq Tolerated
    PROVE  MergeInv'
<1> USE DEF files, object, locals, meta, logs, tree, writer
<1>0. /\ DiskTypes /\ ObjectTypes /\ ThreadTypes /\ LocalsInv /\ CallInv
      /\ "sst_read" \notin Faults
    BY DEF FilesInv, TypeOK, Tolerated
<1>1. sstables \in Seq(Nat) /\ Len(sstables) \in Nat /\ Len(sstables) \in 0..Len(sstables)
    BY <1>0 DEF ObjectTypes
<1>2. CASE pc' = "merge" /\ todo' = sstables /\ UNCHANGED <<sst_files, sstables, merged>>
           /\ merged = EmptyTable
    <2>1. \A k \in Key : merged'[k] = NoEntry
        BY <1>2 DEF EmptyTable
    <2>2. \A k \in Key : Listed(k)' = LookupUpTo(sst_files', sstables', Len(todo'), k)
        BY <1>2 DEF Listed, Lookup
    <2> QED
        BY <1>1, <1>2, <2>1, <2>2 DEF MergeInv
<1>3. CASE DropDone \/ Compact
    <2>1. merged = EmptyTable
        BY <1>0, <1>3 DEF CallInv, DropDone, Compact
    <2> QED
        BY <1>2, <1>3, <2>1
        DEF DropDone, Compact, Goto, Return, Halt, MergeInv
<1>4. CASE MergeNext
    <2> DEFINE n == Len(todo)
               m == n - 1
    <2>1. /\ n \in Nat /\ n # 0 /\ m \in Nat /\ m + 1 = n
          /\ m \in 0..Len(sstables) /\ n \in 0..Len(sstables) /\ n \in 1..n
          /\ todo[n] = sstables[n]
        BY <1>0, <1>1, <1>4 DEF MergeNext, ThreadTypes, MergeInv
    <2>2. /\ merged' = Overlay(Content(sst_files, sstables[n]), merged)
          /\ UNCHANGED <<sst_files, sstables, pc>> /\ pc = "merge"
        BY <1>0, <1>4, <2>1 DEF MergeNext, MergedOver
    <2>3. todo' \in Seq(Nat) /\ Len(todo') = m /\ \A i \in 1..m : todo'[i] = todo[i]
        BY <1>0, <1>4, <2>1 DEF MergeNext, ThreadTypes
    <2> HIDE DEF n, m
    <2>4. ASSUME NEW k \in Key
          PROVE  Listed(k) = IF LookupUpTo(sst_files, sstables, m, k) # NoEntry
                             THEN LookupUpTo(sst_files, sstables, m, k)
                             ELSE merged'[k]
        <3>1. Listed(k) = IF LookupUpTo(sst_files, sstables, n, k) # NoEntry
                          THEN LookupUpTo(sst_files, sstables, n, k)
                          ELSE merged[k]
            BY <2>2 DEF MergeInv, n
        <3>2. LookupUpTo(sst_files, sstables, n, k) =
                IF LookupUpTo(sst_files, sstables, m, k) # NoEntry
                THEN LookupUpTo(sst_files, sstables, m, k)
                ELSE Content(sst_files, sstables[n])[k]
            BY <2>1, LookupOneMore
        <3>3. merged'[k] = IF Content(sst_files, sstables[n])[k] # NoEntry
                           THEN Content(sst_files, sstables[n])[k] ELSE merged[k]
            BY <2>2 DEF Overlay
        <3> QED
            BY <3>1, <3>2, <3>3
    <2>5. \A i \in 1..m : todo'[i] = sstables[i]
        BY <2>1, <2>2, <2>3 DEF MergeInv, n
    <2>6. m <= Len(sstables)
        BY <2>1, <1>1
    <2>7. \A k \in Key : Listed(k)' = Listed(k)
        BY <2>2 DEF Listed
    <2> QED
        BY <2>2, <2>3, <2>4, <2>5, <2>6, <2>7 DEF MergeInv
<1>5. CASE CompactBuild
    <2>2. UNCHANGED <<todo, merged, sstables>> /\ pc = "merge" /\ todo = <<>>
        BY <1>5 DEF CompactBuild, BuildSst, Throw, Goto
    <2>3. Len(todo) = 0 /\ 0 \in 0..Len(sstables)
        BY <1>1, <2>2
    <2>4. ASSUME NEW k \in Key
          PROVE  /\ LookupUpTo(sst_files', sstables, 0, k) = LookupUpTo(sst_files, sstables, 0, k)
                 /\ Listed(k)' = Listed(k)
        BY <2>2, <2>3, SameListSameTables DEF Listed
    <2> QED
        BY <2>2, <2>3, <2>4 DEF MergeInv
<1>6. CASE UNCHANGED vars
    <2>1. \A k \in Key : Listed(k)' = Listed(k)
        BY <1>6 DEF vars, Listed
    <2> QED
        BY <1>6, <2>1 DEF vars, MergeInv
<1>7. CASE Next /\ ~ (DropDone \/ Compact \/ MergeNext \/ CompactBuild)
    <2>1. pc' \notin {"merge", "write_merged"}
        BY <1>0, <1>7
        DEF Next, Work, Client, Step, LocalsInv, ThreadTypes,
            Open, Write, FlushMemtable, Close, RemoveTmp, RemoveDone,
            LoadListed, LoadScanned, LoadFails, RemoveOrphans, ReplayNext, OpenWal, OpenWalFails,
            WriteManifest, RenameManifest, RetryRename, CommitManifest, SyncWal, ApplyWrite,
            FlushBuild, FlushWrite, SealWal, NextWal, CompactWrite, DropOld, CompactEnd,
            Unwind, Crash, BuildSst, UpdateManifest, Goto, Throw, Return, Halt
    <2> QED
        BY <2>1 DEF MergeInv
<1> QED
    BY <1>3, <1>4, <1>5, <1>6, <1>7

\* Where a list does not change, what a lookup finds through it does not.
LEMMA Unmoved ==
    ASSUME FilesInv, [Next]_vars, NEW k \in Key
    PROVE  /\ UNCHANGED sstables => Listed(k)' = Listed(k)
           /\ UNCHANGED manifest => Stored(k)' = Stored(k)
<1>1. UNCHANGED sstables => Listed(k)' = Listed(k)
    BY SameListSameTables DEF Listed
<1>2. UNCHANGED manifest => Live' = Live
    BY DEF Live
<1>3. UNCHANGED manifest => Stored(k)' = Lookup(sst_files', Live, k)
    BY <1>2 DEF Stored
<1> QED
    BY <1>1, <1>3, SameListSameTables

\* After a flush has written its SSTable the list gives what the MemTable holds,
\* and elsewhere what it gave before.
LEMMA FlushedTable ==
    ASSUME FilesInv, [Next]_vars, FlushWrite, sstables' = WithNewest,
           Faults \subseteq Tolerated, NEW k \in Key
    PROVE  Listed(k)' = IF memtable[k] # NoEntry THEN memtable[k] ELSE Listed(k)
<1>1. sst_files' = WriteFile(sst_files, Built, memtable)
    BY DEF FlushWrite, WriteSst, Tolerated
<1>2. sstables \in Seq(Nat) /\ Built \in Nat
    BY DEF FilesInv, TypeOK, ObjectTypes, BuildInv, Built, FlushWrite
<1>3. Content(sst_files', Built) = memtable
    BY <1>1, ContentOfWritten
<1>4. Lookup(sst_files', <<Built>> \o sstables, k) =
        IF Content(sst_files', Built)[k] # NoEntry THEN Content(sst_files', Built)[k]
        ELSE Lookup(sst_files', sstables, k)
    BY <1>2, LookupInFront
<1>5. Lookup(sst_files', sstables, k) = Listed(k)
    BY SameListSameTables
<1> QED
    BY <1>3, <1>4, <1>5 DEF Listed, WithNewest

\* After a compaction has written its SSTable clients see through the list what
\* they saw before.
LEMMA MergedTable ==
    ASSUME FilesInv, MergeInv, CompactWrite, sstables' = <<Built>>,
           Faults \subseteq Tolerated, NEW k \in Key
    PROVE  Visible(Listed(k)') = Visible(Listed(k))
<1>1. sst_files' = WriteFile(sst_files, Built, DropTombstones(merged))
    BY DEF CompactWrite, WriteSst, Tolerated
<1>2. Built \in Nat
    BY DEF FilesInv, TypeOK, ObjectTypes, BuildInv, Built, CompactWrite
<1>3. Content(sst_files', Built) = DropTombstones(merged)
    BY <1>1, ContentOfWritten
<1>4. Listed(k)' = DropTombstones(merged)[k]
    BY <1>2, <1>3, LookupShort DEF Listed
<1>5. Listed(k) = merged[k]
    <2>1. pc = "write_merged" /\ Len(todo) = 0
        BY DEF CompactWrite, MergeInv
    <2>2. LookupUpTo(sst_files, sstables, 0, k) = NoEntry
        BY <1>2, LookupShort
    <2> QED
        BY <2>1, <2>2 DEF MergeInv
<1> QED
    BY <1>4, <1>5, EntryAssumption DEF DropTombstones, Visible

\* From the new SSTable to the new segment.
LEMMA SavedStep ==
    ASSUME FilesInv, CallInv, SavedInv, [Next]_vars, Faults \subseteq Tolerated
    PROVE  SavedInv'
<1> USE DEF files, object, locals, meta, logs, tree, writer
<1>0. ThreadTypes /\ LocalsInv
    BY DEF FilesInv, TypeOK
<1>1. CASE FlushWrite
    <2>1. CASE sstables' = WithNewest
        <3>1. \A k \in Key : Listed(k)' = IF memtable[k] # NoEntry THEN memtable[k] ELSE Listed(k)
            BY <1>1, <2>1, FlushedTable
        <3>2. UNCHANGED memtable
            BY <1>1 DEF FlushWrite
        <3> QED
            BY <3>1, <3>2 DEF SavedInv
    <2>2. CASE pc' = "unwind"
        BY <2>2 DEF SavedInv, After, Updating
    <2> QED
        BY <1>1, <2>1, <2>2 DEF FlushWrite, Throw, Goto
<1>2. CASE WriteManifest \/ RenameManifest \/ RetryRename \/ SealWal \/ UNCHANGED vars
    <2>1. UNCHANGED <<memtable, sstables>>
        BY <1>2 DEF WriteManifest, RenameManifest, RetryRename, SealWal, vars
    <2>2. After("seal", {"seal", "next_wal"})' => After("seal", {"seal", "next_wal"})
        BY <1>0, <1>2
        DEF WriteManifest, RenameManifest, RetryRename, CommitManifest, SealWal, vars,
            Goto, Throw, After, Updating, LocalsInv, ThreadTypes
    <2>3. \A k \in Key : Listed(k)' = Listed(k)
        BY <2>1, Unmoved
    <2> QED
        BY <2>1, <2>2, <2>3 DEF SavedInv
<1>3. CASE Next /\ ~ (FlushWrite \/ WriteManifest \/ RenameManifest \/ RetryRename \/ SealWal)
    <2>1. ~ After("seal", {"seal", "next_wal"})'
        BY <1>0, <1>3
        DEF Next, Work, Client, Step, After, Updating,
            Open, Write, FlushMemtable, Compact, Close, RemoveTmp, RemoveDone,
            LoadListed, LoadScanned, LoadFails, RemoveOrphans, ReplayNext, OpenWal, OpenWalFails,
            SyncWal, ApplyWrite, FlushBuild, NextWal, DropDone,
            MergeNext, CompactBuild, CompactWrite, DropOld, CompactEnd, Unwind, Crash,
            BuildSst, UpdateManifest, Goto, Throw, Return, Halt
    <2> QED
        BY <2>1 DEF SavedInv
<1> QED
    BY <1>1, <1>2, <1>3

\* Where the MemTable does not know a key, the two lists agree.
LEMMA AgreeStep ==
    ASSUME FilesInv, TablesInv, [Next]_vars, Faults \subseteq Tolerated
    PROVE  AgreeInv'
<1> USE DEF files, object, locals, meta, logs, tree, writer
<1>0. /\ DiskTypes /\ ObjectTypes /\ ThreadTypes /\ LocalsInv /\ CommittedInv
      /\ CallInv /\ FirstInv /\ MergeInv /\ AgreeInv
    BY DEF FilesInv, TypeOK, TablesInv
<1>1. CASE /\ UNCHANGED <<manifest, sstables>> /\ (Loaded' => Loaded)
           /\ \A k \in Key : memtable'[k] = NoEntry => memtable[k] = NoEntry
    BY <1>0, <1>1, Unmoved DEF AgreeInv
<1>2. CASE Live' = sstables'
    BY <1>2 DEF AgreeInv, Listed, Stored
<1>3. CASE LoadListed
    BY <1>2, <1>3 DEF LoadListed, Live
<1>4. CASE LoadScanned
    <2>1. manifest' = Nil /\ FirstInv'
        BY <1>0, <1>4, FirstStep DEF LoadScanned
    <2> QED
        BY <1>2, <2>1 DEF FirstInv, Live
<1>5. CASE RenameManifest \/ RetryRename
    <2>1. CASE CommitManifest
        <3>1. manifest' # Nil
            BY <1>0, <2>1, NilAssumption DEF CommitManifest, Manifest, ObjectTypes
        <3> QED
            BY <1>2, <1>5, <2>1, <3>1 DEF CommitManifest, Live, RenameManifest, RetryRename
    <2>2. CASE ~ CommitManifest
        <3>1. Loaded' => Loaded
            BY <1>5 DEF RenameManifest, RetryRename, Loaded
        <3> QED
            BY <1>1, <1>5, <2>2, <3>1 DEF RenameManifest, RetryRename, RenameMayFail, Tolerated
    <2> QED
        BY <2>1, <2>2
<1>6. CASE NextWal
    <2>1. CASE UNCHANGED memtable
        BY <1>1, <1>6, <2>1 DEF NextWal, Loaded
    <2>2. manifest # Nil /\ manifest.live = sstables /\ UNCHANGED <<manifest, sstables>>
        BY <1>0, <1>6 DEF NextWal, CommittedInv
    <2> QED
        BY <1>2, <2>2 DEF Live
<1>7. CASE FlushWrite
    <2>1. UNCHANGED <<memtable, manifest>> /\ Loaded
        BY <1>7 DEF FlushWrite, Loaded
    <2>2. CASE sstables' = WithNewest
        <3>1. ASSUME NEW k \in Key, memtable[k] = NoEntry
              PROVE  Visible(Listed(k))' = Visible(Stored(k))'
            <4>1. Listed(k)' = Listed(k)
                BY <1>7, <2>2, <3>1, FlushedTable
            <4>2. Stored(k)' = Stored(k)
                BY <2>1, Unmoved
            <4> QED
                BY <1>0, <2>1, <3>1, <4>1, <4>2 DEF AgreeInv, Visible
        <3> QED
            BY <2>1, <3>1 DEF AgreeInv
    <2>3. CASE UNCHANGED sstables
        BY <1>1, <2>1, <2>3
    <2> QED
        BY <1>7, <2>2, <2>3 DEF FlushWrite
<1>8. CASE CompactWrite
    <2>1. UNCHANGED <<memtable, manifest>> /\ Loaded /\ sstables' = <<Built>>
        BY <1>8 DEF CompactWrite, Loaded, Tolerated
    <2>2. ASSUME NEW k \in Key, memtable[k] = NoEntry
          PROVE  Visible(Listed(k))' = Visible(Stored(k))'
        <3>1. Visible(Listed(k)') = Visible(Listed(k))
            BY <1>0, <1>8, <2>1, MergedTable
        <3>2. Stored(k)' = Stored(k)
            BY <2>1, Unmoved
        <3> QED
            BY <1>0, <2>1, <2>2, <3>1, <3>2 DEF AgreeInv, Visible
    <2> QED
        BY <2>1, <2>2 DEF AgreeInv
<1>9. CASE ReplayNext \/ ApplyWrite
    <2>1. UNCHANGED <<manifest, sstables>> /\ (Loaded' => Loaded)
        BY <1>9 DEF ReplayNext, ApplyWrite, Loaded
    <2>2. \A k \in Key : memtable'[k] = NoEntry => memtable[k] = NoEntry
        <3>1. CASE ReplayNext
            BY <3>1 DEF ReplayNext, ReplayedOver, Overlay
        <3>2. CASE ApplyWrite
            <4>1. rec.entry # NoEntry
                BY <1>0, <3>2, EntryAssumption
                DEF ApplyWrite, LocalsInv, ThreadTypes, Record, Written
            <4> QED
                BY <1>0, <3>2, <4>1 DEF ApplyWrite, SetEntry, ObjectTypes, Table
        <3> QED
            BY <1>9, <3>1, <3>2
    <2> QED
        BY <1>1, <2>1, <2>2
<1>10. CASE DropDone \/ Close \/ Unwind \/ Crash
    <2>1. CASE Halt
        BY <2>1 DEF Halt, AgreeInv, Loaded
    <2>2. CASE ~ Halt
        <3>1. UNCHANGED <<manifest, sstables, memtable>>
            BY <1>10, <2>2 DEF DropDone, Close, Unwind, Crash
        <3>2. Loaded' => Loaded
            BY <1>10, <2>2 DEF Loaded, DropDone, Close, Unwind, Crash
        <3> QED
            BY <1>1, <3>1, <3>2
    <2> QED
        BY <2>1, <2>2
<1>11. CASE \/ Open \/ RemoveTmp \/ RemoveDone \/ LoadFails \/ RemoveOrphans
            \/ OpenWal \/ OpenWalFails \/ WriteManifest \/ SyncWal \/ FlushMemtable \/ Compact
            \/ FlushBuild \/ CompactBuild \/ SealWal \/ MergeNext \/ DropOld \/ CompactEnd
            \/ UNCHANGED vars \/ \E k \in Key, e \in Written : Write(k, e)
    <2>1. UNCHANGED <<manifest, sstables, memtable>>
        BY <1>11
        DEF Open, RemoveTmp, RemoveDone, LoadFails, RemoveOrphans, OpenWal, OpenWalFails,
            WriteManifest, SyncWal, FlushMemtable, Compact, FlushBuild, CompactBuild, BuildSst,
            SealWal, MergeNext, DropOld, CompactEnd, vars, Write
    <2>2. Loaded' => Loaded
        BY <1>0, <1>11
        DEF Loaded, LocalsInv, Open, RemoveTmp, RemoveDone, LoadFails, RemoveOrphans, OpenWal,
            OpenWalFails, WriteManifest, SyncWal, FlushMemtable, Compact, FlushBuild,
            CompactBuild, BuildSst, SealWal, MergeNext, DropOld, CompactEnd, vars, Write,
            Goto, Throw, Return, Leave
    <2> QED
        BY <1>1, <2>1, <2>2
<1> QED
    BY <1>3, <1>4, <1>5, <1>6, <1>7, <1>8, <1>9, <1>10, <1>11 DEF Next, Work, Client, Step

\* The object is there only after its constructor has returned.
LEMMA ServingStep ==
    ASSUME FilesInv, CallInv, [Next]_vars
    PROVE  /\ Serving => Loaded
           /\ Serving' => Serving \/ OpenWal
           /\ pc' = "idle" => Serving'
           /\ pc = "idle" => Serving
<1> USE DEF files, object, locals, meta, logs, tree, writer
<1>0. LocalsInv /\ ThreadTypes
    BY DEF FilesInv, TypeOK
<1>1. (Serving => Loaded) /\ (pc = "idle" => Serving)
    BY <1>0 DEF Serving, Loaded, LocalsInv, CallInv, After, Updating
<1>2. pc' = "idle" => Serving'
    BY CallStep DEF Serving, CallInv, After, Updating
<1>3. Serving' => Serving \/ OpenWal
    <2>1. CASE pc = "down"
        <3>1. Open \/ UNCHANGED vars
            BY <2>1
            DEF Next, Work, Client, Step,
                Write, FlushMemtable, Compact, Close, RemoveTmp, RemoveDone,
                LoadListed, LoadScanned, LoadFails, RemoveOrphans, ReplayNext, OpenWal,
                OpenWalFails, WriteManifest, RenameManifest, RetryRename, SyncWal, ApplyWrite,
                FlushBuild, FlushWrite, SealWal, NextWal, DropDone, MergeNext, CompactBuild,
                CompactWrite, DropOld, CompactEnd, Unwind, Crash
        <3> QED
            BY <2>1, <3>1 DEF Serving, Open, vars
    <2>2. CASE call = "open"
        <3>1. UNCHANGED call \/ OpenWal \/ Halt
            BY <1>0, <2>2
            DEF CallInv, After, Updating, Next, Work, Client, Step, vars,
                Open, Write, FlushMemtable, Compact, Close, RemoveTmp, RemoveDone,
                LoadListed, LoadScanned, LoadFails, RemoveOrphans, ReplayNext, OpenWalFails,
                WriteManifest, RenameManifest, RetryRename, CommitManifest, SyncWal, ApplyWrite,
                FlushBuild, FlushWrite, SealWal, NextWal, DropDone, MergeNext, CompactBuild,
                CompactWrite, DropOld, CompactEnd, Unwind, Crash, BuildSst, UpdateManifest,
                Goto, Throw
        <3> QED
            BY <2>2, <3>1 DEF Serving, Halt
    <2> QED
        BY <2>1, <2>2 DEF Serving
<1> QED
    BY <1>1, <1>2, <1>3

\* Without an active segment, what the MemTable holds is committed.
LEMMA KeptStep ==
    ASSUME FilesInv, TablesInv, [Next]_vars, Faults \subseteq Tolerated
    PROVE  KeptInv'
<1> USE DEF files, object, locals, meta, logs, tree, writer
<1>0. /\ DiskTypes /\ ObjectTypes /\ ThreadTypes /\ LocalsInv /\ CommittedInv
      /\ CallInv /\ SavedInv /\ KeptInv
    BY DEF FilesInv, TypeOK, TablesInv
<1> SUFFICES ASSUME Serving', wal' = "null"
             PROVE  \A k \in Key : memtable'[k] # NoEntry => Stored(k)' = memtable'[k]
    BY DEF KeptInv
<1>1. Serving
    BY <1>0, ServingStep DEF OpenWal
<1>2. CASE UNCHANGED <<manifest, memtable, wal>>
    BY <1>0, <1>1, <1>2, Unmoved DEF KeptInv
<1>3. CASE SealWal
    <2>1. UNCHANGED <<manifest, memtable>> /\ Live = sstables
        BY <1>0, <1>3 DEF SealWal, CommittedInv, Live
    <2>2. After("seal", {"seal", "next_wal"})
        BY <1>3 DEF SealWal, After
    <2>3. \A k \in Key : Stored(k) = Listed(k)
        BY <2>1 DEF Stored, Listed
    <2> QED
        BY <1>0, <2>1, <2>2, <2>3, Unmoved DEF SavedInv
<1>4. CASE RenameManifest \/ RetryRename
    <2>1. UNCHANGED <<memtable, wal, sst_files, sstables>>
        BY <1>4 DEF RenameManifest, RetryRename
    <2>2. CASE CommitManifest
        <3>1. manifest' # Nil
            BY <1>0, <2>2, NilAssumption DEF CommitManifest, Manifest, ObjectTypes
        <3>2. Live' = sstables
            BY <2>2, <3>1 DEF CommitManifest, Live
        <3>3. \A k \in Key : Stored(k)' = Listed(k)
            BY <2>1, <3>2 DEF Stored, Listed
        <3>4. After("seal", {"seal", "next_wal"}) \/ After("drop_old", {"drop_done", "merge", "write_merged", "drop_old"})
            BY <1>0, <1>1, <1>4
            DEF CallInv, After, Updating, Serving, RenameManifest, RetryRename, LocalsInv, ThreadTypes
        <3>5. CASE After("seal", {"seal", "next_wal"})
            BY <1>0, <2>1, <3>3, <3>5 DEF SavedInv
        <3>6. CASE After("drop_old", {"drop_done", "merge", "write_merged", "drop_old"})
            BY <1>0, <2>1, <3>6 DEF CallInv, EmptyTable
        <3> QED
            BY <3>4, <3>5, <3>6
    <2>3. CASE ~ CommitManifest
        BY <1>2, <1>4, <2>1, <2>3 DEF RenameManifest, RetryRename, RenameMayFail, Tolerated
    <2> QED
        BY <2>2, <2>3
<1>5. CASE Next /\ ~ (SealWal \/ RenameManifest \/ RetryRename)
    <2>1. UNCHANGED <<manifest, memtable, wal>>
        BY <1>0, <1>1, <1>5
        DEF Next, Work, Client, Step, CallInv, After, Serving,
            Open, Write, FlushMemtable, Compact, Close, RemoveTmp, RemoveDone,
            LoadListed, LoadScanned, LoadFails, RemoveOrphans, ReplayNext, OpenWal, OpenWalFails,
            WriteManifest, SyncWal, ApplyWrite, FlushBuild, FlushWrite, NextWal, DropDone,
            MergeNext, CompactBuild, CompactWrite, DropOld, CompactEnd, Unwind, Crash,
            BuildSst, Halt
    <2> QED
        BY <1>2, <2>1
<1>6. CASE UNCHANGED vars
    BY <1>2, <1>6 DEF vars
<1> QED
    BY <1>3, <1>4, <1>5, <1>6

\* No object and no file satisfy it.
LEMMA TablesInit == Init => TablesInv
<1> SUFFICES ASSUME Init
             PROVE  TablesInv
    OBVIOUS
<1>1. DOMAIN sst_files = {} /\ DOMAIN wal_files = {} /\ sstables = <<>>
    BY DEF Init, NoFiles
<1> QED
    BY <1>1
    DEF Init, TablesInv, CallInv, FirstInv, MergeInv, SavedInv, AgreeInv, KeptInv,
        After, Updating, Loaded, Serving

\* Every step preserves it.
LEMMA TablesStep ==
    Faults \subseteq Tolerated => (FilesInv /\ TablesInv /\ [Next]_vars => TablesInv')
BY CallStep, FirstStep, MergeStep, SavedStep, AgreeStep, KeptStep DEF TablesInv

-----------------------------------------------------------------------------
(* Every step preserves the invariant of the segments.                     *)

\* What is replayed when one segment at most has records.
LEMMA ReplayedOfOne ==
    ASSUME NEW segments, NEW u \in Nat, NEW k \in Key,
           \A id \in DOMAIN segments : id # u => segments[id] = <<>>
    PROVE  LET replays == [id \in DOMAIN segments |-> Replay(segments[id])]
           IN  /\ u \in DOMAIN segments => Newest(replays, k) = Replay(segments[u])[k]
               /\ u \notin DOMAIN segments => Newest(replays, k) = NoEntry
<1> DEFINE replays == [id \in DOMAIN segments |-> Replay(segments[id])]
<1>1. \A i \in DOMAIN replays : i # u => replays[i][k] = NoEntry
    BY ReplayOfNothing DEF EmptyTable
<1>2. DOMAIN replays = DOMAIN segments /\ (u \in DOMAIN segments => replays[u] = Replay(segments[u]))
    OBVIOUS
<1> HIDE DEF replays
<1>3. /\ u \in DOMAIN replays => Newest(replays, k) = replays[u][k]
      /\ u \notin DOMAIN replays => Newest(replays, k) = NoEntry
    BY <1>1, NewestOfOne
<1> QED
    BY <1>2, <1>3 DEF replays

\* The same of the segments on disk, now and after a step.
LEMMA ReplayedNow ==
    ASSUME NEW u \in Nat, NEW k \in Key, Used \subseteq {u}
    PROVE  /\ u \in DOMAIN wal_files => Replayed(k) = Replay(wal_files[u])[k]
           /\ u \notin DOMAIN wal_files => Replayed(k) = NoEntry
<1>1. \A id \in DOMAIN wal_files : id # u => wal_files[id] = <<>>
    BY DEF Used
<1> QED
    BY <1>1, ReplayedOfOne DEF Replayed

LEMMA ReplayedNext ==
    ASSUME NEW u \in Nat, NEW k \in Key, Used' \subseteq {u}
    PROVE  /\ u \in DOMAIN wal_files' => Replayed(k)' = Replay(wal_files'[u])[k]
           /\ u \notin DOMAIN wal_files' => Replayed(k)' = NoEntry
<1>1. \A id \in DOMAIN wal_files' : id # u => wal_files'[id] = <<>>
    BY DEF Used
<1> QED
    BY <1>1, ReplayedOfOne DEF Replayed

\* Clean segments: the active one, or the only one, has all the records.
LEMMA CleanFacts ==
    ASSUME TypeOK, Clean
    PROVE  /\ NoBuriedTear
           /\ Serving => Used \subseteq {current_wal_id}
           /\ ~ Serving => \E u \in Nat : Used \subseteq {u}
<1>1. NoBuriedTear /\ (Serving => Used \subseteq {current_wal_id})
    BY DEF Clean, NoLeftover, Serving, Used
<1>2. ~ Serving => \A i, j \in Used : i = j
    BY DEF Clean, NoLeftover, Serving, Used
<1>3. ~ Serving => \E u \in Nat : Used \subseteq {u}
    <2>1. Used \subseteq Nat
        BY DEF Used, TypeOK, DiskTypes
    <2>2. Used = {} => Used \subseteq {0}
        OBVIOUS
    <2>3. CASE Used = {}
        BY <2>2, <2>3
    <2>4. CASE Used # {}
        <3>1. PICK u \in Used : TRUE
            BY <2>4
        <3>2. ~ Serving => Used \subseteq {u}
            BY <1>2, <3>1
        <3> QED
            BY <2>1, <3>1, <3>2
    <2> QED
        BY <2>3, <2>4
<1> QED
    BY <1>1, <1>3

\* An append leaves the other segments alone.
LEMMA LoggedFacts ==
    ASSUME TypeOK, current_wal_id \in DOMAIN wal_files, NEW r \in Record \cup {Torn}
    PROVE  /\ DOMAIN Logged(r) = DOMAIN wal_files
           /\ Logged(r)[current_wal_id] = Append(wal_files[current_wal_id], r)
           /\ \A id \in DOMAIN wal_files : id # current_wal_id => Logged(r)[id] = wal_files[id]
           /\ wal_files[current_wal_id] \in Log
           /\ Append(wal_files[current_wal_id], r) # <<>>
<1>1. wal_files[current_wal_id] \in Log
    BY DEF TypeOK, DiskTypes
<1>2. Append(wal_files[current_wal_id], r) # <<>>
    BY <1>1 DEF Log
<1> QED
    BY <1>1, <1>2 DEF Logged

\* Segments that are clean after an append to the active one were clean before
\* it, and that one was not torn.
LEMMA LoggedClean ==
    ASSUME TypeOK, current_wal_id \in DOMAIN wal_files, NEW r \in Record \cup {Torn},
           wal_files' = Logged(r), NoBuriedTear', Used' \subseteq {current_wal_id}
    PROVE  NoBuriedTear /\ Used \subseteq {current_wal_id} /\ Untorn(wal_files[current_wal_id])
<1>1. /\ DOMAIN wal_files' = DOMAIN wal_files
      /\ wal_files'[current_wal_id] = Append(wal_files[current_wal_id], r)
      /\ \A id \in DOMAIN wal_files : id # current_wal_id => wal_files'[id] = wal_files[id]
      /\ wal_files[current_wal_id] \in Log
    BY LoggedFacts
<1>2. \A id \in DOMAIN wal_files' : ~ BuriedTear(wal_files'[id])
    BY DEF NoBuriedTear
<1>3. Untorn(wal_files[current_wal_id])
    BY <1>1, <1>2, AppendedToUntorn
<1>4. NoBuriedTear
    BY <1>1, <1>2, <1>3, UntornIsWhole DEF NoBuriedTear
<1>5. Used \subseteq {current_wal_id}
    <2>1. Used' = {id \in DOMAIN wal_files' : wal_files'[id] # <<>>}
        BY DEF Used
    <2> QED
        BY <1>1, <2>1 DEF Used
<1> QED
    BY <1>3, <1>4, <1>5

\* An active segment with the number id is a segment that was there, or empty.
LEMMA OpenedFacts ==
    ASSUME NEW id, OpenSegment(id)
    PROVE  /\ DOMAIN wal_files' = DOMAIN wal_files \cup {id}
           /\ \A w \in DOMAIN wal_files : wal_files'[w] = wal_files[w]
           /\ id \notin DOMAIN wal_files => wal_files'[id] = <<>>
           /\ Used' = Used
           /\ NoBuriedTear' <=> NoBuriedTear
<1>1. /\ DOMAIN wal_files' = DOMAIN wal_files \cup {id}
      /\ \A w \in DOMAIN wal_files : wal_files'[w] = wal_files[w]
      /\ id \notin DOMAIN wal_files => wal_files'[id] = <<>>
    BY DEF OpenSegment, WriteFile
<1>2. Used' = {w \in DOMAIN wal_files' : wal_files'[w] # <<>>}
    BY DEF Used
<1>3. Used' = Used
    BY <1>1, <1>2 DEF Used
<1>4. NoBuriedTear' <=> \A w \in DOMAIN wal_files' : ~ BuriedTear(wal_files'[w])
    BY DEF NoBuriedTear
<1> QED
    BY <1>1, <1>3, <1>4, ReplayOfNothing DEF NoBuriedTear

\* The active segment exists.
LEMMA ActiveStep ==
    ASSUME FilesInv, CallInv, ActiveInv, [Next]_vars
    PROVE  ActiveInv'
<1> USE DEF files, object, locals, meta, logs, tree, writer
<1>0. LocalsInv /\ TypeOK
    BY DEF FilesInv
<1> SUFFICES ASSUME Serving', wal' = "open"
             PROVE  current_wal_id' \in DOMAIN wal_files'
    BY DEF ActiveInv
<1>1. CASE OpenWal \/ NextWal
    <2>1. CASE OpenSegment(current_wal_id')
        BY <2>1 DEF OpenSegment, WriteFile
    <2>2. CASE NextWal /\ UNCHANGED wal
        BY <2>2 DEF CallInv, NextWal
    <2> QED
        BY <1>1, <2>1, <2>2 DEF OpenWal, NextWal
<1>2. CASE ~ OpenWal /\ UNCHANGED <<current_wal_id, wal>> /\ DOMAIN wal_files' = DOMAIN wal_files
    BY <1>2, ServingStep DEF ActiveInv
<1>3. CASE SyncWal
    BY <1>2, <1>3 DEF SyncWal, Logged, OpenWal
<1>4. CASE SealWal
    BY <1>4 DEF SealWal
<1>5. CASE ReplayNext
    BY <1>5 DEF ReplayNext, CallInv, After, Serving
<1>6. CASE Next /\ ~ (OpenWal \/ NextWal \/ SyncWal \/ SealWal \/ ReplayNext)
    <2>1. UNCHANGED <<current_wal_id, wal, wal_files>>
        BY <1>6
        DEF Next, Work, Client, Step, Serving,
            Open, Write, FlushMemtable, Compact, Close, RemoveTmp, RemoveDone,
            LoadListed, LoadScanned, LoadFails, RemoveOrphans, OpenWalFails,
            WriteManifest, RenameManifest, RetryRename, ApplyWrite, FlushBuild, FlushWrite,
            DropDone, MergeNext, CompactBuild, CompactWrite, DropOld, CompactEnd, Unwind, Crash,
            BuildSst, Halt
    <2> QED
        BY <1>2, <1>6, <2>1
<1>7. CASE UNCHANGED vars
    <2>1. ~ OpenWal
        BY <1>7 DEF vars, OpenWal, Return
    <2> QED
        BY <1>2, <1>7, <2>1 DEF vars
<1> QED
    BY <1>1, <1>3, <1>4, <1>5, <1>6, <1>7

\* Recovery replays the one segment that has records, and no other has any.
LEMMA RecoverStep ==
    ASSUME FilesInv, CallInv, RecoverInv, [Next]_vars, "wal_read" \notin Faults
    PROVE  RecoverInv'
<1> USE DEF files, object, locals, meta, logs, tree, writer
<1>0. LocalsInv /\ DiskTypes /\ ObjectTypes /\ ThreadTypes
    BY DEF FilesInv, TypeOK
<1> SUFFICES ASSUME pc' = "replay", NoBuriedTear', NEW u \in Nat, Used' \subseteq {u}
             PROVE  memtable' = IF u \in DOMAIN wal_files' \ segs'
                                THEN Replay(wal_files'[u]) ELSE EmptyTable
    BY DEF RecoverInv
<1>1. CASE RemoveOrphans
    <2>1. memtable' = EmptyTable /\ segs' = DOMAIN wal_files'
        BY <1>1 DEF RemoveOrphans, CallInv, After
    <2> QED
        BY <2>1
<1>2. CASE ReplayNext
    <2>1. PICK id \in segs : /\ \E table \in Readings(id) :
                                    memtable' = Overlay(table, memtable)
                             /\ segs' = segs \ {id}
        BY <1>2 DEF ReplayNext, ReplayedOver
    <2>2. UNCHANGED wal_files /\ pc = "replay" /\ id \in DOMAIN wal_files /\ segs \subseteq DOMAIN wal_files
        BY <1>0, <1>2 DEF ReplayNext, LocalsInv
    <2>3. NoBuriedTear /\ Used \subseteq {u}
        BY <2>2 DEF NoBuriedTear, Used
    <2>4. memtable = IF u \in DOMAIN wal_files \ segs THEN Replay(wal_files[u]) ELSE EmptyTable
        BY <2>2, <2>3 DEF RecoverInv
    <2>5. memtable' = Overlay(Replay(wal_files[id]), memtable)
        BY <2>1, <2>2, <2>3 DEF Readings, Replays, NoBuriedTear
    <2>6. memtable \in Table /\ Replay(wal_files[id]) \in Table
        BY <1>0, <2>2, ReplayIsTable DEF ObjectTypes, DiskTypes
    <2>7. CASE id = u
        BY <2>1, <2>2, <2>4, <2>5, <2>6, <2>7, OverlayEmpty
    <2>8. CASE id # u
        <3>1. Replay(wal_files[id]) = EmptyTable
            BY <2>2, <2>3, <2>8, ReplayOfNothing DEF Used
        <3> QED
            BY <2>1, <2>2, <2>4, <2>5, <2>6, <2>8, <3>1, OverlayEmpty
    <2> QED
        BY <2>7, <2>8
<1>3. CASE UNCHANGED vars
    <2>1. NoBuriedTear /\ Used \subseteq {u} /\ pc = "replay"
        BY <1>3 DEF vars, NoBuriedTear, Used
    <2> QED
        BY <1>3, <2>1 DEF vars, RecoverInv
<1>4. CASE Next /\ ~ (RemoveOrphans \/ ReplayNext)
    BY <1>0, <1>4
    DEF Next, Work, Client, Step, LocalsInv, ThreadTypes,
        Open, Write, FlushMemtable, Compact, Close, RemoveTmp, RemoveDone,
        LoadListed, LoadScanned, LoadFails, OpenWal, OpenWalFails,
        WriteManifest, RenameManifest, RetryRename, CommitManifest, SyncWal, ApplyWrite,
        FlushBuild, FlushWrite, SealWal, NextWal, DropDone, MergeNext, CompactBuild,
        CompactWrite, DropOld, CompactEnd, Unwind, Crash, BuildSst, UpdateManifest,
        Goto, Throw, Return, Halt
<1> QED
    BY <1>1, <1>2, <1>3, <1>4
\* Clean segments of an object that serves: only the active one has records.
LEMMA ServingClean ==
    ASSUME Serving
    PROVE  Clean <=> NoBuriedTear /\ Used \subseteq {current_wal_id}
BY DEF Clean, NoLeftover, Serving, Used

\* The active segment keeps up with the MemTable.
LEMMA ActiveLogStep ==
    ASSUME Inv, CallInv, LogsInv, [Next]_vars, "wal_write" \notin Faults
    PROVE  ActiveLogInv'
<1> USE DEF files, object, locals, meta, logs, tree, writer
<1>0. FilesInv /\ LocalsInv /\ TypeOK /\ DiskTypes /\ ObjectTypes /\ ThreadTypes
    BY DEF Inv, FilesInv, TypeOK
<1> SUFFICES ASSUME Serving', wal' = "open", Clean'
             PROVE  Replay(wal_files'[current_wal_id']) =
                        IF pc' = "apply" THEN SetEntry(memtable', rec'.key, rec'.entry)
                        ELSE memtable'
    BY DEF ActiveLogInv
<1>1. NoBuriedTear' /\ Used' \subseteq {current_wal_id'}
    BY DEF Clean, NoLeftover, Serving, Used
<1>2. CASE OpenWal
    <2>1. OpenSegment(current_wal_id') /\ current_wal_id' \in Nat
        BY <1>0, <1>2 DEF OpenWal, AtLeast, ObjectTypes
    <2>2. /\ NoBuriedTear /\ Used \subseteq {current_wal_id'}
          /\ \A w \in DOMAIN wal_files : wal_files'[w] = wal_files[w]
          /\ current_wal_id' \notin DOMAIN wal_files => wal_files'[current_wal_id'] = <<>>
        BY <1>1, <2>1, OpenedFacts
    <2>3. memtable = IF current_wal_id' \in DOMAIN wal_files
                     THEN Replay(wal_files[current_wal_id']) ELSE EmptyTable
        BY <1>2, <2>1, <2>2 DEF OpenWal, LogsInv, RecoverInv
    <2>4. memtable' = memtable /\ pc' = "idle"
        BY <1>2 DEF OpenWal, Return
    <2> QED
        BY <2>2, <2>3, <2>4, ReplayOfNothing
<1>3. CASE ~ OpenWal
    <2>1. Serving
        BY <1>0, <1>3, ServingStep DEF Inv
    <2>2. ASSUME UNCHANGED <<wal_files, current_wal_id, wal>>
          PROVE  Replay(wal_files'[current_wal_id']) =
                   IF pc = "apply" THEN SetEntry(memtable, rec.key, rec.entry) ELSE memtable
        <3>1. Clean
            BY <1>1, <2>1, <2>2, ServingClean DEF NoBuriedTear, Used
        <3> QED
            BY <2>1, <2>2, <3>1 DEF LogsInv, ActiveLogInv
    <2>3. CASE SyncWal
        <3>1. current_wal_id \in DOMAIN wal_files /\ rec \in Record /\ wal = "open" /\ pc = "sync"
            BY <1>0, <2>1, <2>3 DEF SyncWal, CallInv, LocalsInv, ThreadTypes, LogsInv, ActiveInv
        <3>2. wal_files' = Logged(rec) /\ UNCHANGED <<current_wal_id, memtable, rec>> /\ pc' = "apply"
            BY <2>3 DEF SyncWal, Goto
        <3>3. Clean /\ Untorn(wal_files[current_wal_id])
            BY <1>0, <1>1, <2>1, <3>1, <3>2, LoggedClean, ServingClean
        <3>4. Replay(wal_files[current_wal_id]) = memtable
            BY <2>1, <3>1, <3>3 DEF LogsInv, ActiveLogInv
        <3>5. /\ wal_files'[current_wal_id] = Append(wal_files[current_wal_id], rec)
              /\ wal_files[current_wal_id] \in Log
            BY <1>0, <3>1, <3>2, LoggedFacts
        <3> QED
            BY <3>1, <3>2, <3>3, <3>4, <3>5, ReplayOfAppend
    <2>4. CASE NextWal
        <3>1. /\ current_wal_id' = next_sst_id /\ OpenSegment(next_sst_id)
              /\ memtable' = EmptyTable /\ pc' = "drop_done"
            BY <2>4 DEF NextWal, NextSegment, Goto, CallInv
        <3>2. next_sst_id \notin DOMAIN wal_files
            BY <1>0, <2>4 DEF NextWal, Inv, SegmentsInv, After, ObjectTypes
        <3> QED
            BY <3>1, <3>2, OpenedFacts, ReplayOfNothing
    <2>5. CASE SealWal
        BY <2>5 DEF SealWal
    <2>6. CASE ApplyWrite
        BY <2>2, <2>6 DEF ApplyWrite, Goto, Return
    <2>7. CASE UNCHANGED vars
        BY <2>2, <2>7 DEF vars
    <2>8. CASE Next /\ ~ (OpenWal \/ SyncWal \/ NextWal \/ SealWal \/ ApplyWrite)
        <3>1. UNCHANGED <<wal_files, current_wal_id, wal, memtable>>
            BY <2>1, <2>8
            DEF Next, Work, Client, Step, Serving, CallInv, After,
                Open, Write, FlushMemtable, Compact, Close, RemoveTmp, RemoveDone,
                LoadListed, LoadScanned, LoadFails, RemoveOrphans, ReplayNext, OpenWalFails,
                WriteManifest, RenameManifest, RetryRename, FlushBuild, FlushWrite,
                DropDone, MergeNext, CompactBuild, CompactWrite, DropOld, CompactEnd, Unwind,
                Crash, BuildSst, Halt
        <3>2. pc # "apply" /\ pc' # "apply"
            BY <1>0, <2>8
            DEF Next, Work, Client, Step, LocalsInv, ThreadTypes,
                Open, Write, FlushMemtable, Compact, Close, RemoveTmp, RemoveDone,
                LoadListed, LoadScanned, LoadFails, RemoveOrphans, ReplayNext, OpenWalFails,
                WriteManifest, RenameManifest, RetryRename, CommitManifest, FlushBuild,
                FlushWrite, DropDone, MergeNext, CompactBuild, CompactWrite, DropOld,
                CompactEnd, Unwind, Crash, BuildSst, UpdateManifest, Goto, Throw, Return, Halt
        <3> QED
            BY <2>2, <3>1, <3>2
    <2> QED
        BY <1>3, <2>3, <2>4, <2>5, <2>6, <2>7, <2>8
<1> QED
    BY <1>2, <1>3

\* The records that a seal leaves behind.
LEMMA SealedLogStep ==
    ASSUME Inv, CallInv, LogsInv, [Next]_vars
    PROVE  SealedLogInv'
<1> USE DEF files, object, locals, meta, logs, tree, writer
<1>0. FilesInv /\ LocalsInv /\ TypeOK /\ DiskTypes /\ ObjectTypes /\ ThreadTypes
    BY DEF Inv, FilesInv, TypeOK
<1> SUFFICES ASSUME Serving', wal' = "null", Clean', NEW k \in Key
             PROVE  Replayed(k)' \in {NoEntry, memtable'[k]}
    BY DEF SealedLogInv
<1>1. NoBuriedTear' /\ Used' \subseteq {current_wal_id'}
    BY DEF Clean, NoLeftover, Serving, Used
<1>2. Serving
    BY <1>0, ServingStep DEF OpenWal
<1>3. CASE SealWal
    <2>1. UNCHANGED <<memtable, current_wal_id>> /\ current_wal_id \in Nat
        BY <1>0, <1>3 DEF SealWal, ObjectTypes
    <2>2. CASE wal_files' = RemoveFile(wal_files, current_wal_id)
        <3>1. current_wal_id \notin DOMAIN wal_files'
            BY <2>2 DEF RemoveFile, Restrict
        <3> QED
            BY <1>1, <2>1, <3>1, ReplayedNext
    <2>3. CASE UNCHANGED wal_files
        <3>1. Clean /\ Replayed(k)' = Replayed(k) /\ Used \subseteq {current_wal_id}
            BY <1>1, <1>2, <2>1, <2>3, ServingClean DEF NoBuriedTear, Used, Replayed
        <3>2. CASE wal = "open"
            <4>1. /\ current_wal_id \in DOMAIN wal_files
                  /\ Replay(wal_files[current_wal_id]) = memtable
                BY <1>2, <1>3, <3>1, <3>2 DEF SealWal, LogsInv, ActiveInv, ActiveLogInv
            <4> QED
                BY <2>1, <3>1, <4>1, ReplayedNow
        <3>3. CASE wal = "null"
            BY <1>2, <2>1, <3>1, <3>3 DEF LogsInv, SealedLogInv
        <3> QED
            BY <1>0, <3>2, <3>3 DEF ObjectTypes
    <2> QED
        BY <1>3, <2>2, <2>3 DEF SealWal
<1>4. CASE NextWal
    <2>1. /\ current_wal_id' = next_sst_id /\ next_sst_id \in Nat
          /\ UNCHANGED <<memtable, wal_files>>
        BY <1>0, <1>4 DEF NextWal, NextSegment, ObjectTypes
    <2>2. next_sst_id \notin DOMAIN wal_files
        BY <1>0, <1>4 DEF NextWal, Inv, SegmentsInv, After, ObjectTypes
    <2> QED
        BY <1>1, <2>1, <2>2, ReplayedNext
<1>5. CASE UNCHANGED <<wal_files, current_wal_id, wal, memtable>>
    <2>1. Clean /\ Replayed(k)' = Replayed(k)
        BY <1>1, <1>2, <1>5, ServingClean DEF NoBuriedTear, Used, Replayed
    <2> QED
        BY <1>2, <1>5, <2>1 DEF LogsInv, SealedLogInv
<1>6. CASE UNCHANGED vars
    BY <1>5, <1>6 DEF vars
<1>7. CASE Next /\ ~ (SealWal \/ NextWal)
    <2>1. UNCHANGED <<wal_files, current_wal_id, wal, memtable>>
        BY <1>0, <1>2, <1>7
        DEF Next, Work, Client, Step, Serving, CallInv, After,
            Open, Write, FlushMemtable, Compact, Close, RemoveTmp, RemoveDone,
            LoadListed, LoadScanned, LoadFails, RemoveOrphans, ReplayNext, OpenWal, OpenWalFails,
            WriteManifest, RenameManifest, RetryRename, SyncWal, ApplyWrite, FlushBuild,
            FlushWrite, DropDone, MergeNext, CompactBuild, CompactWrite, DropOld, CompactEnd,
            Unwind, Crash, BuildSst, Halt
    <2> QED
        BY <1>5, <2>1
<1> QED
    BY <1>3, <1>4, <1>6, <1>7

\* No segment satisfies it.
LEMMA LogsInit == Init => LogsInv
<1> SUFFICES ASSUME Init
             PROVE  LogsInv
    OBVIOUS
<1> QED
    BY DEF Init, LogsInv, ActiveInv, RecoverInv, ActiveLogInv, SealedLogInv, Serving

\* Every step preserves it, if the log takes what it is given and gives it back.
LEMMA LogsStep ==
    ASSUME "wal_write" \notin Faults, "wal_read" \notin Faults
    PROVE  Inv /\ CallInv /\ LogsInv /\ [Next]_vars => LogsInv'
BY ActiveStep, RecoverStep, ActiveLogStep, SealedLogStep DEF LogsInv, Inv

-----------------------------------------------------------------------------
(* Theorems.                                                               *)

\* The two invariants hold.
LEMMA CallInit == Init => CallInv
BY TablesInit DEF TablesInv

\* Between calls the MemTable is what a replay of the active segment yields,
\* whatever fails but the write to the log and the opening of a segment to read
\* it: a flush seals a segment whose records are all in the SSTable it wrote, and
\* no other records.
THEOREM SegmentAlwaysMatchesMemTable ==
    ASSUME "wal_write" \notin Faults, "wal_read" \notin Faults
    PROVE  Spec => []SegmentMatchesMemTable
<1>1. Init => Inv /\ CallInv /\ LogsInv
    BY InvInit, CallInit, LogsInit
<1>2. Inv /\ CallInv /\ LogsInv /\ [Next]_vars => (Inv /\ CallInv /\ LogsInv)'
    BY InvStep, CallStep, LogsStep DEF Inv
<1>3. Inv /\ CallInv /\ LogsInv => SegmentMatchesMemTable
    BY DEF SegmentMatchesMemTable, LogsInv, ActiveLogInv, Serving, CallInv, After, Updating
<1> QED
    BY <1>1, <1>2, <1>3, PTL DEF Spec

-----------------------------------------------------------------------------
(* What readers see, and what a restart would find.                        *)

\* They are the same in an object that serves, but for the write being applied.
ServedInv ==
    (Serving /\ Clean /\ pc # "apply") => \A k \in Key : Get(k) = Recoverable[k]

\* Before the first MANIFEST there is no SSTable.
LEMMA CommittedIsStored ==
    ASSUME FirstInv, NEW k \in Key
    PROVE  Committed(k) = Stored(k)
<1>1. CASE manifest # Nil
    BY <1>1 DEF Committed, Stored, Live
<1>2. CASE manifest = Nil
    <2>1. Newest(sst_files, k) = NoEntry
        BY <1>2 DEF FirstInv, Newest
    <2>2. Lookup(sst_files, <<>>, k) = NoEntry
        BY LookupShort
    <2> QED
        BY <1>2, <2>1, <2>2 DEF Committed, Stored, Live
<1> QED
    BY <1>1, <1>2

\* The MemTable and the segments know the same entries, or entries that the
\* list on disk knows too.
LEMMA ServedIsRecoverable == FilesInv /\ TablesInv /\ LogsInv => ServedInv
<1> SUFFICES ASSUME FilesInv, TablesInv, LogsInv, Serving, Clean, pc # "apply", NEW k \in Key
             PROVE  Get(k) = Recoverable[k]
    BY DEF ServedInv
<1>0. ObjectTypes /\ ThreadTypes /\ LocalsInv /\ CallInv
    BY DEF FilesInv, TypeOK, TablesInv
<1>1. memtable[k] = NoEntry => Visible(Listed(k)) = Visible(Stored(k))
    <2>1. Loaded
        BY <1>0 DEF Serving, Loaded, CallInv, After, Updating, LocalsInv
    <2> QED
        BY <2>1 DEF TablesInv, AgreeInv
<1>2. \/ Replayed(k) = memtable[k]
      \/ Replayed(k) = NoEntry /\ (memtable[k] # NoEntry => Stored(k) = memtable[k])
    <2>1. CASE wal = "open"
        <3>1. /\ current_wal_id \in DOMAIN wal_files /\ current_wal_id \in Nat
              /\ Replay(wal_files[current_wal_id]) = memtable
            BY <1>0, <2>1 DEF LogsInv, ActiveInv, ActiveLogInv, ObjectTypes
        <3>2. Used \subseteq {current_wal_id}
            BY ServingClean
        <3> QED
            BY <3>1, <3>2, ReplayedNow
    <2>2. CASE wal = "null"
        BY <2>2 DEF LogsInv, SealedLogInv, TablesInv, KeptInv
    <2> QED
        BY <1>0, <2>1, <2>2 DEF ObjectTypes
<1>3. Committed(k) = Stored(k)
    BY CommittedIsStored DEF TablesInv
<1>4. Recoverable[k] = Visible(IF Replayed(k) # NoEntry THEN Replayed(k) ELSE Stored(k))
    BY <1>3 DEF Recoverable
<1>5. Get(k) = Visible(IF memtable[k] # NoEntry THEN memtable[k] ELSE Listed(k))
    BY DEF Get, Listed
<1> QED
    BY <1>1, <1>2, <1>4, <1>5

\* The invariants, together.
LEMMA StoreAlways ==
    ASSUME Faults \subseteq Tolerated
    PROVE  Spec => [](Inv /\ TablesInv /\ LogsInv)
<1>1. Init => Inv /\ TablesInv /\ LogsInv
    BY InvInit, TablesInit, LogsInit
<1>2. Inv /\ TablesInv /\ LogsInv /\ [Next]_vars => (Inv /\ TablesInv /\ LogsInv)'
    <2>1. "wal_write" \notin Faults /\ "wal_read" \notin Faults
        BY DEF Tolerated
    <2> QED
        BY <2>1, InvStep, TablesStep, LogsStep DEF Inv, TablesInv
<1> QED
    BY <1>1, <1>2, PTL DEF Spec

\* Between calls, readers see what a restart would find: no write is visible
\* that would be lost, none is hidden that would come back (db.cpp, get).
THEOREM ReadsAlwaysMatchDisk ==
    ASSUME Faults \subseteq Tolerated
    PROVE  Spec => []ReadsMatchDisk
<1>1. Inv /\ TablesInv /\ LogsInv => ReadsMatchDisk
    <2> SUFFICES ASSUME Inv, TablesInv, LogsInv, pc = "idle", Clean, NEW k \in Key
                 PROVE  Get(k) = Recoverable[k]
        BY DEF ReadsMatchDisk
    <2>1. Serving
        BY DEF Serving, TablesInv, CallInv, After, Updating
    <2> QED
        BY <2>1, ServedIsRecoverable DEF ServedInv, Inv
<1> QED
    BY <1>1, StoreAlways, PTL

-----------------------------------------------------------------------------
(* The durable map.                                                        *)

\* The steps of a call change nothing for readers, but the one that applies a
\* write.
LEMMA GetStep ==
    ASSUME FilesInv, TablesInv, [Next]_vars, Serving, Serving', pc # "apply",
           Faults \subseteq Tolerated, NEW k \in Key
    PROVE  Get(k)' = Get(k)
<1> USE DEF files, object, locals, meta, logs, tree, writer
<1>0. /\ DiskTypes /\ ObjectTypes /\ ThreadTypes /\ LocalsInv
      /\ CallInv /\ MergeInv /\ SavedInv
    BY DEF FilesInv, TypeOK, TablesInv
<1>1. /\ Get(k) = Visible(IF memtable[k] # NoEntry THEN memtable[k] ELSE Listed(k))
      /\ Get(k)' = Visible(IF memtable'[k] # NoEntry THEN memtable'[k] ELSE Listed(k)')
    BY DEF Get, Listed, Visible
<1>2. CASE UNCHANGED <<memtable, sstables>>
    BY <1>1, <1>2, Unmoved
<1>3. CASE FlushWrite
    <2>1. UNCHANGED memtable
        BY <1>3 DEF FlushWrite
    <2>2. CASE sstables' = WithNewest
        BY <1>1, <1>3, <2>1, <2>2, FlushedTable
    <2> QED
        BY <1>2, <1>3, <2>1, <2>2 DEF FlushWrite
<1>4. CASE CompactWrite
    <2>1. UNCHANGED memtable /\ sstables' = <<Built>>
        BY <1>4 DEF CompactWrite, Tolerated
    <2>2. Visible(Listed(k)') = Visible(Listed(k))
        BY <1>0, <1>4, <2>1, MergedTable
    <2> QED
        BY <1>1, <2>1, <2>2
<1>5. CASE NextWal
    <2>1. UNCHANGED sstables
        BY <1>5 DEF NextWal
    <2>2. CASE UNCHANGED memtable
        BY <1>2, <2>1, <2>2
    <2>3. CASE memtable' = EmptyTable
        <3>1. memtable'[k] = NoEntry
            BY <2>3 DEF EmptyTable
        <3>2. memtable[k] # NoEntry => Listed(k) = memtable[k]
            BY <1>0, <1>5 DEF NextWal, SavedInv, After
        <3>3. Listed(k)' = Listed(k)
            BY <2>1, Unmoved
        <3> QED
            BY <1>1, <3>1, <3>2, <3>3
    <2> QED
        BY <1>5, <2>2, <2>3 DEF NextWal
<1>6. CASE UNCHANGED vars
    BY <1>2, <1>6 DEF vars
<1>7. CASE Next /\ ~ (FlushWrite \/ CompactWrite \/ NextWal)
    <2>1. UNCHANGED <<memtable, sstables>>
        BY <1>0, <1>7
        DEF Next, Work, Client, Step, Serving, CallInv, After,
            Open, Write, FlushMemtable, Compact, Close, RemoveTmp, RemoveDone,
            LoadListed, LoadScanned, LoadFails, RemoveOrphans, ReplayNext, OpenWal, OpenWalFails,
            WriteManifest, RenameManifest, RetryRename, SyncWal, ApplyWrite, FlushBuild,
            SealWal, DropDone, MergeNext, CompactBuild, DropOld, CompactEnd,
            Unwind, Crash, BuildSst, Halt
    <2> QED
        BY <1>2, <2>1
<1> QED
    BY <1>3, <1>4, <1>5, <1>6, <1>7

\* Nor does a recovery, the end of a call or of the process, unless a write is
\* in flight.
LEMMA RestartStep ==
    ASSUME Inv, TablesInv, LogsInv, Clean, Clean', [Next]_vars, ~ Serving \/ ~ Serving',
           pc # "sync", Faults \subseteq Tolerated, NEW k \in Key
    PROVE  Recoverable[k]' = Recoverable[k]
<1> USE DEF files, object, locals, meta, logs, tree, writer
<1>0. /\ FilesInv /\ DiskTypes /\ ObjectTypes /\ ThreadTypes /\ LocalsInv /\ TypeOK
      /\ CallInv /\ FirstInv /\ AgreeInv
    BY DEF Inv, FilesInv, TypeOK, TablesInv
<1>1. FirstInv' /\ AgreeInv' /\ CallInv'
    BY <1>0, FirstStep, AgreeStep, CallStep
<1>2. /\ Recoverable[k] = Visible(IF Replayed(k) # NoEntry THEN Replayed(k) ELSE Stored(k))
      /\ Recoverable[k]' = Visible(IF Replayed(k)' # NoEntry THEN Replayed(k)' ELSE Stored(k)')
    <2>1. Committed(k) = Stored(k)
        BY <1>0, CommittedIsStored
    <2>2. Committed(k)' = Stored(k)'
        <3>1. CASE manifest' # Nil
            BY <3>1 DEF Committed, Stored, Live
        <3>2. CASE manifest' = Nil
            <4>1. Newest(sst_files', k) = NoEntry
                BY <1>1, <3>2 DEF FirstInv, Newest
            <4>2. Lookup(sst_files', <<>>, k) = NoEntry
                BY LookupShort
            <4> QED
                BY <3>2, <4>1, <4>2 DEF Committed, Stored, Live
        <3> QED
            BY <3>1, <3>2
    <2> QED
        BY <2>1, <2>2 DEF Recoverable, Visible
<1>3. Visible(Stored(k)') = Visible(Stored(k))
    <2>1. CASE UNCHANGED manifest
        BY <2>1, <1>0, Unmoved
    <2>2. CASE ~ UNCHANGED manifest
        <3>1. /\ RenameManifest \/ RetryRename
              /\ CommitManifest /\ UNCHANGED <<memtable, sstables>> /\ ~ Serving
            <4>1. RenameManifest \/ RetryRename
                BY <2>2
                DEF Next, Work, Client, Step, vars,
                    Open, Write, FlushMemtable, Compact, Close, RemoveTmp, RemoveDone,
                    LoadListed, LoadScanned, LoadFails, RemoveOrphans, ReplayNext, OpenWal,
                    OpenWalFails, WriteManifest, SyncWal, ApplyWrite, FlushBuild, FlushWrite,
                    SealWal, NextWal, DropDone, MergeNext, CompactBuild, CompactWrite, DropOld,
                    CompactEnd, Unwind, Crash, BuildSst
            <4>2. CommitManifest /\ UNCHANGED <<memtable, sstables>>
                BY <2>2, <4>1 DEF RenameManifest, RetryRename, RenameMayFail, Tolerated
            <4>3. ~ Serving
                BY <1>0, <4>1, <4>2
                DEF Serving, RenameManifest, RetryRename, CommitManifest, Goto, LocalsInv, ThreadTypes
            <4> QED
                BY <4>1, <4>2, <4>3
        <3>2. /\ Loaded /\ Loaded' /\ memtable = EmptyTable
            BY <1>0, <3>1
            DEF RenameManifest, RetryRename, CommitManifest, Serving, CallInv, After, Updating,
                Loaded, LocalsInv, Goto, ThreadTypes
        <3>3. memtable[k] = NoEntry /\ memtable'[k] = NoEntry
            BY <3>1, <3>2 DEF EmptyTable
        <3>4. Visible(Listed(k)) = Visible(Stored(k)) /\ Visible(Listed(k)') = Visible(Stored(k)')
            BY <1>0, <1>1, <3>2, <3>3 DEF AgreeInv, Visible
        <3> QED
            BY <1>0, <3>1, <3>4, Unmoved
    <2> QED
        BY <2>1, <2>2
<1>4. Replayed(k)' = Replayed(k)
    <2>1. CASE UNCHANGED wal_files
        BY <2>1 DEF Replayed
    <2>2. CASE ~ UNCHANGED wal_files
        <3>1. OpenWal
            BY <1>0, <2>2
            DEF Next, Work, Client, Step, vars, Serving, CallInv, After, Updating,
                Open, Write, FlushMemtable, Compact, Close, RemoveTmp, RemoveDone,
                LoadListed, LoadScanned, LoadFails, RemoveOrphans, ReplayNext,
                OpenWalFails, WriteManifest, RenameManifest, RetryRename, SyncWal, ApplyWrite,
                FlushBuild, FlushWrite, SealWal, NextWal, DropDone, MergeNext, CompactBuild,
                CompactWrite, DropOld, CompactEnd, Unwind, Crash, BuildSst, Goto, Throw
        <3>2. ~ Serving
            BY <1>0, <3>1 DEF OpenWal, Serving, CallInv, After
        <3>3. PICK u \in Nat : Used \subseteq {u}
            BY <1>0, <3>2, CleanFacts
        <3>4. OpenSegment(current_wal_id')
            BY <3>1 DEF OpenWal
        <3>5. /\ DOMAIN wal_files' = DOMAIN wal_files \cup {current_wal_id'}
              /\ \A w \in DOMAIN wal_files : wal_files'[w] = wal_files[w]
              /\ current_wal_id' \notin DOMAIN wal_files => wal_files'[current_wal_id'] = <<>>
              /\ Used' \subseteq {u}
            BY <3>3, <3>4, OpenedFacts
        <3>6. /\ u \in DOMAIN wal_files => Replayed(k) = Replay(wal_files[u])[k]
              /\ u \notin DOMAIN wal_files => Replayed(k) = NoEntry
            BY <3>3, ReplayedNow
        <3>7. /\ u \in DOMAIN wal_files' => Replayed(k)' = Replay(wal_files'[u])[k]
              /\ u \notin DOMAIN wal_files' => Replayed(k)' = NoEntry
            BY <3>5, ReplayedNext
        <3>8. Replay(<<>>)[k] = NoEntry
            BY ReplayOfNothing DEF EmptyTable
        <3> QED
            BY <3>5, <3>6, <3>7, <3>8
    <2> QED
        BY <2>1, <2>2
<1> QED
    BY <1>2, <1>3, <1>4 DEF Visible

\* When the record in flight is in the log, the write has landed; when it is cut,
\* it has not.
LEMMA LandedStep ==
    ASSUME Inv, TablesInv, LogsInv, Serving, pc = "sync", UNCHANGED <<manifest, sst_files>>,
           NoBuriedTear', Used' \subseteq {current_wal_id},
           NEW k \in Key
    PROVE  /\ rec \in Record
           /\ wal_files' = Logged(rec) =>
                Recoverable[k]' = IF k = rec.key THEN Visible(rec.entry) ELSE Recoverable[k]
           /\ wal_files' = Logged(Torn) => Recoverable[k]' = Recoverable[k]
<1> DEFINE log == wal_files[current_wal_id]
<1>0. /\ TypeOK /\ current_wal_id \in Nat
      /\ current_wal_id \in DOMAIN wal_files
      /\ rec \in Record
    BY DEF Inv, FilesInv, TypeOK, ObjectTypes, ThreadTypes, LocalsInv, TablesInv, CallInv,
           LogsInv, ActiveInv
<1>1. /\ Recoverable[k] = Visible(IF Replayed(k) # NoEntry THEN Replayed(k) ELSE Committed(k))
      /\ Recoverable[k]' = Visible(IF Replayed(k)' # NoEntry THEN Replayed(k)' ELSE Committed(k))
    BY DEF Recoverable, Committed, Visible
<1>2. ASSUME NEW r \in Record \cup {Torn}, wal_files' = Logged(r)
      PROVE  /\ Replayed(k) = Replay(log)[k] /\ Replayed(k)' = Replay(Append(log, r))[k]
             /\ log \in Log /\ Untorn(log)
    <2>1. Used \subseteq {current_wal_id} /\ Untorn(log)
        BY <1>0, <1>2, LoggedClean
    <2>2. /\ current_wal_id \in DOMAIN wal_files'
          /\ wal_files'[current_wal_id] = Append(log, r)
          /\ log \in Log
        BY <1>0, <1>2, LoggedFacts
    <2>3. Replayed(k) = Replay(log)[k]
        BY <1>0, <2>1, ReplayedNow
    <2>4. Replayed(k)' = Replay(Append(log, r))[k]
        BY <1>0, <2>2, ReplayedNext
    <2> QED
        BY <2>1, <2>2, <2>3, <2>4
<1> HIDE DEF log
<1>3. ASSUME wal_files' = Logged(rec)
      PROVE  Recoverable[k]' = IF k = rec.key THEN Visible(rec.entry) ELSE Recoverable[k]
    <2>1. /\ Replayed(k) = Replay(log)[k] /\ Replayed(k)' = Replay(Append(log, rec))[k]
          /\ log \in Log /\ Untorn(log)
        BY <1>0, <1>2, <1>3
    <2>2. Replay(Append(log, rec)) = SetEntry(Replay(log), rec.key, rec.entry)
        BY <1>0, <2>1, ReplayOfAppend
    <2>3. Replay(log) \in Table
        BY <2>1, ReplayIsTable
    <2>4. Replayed(k)' = IF k = rec.key THEN rec.entry ELSE Replayed(k)
        BY <2>1, <2>2, <2>3 DEF SetEntry, Table
    <2>5. rec.entry # NoEntry
        BY <1>0, EntryAssumption DEF Record, Written
    <2> QED
        BY <1>1, <2>4, <2>5
<1>4. ASSUME wal_files' = Logged(Torn)
      PROVE  Recoverable[k]' = Recoverable[k]
    <2>1. /\ Replayed(k) = Replay(log)[k] /\ Replayed(k)' = Replay(Append(log, Torn))[k]
          /\ log \in Log /\ Untorn(log)
        BY <1>2, <1>4
    <2> QED
        BY <1>1, <2>1, ReplayOfTear
<1> QED
    BY <1>0, <1>3, <1>4

\* While the segments are clean, every step is a step of the durable map, or
\* changes nothing of it.
LEMMA DurableStep ==
    ASSUME Inv, TablesInv, LogsInv, ServedInv, ServedInv', Clean, Clean', [Next]_vars,
           Faults \subseteq Tolerated
    PROVE  [DM!Next]_(DM!vars)
<1> USE DEF files, object, locals, meta, logs, tree, writer
<1>0. FilesInv /\ LocalsInv /\ TypeOK /\ ThreadTypes /\ ObjectTypes /\ CallInv
    BY DEF Inv, FilesInv, TypeOK, TablesInv
<1>1. CallInv'
    BY <1>0, CallStep
<1>2. ASSUME \A k \in Key : Recoverable[k]' = Recoverable[k]
      PROVE  Recoverable' = Recoverable
    BY <1>2 DEF Recoverable
<1>3. ASSUME \A k \in Key : Recoverable[k]' =
                 IF k = rec.key THEN Visible(rec.entry) ELSE Recoverable[k]
      PROVE  Recoverable' = DM!With(rec)
    BY <1>3 DEF Recoverable, DM!With, Visible
<1>4. CASE UNCHANGED vars
    <2>1. \A k \in Key : Recoverable[k]' = Recoverable[k]
        BY <1>4 DEF vars, Recoverable, Replayed, Committed, Visible
    <2> QED
        BY <1>2, <1>4, <2>1 DEF vars, DM!vars
<1>5. CASE SyncWal
    <2>1. /\ pc = "sync" /\ pc' = "apply" /\ wal_files' = Logged(rec)
          /\ UNCHANGED <<call, rec, manifest, sst_files, current_wal_id>>
        BY <1>5 DEF SyncWal, Goto, Tolerated
    <2>2. Serving /\ Serving'
        BY <1>0, <2>1 DEF Serving, CallInv, After, Updating
    <2>3. NoBuriedTear' /\ Used' \subseteq {current_wal_id}
        BY <2>1, <2>2 DEF Clean, NoLeftover, Serving, Used
    <2>4. Recoverable' = DM!With(rec)
        BY <1>3, <2>1, <2>2, <2>3, LandedStep
    <2>5. rec # Nil
        BY <1>0, <2>1 DEF LocalsInv
    <2> QED
        BY <2>1, <2>4, <2>5 DEF DM!Next, DM!Land
<1>6. CASE Crash /\ pc = "sync"
    <2>1. /\ pc' = "down" /\ rec' = Nil /\ rec # Nil
          /\ UNCHANGED <<manifest, sst_files>>
          /\ wal_files' \in {wal_files, Logged(rec), Logged(Torn)}
        BY <1>0, <1>6 DEF Crash, Halt, Leave, LocalsInv
    <2>2. Serving
        BY <1>0, <1>6 DEF Serving, CallInv, After, Updating
    <2>3. Recoverable' = Recoverable \/ Recoverable' = DM!With(rec)
        <3>1. CASE UNCHANGED wal_files
            BY <1>2, <2>1, <3>1 DEF Recoverable, Replayed, Committed, Visible
        <3>2. CASE wal_files' \in {Logged(rec), Logged(Torn)}
            <4>1. current_wal_id \in DOMAIN wal_files /\ rec \in Record
                BY <1>0, <1>6, <2>2 DEF CallInv, LocalsInv, ThreadTypes, LogsInv, ActiveInv
            <4>2. /\ current_wal_id \in DOMAIN wal_files'
                  /\ wal_files'[current_wal_id] # <<>>
                BY <1>0, <3>2, <4>1, LoggedFacts
            <4>3. NoBuriedTear' /\ Used' \subseteq {current_wal_id}
                BY <2>1, <4>2 DEF Clean, NoLeftover, Used
            <4> QED
                BY <1>2, <1>3, <1>6, <2>1, <2>2, <3>2, <4>3, LandedStep
        <3> QED
            BY <2>1, <3>1, <3>2
    <2> QED
        BY <1>6, <2>1, <2>3 DEF DM!Next, DM!Crash
<1>7. CASE Crash /\ pc # "sync"
    <2>1. pc' = "down" /\ rec' = Nil
        BY <1>7 DEF Crash, Halt, Leave
    <2>2. Recoverable' = Recoverable
        BY <1>2, <1>7, <2>1, RestartStep DEF Serving
    <2>3. CASE pc = "apply"
        BY <1>0, <2>1, <2>2, <2>3 DEF LocalsInv, DM!Next, DM!Crash
    <2>4. CASE pc # "apply"
        BY <1>0, <1>7, <2>1, <2>2, <2>4 DEF CallInv, DM!vars
    <2> QED
        BY <2>3, <2>4
<1>8. CASE \E k \in Key, e \in Written : Write(k, e)
    <2>1. /\ pc = "idle" /\ pc' = "sync" /\ call' = "write" /\ rec' \in Record
        BY <1>8 DEF Write, Record
    <2>2. Serving /\ Serving'
        BY <1>0, <2>1 DEF Serving, CallInv, After, Updating
    <2>3. ASSUME NEW k \in Key
          PROVE  Recoverable[k]' = Recoverable[k]
        <3>1. Get(k)' = Get(k)
            BY <1>0, <2>1, <2>2, GetStep
        <3> QED
            BY <2>1, <2>2, <3>1 DEF ServedInv
    <2>4. rec = Nil /\ rec' \in DM!Write
        BY <1>0, <2>1 DEF CallInv, Record, Written, DM!Write
    <2> QED
        BY <1>2, <2>1, <2>3, <2>4 DEF DM!Next, DM!Begin
<1>9. CASE ApplyWrite
    <2>1. pc = "apply" /\ rec # Nil /\ pc' # "apply" /\ rec' = Nil
        BY <1>0, <1>9 DEF ApplyWrite, LocalsInv, Goto, Return, Leave
    <2>2. UNCHANGED <<manifest, sst_files, wal_files>>
        BY <1>9 DEF ApplyWrite
    <2>3. Recoverable' = Recoverable
        BY <1>2, <2>2 DEF Recoverable, Replayed, Committed, Visible
    <2> QED
        BY <2>1, <2>3 DEF DM!Next, DM!Return
<1>10. CASE Next /\ ~ (\/ SyncWal \/ Crash \/ ApplyWrite
                       \/ \E k \in Key, e \in Written : Write(k, e))
    <2>1. pc \notin {"sync", "apply"} /\ pc' \notin {"sync", "apply"}
        BY <1>0, <1>10
        DEF Next, Work, Client, Step, LocalsInv, ThreadTypes,
            Open, FlushMemtable, Compact, Close, RemoveTmp, RemoveDone,
            LoadListed, LoadScanned, LoadFails, RemoveOrphans, ReplayNext, OpenWal, OpenWalFails,
            WriteManifest, RenameManifest, RetryRename, CommitManifest, FlushBuild,
            FlushWrite, SealWal, NextWal, DropDone, MergeNext, CompactBuild,
            CompactWrite, DropOld, CompactEnd, Unwind, BuildSst, UpdateManifest,
            Goto, Throw, Return, Halt
    <2>2. rec = Nil /\ rec' = Nil
        BY <1>0, <1>1, <2>1 DEF CallInv
    <2>3. ASSUME NEW k \in Key
          PROVE  Recoverable[k]' = Recoverable[k]
        <3>1. CASE Serving /\ Serving'
            <4>1. Get(k)' = Get(k)
                BY <1>0, <2>1, <3>1, GetStep
            <4> QED
                BY <2>1, <3>1, <4>1 DEF ServedInv
        <3>2. CASE ~ Serving \/ ~ Serving'
            BY <2>1, <3>2, RestartStep
        <3> QED
            BY <3>1, <3>2
    <2> QED
        BY <1>2, <2>1, <2>2, <2>3 DEF DM!vars
<1> QED
    BY <1>4, <1>5, <1>6, <1>7, <1>8, <1>9, <1>10 DEF Next, Work, Client, Step

\* For as long as the segments are clean, whatever tolerated call fails and
\* wherever the process ends, a write is in the log before it returns, a crash
\* keeps or drops the write in flight, and no step of a recovery, a flush or a
\* compaction changes what a restart would find (db.h, "Durability contract").
THEOREM DurableWhileAlwaysClean ==
    ASSUME Faults \subseteq Tolerated
    PROVE  Spec => DurableWhileClean
<1>1. Inv /\ TablesInv /\ LogsInv => ServedInv
    BY ServedIsRecoverable DEF Inv
<1>2. /\ Inv /\ TablesInv /\ LogsInv /\ ServedInv /\ ServedInv' /\ [Next]_vars
      => [Clean /\ Clean' => [DM!Next]_(DM!vars)]_vars
    BY DurableStep
<1> QED
    BY <1>1, <1>2, StoreAlways, PTL DEF Spec, DurableWhileClean
=============================================================================
