--------------------------- MODULE KVStoreProofs ---------------------------
(***************************************************************************)
(* Proofs about the files of the storage engine, for every set of keys and *)
(* values, all options, and every set of failures of the file system: the  *)
(* MANIFEST names files that exist, newest first, that never change while  *)
(* it names them, its generation grows, and a flush goes on with an empty  *)
(* segment.                                                                *)
(*                                                                         *)
(* FilesInv and Inv are inductive.  For each of their conjuncts a lemma    *)
(* proves that every step preserves it; the theorems follow the lemmas     *)
(* they rest on.                                                           *)
(***************************************************************************)
EXTENDS KVStoreProperties, LsmTablesProofs

-----------------------------------------------------------------------------
(* The inductive invariant.                                                *)

\* The constructor has read the list of SSTables.
Loaded ==
    /\ pc \notin {"down", "remove_tmp", "remove_done", "load"}
    /\ ~ (pc = "unwind" /\ call = "open")

\* update_manifest_locked runs.
Updating == pc \in {"write_manifest", "rename_manifest", "retry_rename"}

\* It runs, or has just run, on behalf of the steps at and after p.
After(p, steps) == (Updating /\ ret = p) \/ pc \in steps

\* What the locals hold where they are used.
LocalsInv ==
    /\ pc \in {"down", "remove_tmp", "remove_done", "load"} => current_wal_id = 0
    /\ pc \in {"remove_tmp", "remove_done", "load"} => call = "open"
    /\ pc \in {"sync", "apply"} => rec # Nil
    /\ Updating => ret # "none"
    /\ pc = "replay" => segs \subseteq DOMAIN wal_files

\* The list in memory and the list on disk.
ListsInv ==
    /\ IsFiniteSet(DOMAIN sst_files)
    /\ ManifestSound
    /\ Range(sstables) \subseteq DOMAIN sst_files
    /\ NewestFirst
    /\ (Loaded /\ manifest # Nil) => \A id \in Range(manifest.live) : id < next_sst_id

\* Where the two are the same.
CommittedInv ==
    pc \in {"remove_orphans", "replay", "seal", "next_wal", "drop_old"} =>
        manifest # Nil /\ manifest.live = sstables

\* The number of the SSTable under construction is above all others.
BuildInv ==
    pc \in {"write_sst", "write_merged"} =>
        /\ next_sst_id # 0
        /\ \A id \in Range(sstables) : id < Built
        /\ manifest # Nil => \A id \in Range(manifest.live) : id < Built

\* The files a compaction deletes are not those it has made the list of.
DropInv ==
    After("drop_old", {"drop_old"}) => Range(todo) \cap Range(sstables) = {}

\* w is at most one above a number in ids.
CoveredBy(w, ids) == w = 0 \/ \E id \in ids : w <= id + 1

\* A segment's number is at most one above the newest SSTable that a recovery
\* would find, so that a recovery does not give the number out again.
SegmentsInv ==
    /\ \A w \in DOMAIN wal_files :
          CoveredBy(w, IF manifest # Nil THEN Range(manifest.live) ELSE DOMAIN sst_files)
    /\ Updating => \A w \in DOMAIN wal_files : CoveredBy(w, Range(sstables))
    /\ Loaded => /\ current_wal_id <= next_sst_id
                 /\ \A w \in DOMAIN wal_files : w <= next_sst_id
    /\ After("remove_orphans", {"remove_orphans", "replay"}) =>
          CoveredBy(next_sst_id, Range(sstables))
    /\ After("seal", {"seal", "next_wal"}) =>
          /\ next_sst_id # 0
          /\ next_sst_id - 1 \in Range(sstables)
    /\ After("seal", {"write_sst", "seal", "next_wal"}) =>
          \A w \in DOMAIN wal_files : w < next_sst_id

\* What holds of the files and the lists of files.
FilesInv ==
    /\ TypeOK
    /\ LocalsInv
    /\ ListsInv
    /\ CommittedInv
    /\ BuildInv
    /\ DropInv

\* With the segments.
Inv == FilesInv /\ SegmentsInv /\ FreshSegment

-----------------------------------------------------------------------------
(* Lemmas on lists of files.                                               *)

\* The number after a list that is newest first is the one after its head.
LEMMA NextAfterFacts ==
    ASSUME NEW ids \in Seq(Nat), Descending(ids)
    PROVE  /\ NextAfter(ids) \in Nat
           /\ \A id \in Range(ids) : id < NextAfter(ids)
           /\ CoveredBy(NextAfter(ids), Range(ids))
<1>1. CASE ids = <<>>
    BY <1>1 DEF NextAfter, Range, CoveredBy
<1>2. CASE ids # <<>>
    <2>1. /\ 1 \in DOMAIN ids /\ ids[1] \in Range(ids)
          /\ Range(ids) \subseteq Nat
        BY <1>2 DEF Range
    <2>2. \A other \in Range(ids) : other <= ids[1]
        <3> SUFFICES ASSUME NEW j \in DOMAIN ids
                     PROVE  ids[j] <= ids[1]
            BY DEF Range
        <3> QED
            BY <2>1 DEF Descending
    <2> DEFINE top == CHOOSE id \in Range(ids) : \A other \in Range(ids) : other <= id
    <2>3. top \in Range(ids) /\ \A other \in Range(ids) : other <= top
        BY <2>1, <2>2
    <2>4. NextAfter(ids) = 1 + top
        BY <1>2 DEF NextAfter
    <2> HIDE DEF top
    <2> QED
        BY <2>1, <2>3, <2>4 DEF CoveredBy
<1> QED
    BY <1>1, <1>2

\* A larger number in front keeps a list newest first.
LEMMA PrependFacts ==
    ASSUME NEW ids \in Seq(Nat), Descending(ids),
           NEW top \in Nat, \A id \in Range(ids) : id < top
    PROVE  /\ <<top>> \o ids \in Seq(Nat)
           /\ Range(<<top>> \o ids) = Range(ids) \cup {top}
           /\ Descending(<<top>> \o ids)
<1> DEFINE longer == <<top>> \o ids
<1>1. longer \in Seq(Nat) /\ Len(longer) = Len(ids) + 1
    OBVIOUS
<1>2. longer[1] = top /\ \A i \in 2..Len(longer) : longer[i] = ids[i - 1]
    OBVIOUS
<1>3. \A i \in 1..Len(ids) : longer[i + 1] = ids[i]
    OBVIOUS
<1>4. \A i \in 1..Len(ids) : ids[i] \in Range(ids) /\ ids[i] < top
    BY DEF Range
<1> HIDE DEF longer
<1>5. Range(longer) \subseteq Range(ids) \cup {top}
    BY <1>1, <1>2, <1>4 DEF Range
<1>6. Range(ids) \cup {top} \subseteq Range(longer)
    <2>1. \A i \in 1..Len(ids) : i + 1 \in DOMAIN longer
        BY <1>1
    <2>2. 1 \in DOMAIN longer
        BY <1>1
    <2> QED
        BY <1>2, <1>3, <2>1, <2>2 DEF Range
<1>7. Descending(longer)
    <2> SUFFICES ASSUME NEW i \in 1..Len(longer), NEW j \in 1..Len(longer), i < j
                 PROVE  longer[j] < longer[i]
        BY <1>1 DEF Descending
    <2>1. j - 1 \in 1..Len(ids) /\ longer[j] = ids[j - 1]
        BY <1>1, <1>2
    <2>2. CASE i = 1
        BY <1>2, <1>4, <2>1, <2>2
    <2>3. CASE i # 1
        <3> HIDE DEF longer
        <3>1. i \in 2..Len(longer)
            BY <1>1, <2>3
        <3>2. i - 1 \in 1..Len(ids)
            BY <1>1, <3>1
        <3>3. longer[i] = ids[i - 1]
            BY <1>2, <3>1
        <3>4. i - 1 \in DOMAIN ids /\ j - 1 \in DOMAIN ids /\ i - 1 < j - 1
            BY <2>1, <3>2
        <3>5. ids[j - 1] < ids[i - 1]
            BY <3>4 DEF Descending
        <3> QED
            BY <2>1, <3>3, <3>5
    <2> QED
        BY <2>2, <2>3
<1> QED
    BY <1>1, <1>5, <1>6, <1>7 DEF longer

-----------------------------------------------------------------------------
(* Type correctness.                                                       *)

\* Appending to the active segment, if it is there, yields segments.
LEMMA LoggedType ==
    ASSUME DiskTypes, NEW r \in Record \cup {Torn}
    PROVE  /\ DOMAIN Logged(r) = DOMAIN wal_files
           /\ Logged(r) \in [DOMAIN wal_files -> Log]
<1>1. DOMAIN Logged(r) = DOMAIN wal_files
    BY DEF Logged
<1>2. \A id \in DOMAIN wal_files : wal_files[id] \in Log /\ Append(wal_files[id], r) \in Log
    BY DEF DiskTypes, Log
<1> QED
    BY <1>1, <1>2 DEF Logged, DiskTypes

\* Writing or removing a file leaves a directory of SSTables.
LEMMA SstFilesType ==
    ASSUME DiskTypes, NEW id \in Nat, NEW table \in Table
    PROVE  /\ DOMAIN WriteFile(sst_files, id, table) \subseteq Nat
           /\ WriteFile(sst_files, id, table) \in
                 [DOMAIN WriteFile(sst_files, id, table) -> Table]
           /\ DOMAIN RemoveFile(sst_files, id) \subseteq Nat
           /\ RemoveFile(sst_files, id) \in [DOMAIN RemoveFile(sst_files, id) -> Table]
BY DEF DiskTypes, WriteFile, RemoveFile, Restrict

\* A new or a sealed segment leaves a directory of segments.
LEMMA WalFilesType ==
    ASSUME DiskTypes, NEW id \in Nat
    PROVE  /\ DOMAIN WriteFile(wal_files, id, <<>>) \subseteq Nat
           /\ WriteFile(wal_files, id, <<>>) \in
                 [DOMAIN WriteFile(wal_files, id, <<>>) -> Log]
           /\ DOMAIN RemoveFile(wal_files, id) \subseteq Nat
           /\ RemoveFile(wal_files, id) \in [DOMAIN RemoveFile(wal_files, id) -> Log]
<1>1. <<>> \in Log
    BY DEF Log
<1> QED
    BY <1>1 DEF DiskTypes, WriteFile, RemoveFile, Restrict

\* The end of a call, or of the object, leaves well-typed variables.
LEMMA LeaveTypes ==
    /\ Leave /\ pc' \in Steps => ThreadTypes'
    /\ Return => ThreadTypes'
    /\ Halt => ThreadTypes' /\ ObjectTypes'
<1>1. EmptyTable \in Table
    BY DEF EmptyTable, Table, Entry
<1>2. Leave /\ pc' \in Steps => ThreadTypes'
    BY <1>1 DEF Leave, ThreadTypes, Calls
<1>3. Return => ThreadTypes'
    BY <1>2 DEF Return, Steps
<1>4. Halt => ThreadTypes'
    BY <1>2 DEF Halt, Steps
<1>5. Halt => ObjectTypes'
    BY <1>1 DEF Halt, ObjectTypes
<1> QED
    BY <1>2, <1>3, <1>4, <1>5

\* No step breaks the types.  Beyond the types it takes that the list of the
\* MANIFEST is in order, that the MANIFEST update knows where to go on, that a
\* write knows its record, and that replay reads segments that exist.
LEMMA TypeStep ==
    ASSUME FilesInv, [Next]_vars
    PROVE  TypeOK'
<1> USE DEF TypeOK, files, object, locals, meta, logs, tree, writer
<1>0. /\ DiskTypes /\ ObjectTypes /\ ThreadTypes
      /\ LocalsInv /\ ListsInv /\ BuildInv
    BY DEF FilesInv
<1>1. CASE Open
    <2>7. DiskTypes'
        BY <1>0, <1>1 DEF Open, DiskTypes
    <2>8. ObjectTypes'
        BY <1>0, <1>1 DEF Open, ObjectTypes
    <2>9. ThreadTypes'
        BY <1>0, <1>1 DEF Open, ThreadTypes, Steps, Calls
    <2> QED
        BY <2>7, <2>8, <2>9
<1>2. CASE \E k \in Key, e \in Written : Write(k, e)
    <2>7. DiskTypes'
        BY <1>0, <1>2 DEF Write, DiskTypes
    <2>8. ObjectTypes'
        BY <1>0, <1>2 DEF Write, ObjectTypes
    <2>9. ThreadTypes'
        BY <1>0, <1>2 DEF Write, ThreadTypes, Steps, Calls, Record
    <2> QED
        BY <2>7, <2>8, <2>9
<1>3. CASE FlushMemtable
    <2>7. DiskTypes'
        BY <1>0, <1>3 DEF FlushMemtable, DiskTypes
    <2>8. ObjectTypes'
        BY <1>0, <1>3 DEF FlushMemtable, ObjectTypes
    <2>9. ThreadTypes'
        BY <1>0, <1>3 DEF FlushMemtable, ThreadTypes, Steps, Calls
    <2> QED
        BY <2>7, <2>8, <2>9
<1>4. CASE Compact
    <2>7. DiskTypes'
        BY <1>0, <1>4 DEF Compact, DiskTypes
    <2>8. ObjectTypes'
        BY <1>0, <1>4 DEF Compact, ObjectTypes
    <2>9. ThreadTypes'
        BY <1>0, <1>4 DEF Compact, ThreadTypes, Steps, Calls, ObjectTypes
    <2> QED
        BY <2>7, <2>8, <2>9
<1>5. CASE Close
    <2>7. DiskTypes'
        BY <1>0, <1>5 DEF Close, DiskTypes
    <2>8. ObjectTypes'
        BY <1>0, <1>5, LeaveTypes DEF Close, ObjectTypes
    <2>9. ThreadTypes'
        BY <1>0, <1>5, LeaveTypes DEF Close, ThreadTypes, Steps, Calls
    <2> QED
        BY <2>7, <2>8, <2>9
<1>6. CASE RemoveTmp
    <2>7. DiskTypes'
        BY <1>0, <1>6 DEF RemoveTmp, Removed, Goto, DiskTypes
    <2>8. ObjectTypes'
        BY <1>0, <1>6 DEF RemoveTmp, Removed, Goto, ObjectTypes
    <2>9. ThreadTypes'
        BY <1>0, <1>6 DEF RemoveTmp, Removed, Goto, ThreadTypes, Steps, Calls
    <2> QED
        BY <2>7, <2>8, <2>9
<1>7. CASE RemoveDone
    <2>7. DiskTypes'
        BY <1>0, <1>7 DEF RemoveDone, Goto, DiskTypes
    <2>8. ObjectTypes'
        BY <1>0, <1>7 DEF RemoveDone, Goto, ObjectTypes
    <2>9. ThreadTypes'
        BY <1>0, <1>7 DEF RemoveDone, Goto, ThreadTypes, Steps, Calls
    <2> QED
        BY <2>7, <2>8, <2>9
<1>8. CASE LoadListed
    <2>1. manifest \in Manifest /\ Descending(manifest.live)
        BY <1>0, <1>8 DEF LoadListed, DiskTypes, ListsInv, NewestFirst
    <2>2. manifest.live \in Seq(Nat) /\ manifest.generation \in Nat
        BY <2>1 DEF Manifest
    <2>3. NextAfter(manifest.live) \in Nat
        BY <2>1, <2>2, NextAfterFacts
    <2>7. DiskTypes'
        BY <1>0, <1>8 DEF LoadListed, Goto, DiskTypes
    <2>8. ObjectTypes'
        BY <1>0, <1>8, <2>2, <2>3 DEF LoadListed, ObjectTypes
    <2>9. ThreadTypes'
        BY <1>0, <1>8 DEF LoadListed, Goto, ThreadTypes, Steps, Calls
    <2> QED
        BY <2>7, <2>8, <2>9
<1>9. CASE LoadScanned
    <2>1. PICK ids \in [1..Cardinality(DOMAIN sst_files) -> DOMAIN sst_files] :
              /\ Descending(ids)
              /\ sstables' = ids
              /\ next_sst_id' = NextAfter(ids)
        BY <1>9 DEF LoadScanned, NameOrder
    <2>2. ids \in Seq(Nat)
        <3>1. Cardinality(DOMAIN sst_files) \in Nat
            BY <1>0, FS_CardinalityType DEF ListsInv
        <3>2. ids \in [1..Cardinality(DOMAIN sst_files) -> Nat]
            BY <1>0 DEF DiskTypes
        <3> QED
            BY <3>1, <3>2
    <2>3. NextAfter(ids) \in Nat
        BY <2>1, <2>2, NextAfterFacts
    <2>7. DiskTypes'
        BY <1>0, <1>9 DEF LoadScanned, UpdateManifest, Goto, DiskTypes
    <2>8. ObjectTypes'
        BY <1>0, <1>9, <2>1, <2>2, <2>3 DEF LoadScanned, ObjectTypes
    <2>9. ThreadTypes'
        BY <1>0, <1>9 DEF LoadScanned, UpdateManifest, Goto, ThreadTypes, Steps, Calls
    <2> QED
        BY <2>7, <2>8, <2>9
<1>10. CASE LoadFails
    <2>7. DiskTypes'
        BY <1>0, <1>10 DEF LoadFails, Throw, Goto, DiskTypes
    <2>8. ObjectTypes'
        BY <1>0, <1>10 DEF LoadFails, Throw, Goto, ObjectTypes
    <2>9. ThreadTypes'
        BY <1>0, <1>10 DEF LoadFails, Throw, Goto, ThreadTypes, Steps, Calls
    <2> QED
        BY <2>7, <2>8, <2>9
<1>11. CASE RemoveOrphans
    <2>7. DiskTypes'
        <3>1. ASSUME NEW id \in Orphans, sst_files' = RemoveFile(sst_files, id)
              PROVE  DiskTypes'
            <4>1. id \in Nat
                BY <1>0 DEF Orphans, DiskTypes
            <4>2. EmptyTable \in Table
                BY DEF EmptyTable, Table, Entry
            <4>3. DOMAIN sst_files' \subseteq Nat /\ sst_files' \in [DOMAIN sst_files' -> Table]
                BY <1>0, <3>1, <4>1, <4>2, SstFilesType
            <4> QED
                BY <1>0, <1>11, <4>3 DEF RemoveOrphans, DiskTypes
        <3>2. CASE sst_files' = sst_files
            BY <1>0, <1>11, <3>2 DEF RemoveOrphans, DiskTypes
        <3> QED
            BY <1>11, <3>1, <3>2 DEF RemoveOrphans
    <2>8. ObjectTypes'
        BY <1>0, <1>11 DEF RemoveOrphans, Goto, ObjectTypes
    <2>9. ThreadTypes'
        BY <1>0, <1>11 DEF RemoveOrphans, Goto, ThreadTypes, DiskTypes, Steps, Calls
    <2> QED
        BY <2>7, <2>8, <2>9
<1>12. CASE ReplayNext
    <2>1. PICK id \in segs : /\ \E table \in Readings(id) :
                                    memtable' = Overlay(table, memtable)
                             /\ current_wal_id' = AtLeast(current_wal_id, id)
        BY <1>12 DEF ReplayNext, ReplayedOver
    <2>2. PICK table \in Readings(id) : memtable' = Overlay(table, memtable)
        BY <2>1
    <2>3. table \in Table
        <3>1. EmptyTable \in Table
            BY DEF EmptyTable, Table, Entry
        <3> QED
            BY <1>0, <1>12, <3>1, ReplaysAreTables DEF ReplayNext, Readings, LocalsInv, DiskTypes
    <2>4. memtable' \in Table
        BY <1>0, <2>2, <2>3 DEF Overlay, Table, ObjectTypes
    <2>7. DiskTypes'
        BY <1>0, <1>12 DEF ReplayNext, DiskTypes
    <2>8. ObjectTypes'
        BY <1>0, <1>12, <2>1, <2>4 DEF ReplayNext, AtLeast, ObjectTypes, ThreadTypes
    <2>9. ThreadTypes'
        BY <1>0, <1>12 DEF ReplayNext, ThreadTypes, Steps, Calls
    <2> QED
        BY <2>7, <2>8, <2>9
<1>13. CASE OpenWal
    <2>1. current_wal_id' \in Nat
        BY <1>0, <1>13 DEF OpenWal, AtLeast, ObjectTypes
    <2>2. DOMAIN wal_files' \subseteq Nat /\ wal_files' \in [DOMAIN wal_files' -> Log]
        BY <1>0, <1>13, <2>1, WalFilesType DEF OpenWal, OpenSegment, DiskTypes
    <2>7. DiskTypes'
        BY <1>0, <1>13, <2>2 DEF OpenWal, DiskTypes
    <2>8. ObjectTypes'
        BY <1>0, <1>13, <2>1 DEF OpenWal, ObjectTypes
    <2>9. ThreadTypes'
        BY <1>13, LeaveTypes DEF OpenWal
    <2> QED
        BY <2>7, <2>8, <2>9
<1>14. CASE OpenWalFails
    <2>7. DiskTypes'
        BY <1>0, <1>14 DEF OpenWalFails, Throw, Goto, DiskTypes
    <2>8. ObjectTypes'
        BY <1>0, <1>14 DEF OpenWalFails, Throw, Goto, ObjectTypes
    <2>9. ThreadTypes'
        BY <1>0, <1>14 DEF OpenWalFails, Throw, Goto, ThreadTypes, Steps, Calls
    <2> QED
        BY <2>7, <2>8, <2>9
<1>15. CASE WriteManifest
    <2>7. DiskTypes'
        BY <1>0, <1>15 DEF WriteManifest, NextGeneration, Goto, Throw, DiskTypes
    <2>8. ObjectTypes'
        BY <1>0, <1>15 DEF WriteManifest, NextGeneration, Goto, Throw, ObjectTypes
    <2>9. ThreadTypes'
        BY <1>0, <1>15 DEF WriteManifest, NextGeneration, Goto, Throw, ThreadTypes, Steps, Calls
    <2> QED
        BY <2>7, <2>8, <2>9
<1>16. CASE RenameManifest
    <2>7. DiskTypes'
        BY <1>0, <1>16 DEF RenameManifest, CommitManifest, Removed, Manifest, DiskTypes, ObjectTypes
    <2>8. ObjectTypes'
        BY <1>0, <1>16
           DEF RenameManifest, CommitManifest, Throw, Goto, LocalsInv, Updating,
               ObjectTypes
    <2>9. ThreadTypes'
        BY <1>0, <1>16
           DEF RenameManifest, CommitManifest, Throw, Goto, LocalsInv, Updating,
               ThreadTypes, Steps, Calls
    <2> QED
        BY <2>7, <2>8, <2>9
<1>17. CASE RetryRename
    <2>7. DiskTypes'
        BY <1>0, <1>17 DEF RetryRename, CommitManifest, Manifest, DiskTypes, ObjectTypes
    <2>8. ObjectTypes'
        BY <1>0, <1>17
           DEF RetryRename, CommitManifest, Throw, Goto, LocalsInv, Updating, ObjectTypes
    <2>9. ThreadTypes'
        BY <1>0, <1>17
           DEF RetryRename, CommitManifest, Throw, Goto, LocalsInv, Updating, ThreadTypes,
               Steps, Calls
    <2> QED
        BY <2>7, <2>8, <2>9
<1>18. CASE SyncWal
    <2>1. rec \in Record
        BY <1>0, <1>18 DEF SyncWal, LocalsInv, ThreadTypes
    <2>7. DiskTypes'
        BY <1>0, <1>18, <2>1, LoggedType DEF SyncWal, DiskTypes
    <2>8. ObjectTypes'
        BY <1>0, <1>18 DEF SyncWal, Goto, ObjectTypes
    <2>9. ThreadTypes'
        BY <1>0, <1>18 DEF SyncWal, Goto, ThreadTypes, Steps, Calls
    <2> QED
        BY <2>7, <2>8, <2>9
<1>19. CASE ApplyWrite
    <2>1. rec \in Record
        BY <1>0, <1>19 DEF ApplyWrite, LocalsInv, ThreadTypes
    <2>2. memtable' \in Table
        BY <1>0, <1>19, <2>1 DEF ApplyWrite, SetEntry, Table, Record, Entry, ObjectTypes
    <2>7. DiskTypes'
        BY <1>0, <1>19 DEF ApplyWrite, Goto, DiskTypes
    <2>8. ObjectTypes'
        BY <1>0, <1>19, <2>2 DEF ApplyWrite, ObjectTypes
    <2>9. ThreadTypes'
        BY <1>0, <1>19, LeaveTypes DEF ApplyWrite, Goto, ThreadTypes, Steps
    <2> QED
        BY <2>7, <2>8, <2>9
<1>20. CASE FlushBuild \/ CompactBuild
    <2>1. EmptyTable \in Table
        BY DEF EmptyTable, Table, Entry
    <2>7. DiskTypes'
        <3>1. CASE sst_files' = WriteFile(sst_files, next_sst_id, EmptyTable)
            <4>1. DOMAIN sst_files' \subseteq Nat /\ sst_files' \in [DOMAIN sst_files' -> Table]
                BY <1>0, <2>1, <3>1, SstFilesType DEF ObjectTypes
            <4> QED
                BY <1>0, <1>20, <4>1 DEF FlushBuild, CompactBuild, BuildSst, DiskTypes
        <3>2. CASE sst_files' = sst_files
            BY <1>0, <1>20, <3>2 DEF FlushBuild, CompactBuild, BuildSst, DiskTypes
        <3> QED
            BY <1>20, <3>1, <3>2 DEF FlushBuild, CompactBuild, BuildSst
    <2>8. ObjectTypes'
        BY <1>0, <1>20 DEF FlushBuild, CompactBuild, BuildSst, Goto, Throw, ObjectTypes
    <2>9. ThreadTypes'
        BY <1>0, <1>20
           DEF FlushBuild, CompactBuild, BuildSst, Goto, Throw, ThreadTypes, Steps, Calls
    <2> QED
        BY <2>7, <2>8, <2>9
<1>21. CASE FlushWrite
    <2>1. PICK content \in Table : sst_files' = WriteFile(sst_files, Built, content)
        BY <1>0, <1>21, TableOps DEF FlushWrite, WriteSst, ObjectTypes, EmptyTable, Table, Entry
    <2>2. Built \in Nat
        BY <1>0, <1>21 DEF Built, BuildInv, FlushWrite, ObjectTypes
    <2>7. DiskTypes'
        <3>1. DOMAIN sst_files' \subseteq Nat /\ sst_files' \in [DOMAIN sst_files' -> Table]
            BY <1>0, <2>1, <2>2, SstFilesType
        <3> QED
            BY <1>0, <1>21, <3>1 DEF FlushWrite, DiskTypes
    <2>8. ObjectTypes'
        <3>1. <<Built>> \o sstables \in Seq(Nat)
            BY <1>0, <2>2 DEF ObjectTypes
        <3> QED
            BY <1>0, <1>21, <3>1 DEF FlushWrite, WithNewest, Throw, ObjectTypes
    <2>9. ThreadTypes'
        BY <1>0, <1>21 DEF FlushWrite, UpdateManifest, Goto, Throw, ThreadTypes, Steps, Calls
    <2> QED
        BY <2>7, <2>8, <2>9
<1>22. CASE SealWal
    <2>7. DiskTypes'
        <3>1. DOMAIN wal_files' \subseteq Nat /\ wal_files' \in [DOMAIN wal_files' -> Log]
            BY <1>0, <1>22, WalFilesType DEF SealWal, DiskTypes, ObjectTypes
        <3> QED
            BY <1>0, <1>22, <3>1 DEF SealWal, DiskTypes, ObjectTypes
    <2>8. ObjectTypes'
        BY <1>0, <1>22 DEF SealWal, Goto, ObjectTypes
    <2>9. ThreadTypes'
        BY <1>0, <1>22 DEF SealWal, Goto, ThreadTypes, Steps, Calls, ObjectTypes
    <2> QED
        BY <2>7, <2>8, <2>9
<1>23. CASE NextWal
    <2>1. <<>> \in Log /\ EmptyTable \in Table
        BY DEF Log, EmptyTable, Table, Entry
    <2>7. DiskTypes'
        <3>1. DOMAIN wal_files' \subseteq Nat /\ wal_files' \in [DOMAIN wal_files' -> Log]
            BY <1>0, <1>23, WalFilesType
               DEF NextWal, NextSegment, OpenSegment, DiskTypes, ObjectTypes
        <3> QED
            BY <1>0, <1>23, <3>1 DEF NextWal, DiskTypes
    <2>8. ObjectTypes'
        BY <1>0, <1>23, <2>1 DEF NextWal, NextSegment, ObjectTypes
    <2>9. ThreadTypes'
        BY <1>0, <1>23 DEF NextWal, NextSegment, Goto, Throw, ThreadTypes, Steps, Calls
    <2> QED
        BY <2>7, <2>8, <2>9
<1>24. CASE DropDone
    <2>7. DiskTypes'
        BY <1>0, <1>24 DEF DropDone, Removed, DiskTypes
    <2>8. ObjectTypes'
        BY <1>0, <1>24, LeaveTypes DEF DropDone, ObjectTypes
    <2>9. ThreadTypes'
        <3>1. CASE Goto("merge") /\ todo' = sstables /\ done_seg' = 0 /\ UNCHANGED <<rec, ret, merged, segs>>
            BY <1>0, <3>1 DEF Goto, ThreadTypes, Steps, ObjectTypes
        <3> QED
            BY <1>24, <3>1, LeaveTypes DEF DropDone
    <2> QED
        BY <2>7, <2>8, <2>9
<1>25. CASE MergeNext
    <2>1. EmptyTable \in Table /\ Content(sst_files, todo[Len(todo)]) \in Table
        BY <1>0 DEF Content, DiskTypes, EmptyTable, Table, Entry
    <2>2. merged' \in Table
        BY <1>0, <1>25, <2>1 DEF MergeNext, MergedOver, Overlay, Table, ThreadTypes
    <2>3. todo' \in Seq(Nat)
        BY <1>0, <1>25 DEF MergeNext, ThreadTypes
    <2>7. DiskTypes'
        BY <1>0, <1>25 DEF MergeNext, DiskTypes
    <2>8. ObjectTypes'
        BY <1>0, <1>25 DEF MergeNext, ObjectTypes
    <2>9. ThreadTypes'
        BY <1>0, <1>25, <2>2, <2>3 DEF MergeNext, ThreadTypes
    <2> QED
        BY <2>7, <2>8, <2>9
<1>26. CASE CompactWrite
    <2>1. PICK content \in Table : sst_files' = WriteFile(sst_files, Built, content)
        <3>1. EmptyTable \in Table
            BY DEF EmptyTable, Table, Entry
        <3>2. DropTombstones(merged) \in Table
            BY <1>0 DEF DropTombstones, ThreadTypes, Table, Entry
        <3> QED
            BY <1>26, <3>1, <3>2 DEF CompactWrite, WriteSst
    <2>2. Built \in Nat
        BY <1>0, <1>26 DEF Built, BuildInv, CompactWrite, ObjectTypes
    <2>7. DiskTypes'
        <3>1. DOMAIN sst_files' \subseteq Nat /\ sst_files' \in [DOMAIN sst_files' -> Table]
            BY <1>0, <2>1, <2>2, SstFilesType
        <3> QED
            BY <1>0, <1>26, <3>1 DEF CompactWrite, DiskTypes
    <2>8. ObjectTypes'
        <3>1. <<Built>> \in Seq(Nat) /\ <<>> \in Seq(Nat)
            BY <2>2
        <3> QED
            BY <1>0, <1>26, <3>1 DEF CompactWrite, ObjectTypes
    <2>9. ThreadTypes'
        BY <1>0, <1>26, LeaveTypes
           DEF CompactWrite, UpdateManifest, Goto, Throw, ThreadTypes, ObjectTypes, Steps,
               Calls, EmptyTable, Table, Entry
    <2> QED
        BY <2>7, <2>8, <2>9
<1>27. CASE DropOld
    <2>7. DiskTypes'
        <3>1. Head(todo) \in Nat
            BY <1>0, <1>27 DEF DropOld, ThreadTypes
        <3>2. EmptyTable \in Table
            BY DEF EmptyTable, Table, Entry
        <3>3. DOMAIN sst_files' \subseteq Nat /\ sst_files' \in [DOMAIN sst_files' -> Table]
            BY <1>0, <1>27, <3>1, <3>2, SstFilesType DEF DropOld, Removed, DiskTypes
        <3> QED
            BY <1>0, <1>27, <3>3 DEF DropOld, DiskTypes
    <2>8. ObjectTypes'
        BY <1>0, <1>27 DEF DropOld, ObjectTypes
    <2>9. ThreadTypes'
        BY <1>0, <1>27 DEF DropOld, ThreadTypes, Steps, Calls
    <2> QED
        BY <2>7, <2>8, <2>9
<1>28. CASE CompactEnd
    <2>7. DiskTypes'
        BY <1>0, <1>28 DEF CompactEnd, DiskTypes
    <2>8. ObjectTypes'
        BY <1>0, <1>28 DEF CompactEnd, ObjectTypes
    <2>9. ThreadTypes'
        BY <1>28, LeaveTypes DEF CompactEnd
    <2> QED
        BY <2>7, <2>8, <2>9
<1>29. CASE Unwind
    <2>7. DiskTypes'
        BY <1>0, <1>29 DEF Unwind, DiskTypes
    <2>8. ObjectTypes'
        BY <1>0, <1>29, LeaveTypes DEF Unwind, ObjectTypes
    <2>9. ThreadTypes'
        BY <1>29, LeaveTypes DEF Unwind
    <2> QED
        BY <2>7, <2>8, <2>9
<1>30. CASE Crash
    <2>7. DiskTypes'
        BY <1>0, <1>30, LoggedType DEF Crash, LocalsInv, ThreadTypes, DiskTypes
    <2>8. ObjectTypes'
        BY <1>30, LeaveTypes DEF Crash
    <2>9. ThreadTypes'
        BY <1>30, LeaveTypes DEF Crash
    <2> QED
        BY <2>7, <2>8, <2>9
<1>31. CASE UNCHANGED vars
    <2>7. DiskTypes'
        BY <1>0, <1>31 DEF vars, DiskTypes
    <2>8. ObjectTypes'
        BY <1>0, <1>31 DEF vars, ObjectTypes
    <2>9. ThreadTypes'
        BY <1>0, <1>31 DEF vars, ThreadTypes, Steps, Calls
    <2> QED
        BY <2>7, <2>8, <2>9
<1> QED
    BY <1>1, <1>2, <1>3, <1>4, <1>5, <1>6, <1>7, <1>8, <1>9, <1>10, <1>11, <1>12, <1>13,
        <1>14, <1>15, <1>16, <1>17, <1>18, <1>19, <1>20, <1>21, <1>22, <1>23, <1>24, <1>25,
        <1>26, <1>27, <1>28, <1>29, <1>30, <1>31
       DEF Next, Work, Client, Step

-----------------------------------------------------------------------------
(* The files and the lists of files.                                       *)

\* The locals of a call hold what its next steps take them to hold.
LEMMA LocalsStep ==
    ASSUME FilesInv, [Next]_vars
    PROVE  LocalsInv'
<1> USE DEF files, object, locals, meta, logs, tree, writer, Updating
<1>0. ThreadTypes /\ LocalsInv
    BY DEF FilesInv, TypeOK
<1>1. CASE Open \/ RemoveTmp \/ RemoveDone
    BY <1>0, <1>1 DEF LocalsInv, Open, RemoveTmp, RemoveDone, Goto
<1>2. CASE LoadListed \/ LoadScanned \/ LoadFails
    BY <1>0, <1>2 DEF LocalsInv, LoadListed, LoadScanned, LoadFails, UpdateManifest,
                      Goto, Throw
<1>3. CASE RemoveOrphans \/ ReplayNext
    BY <1>0, <1>3 DEF LocalsInv, RemoveOrphans, ReplayNext, Goto
<1>4. CASE OpenWal \/ OpenWalFails
    BY <1>0, <1>4 DEF LocalsInv, OpenWal, OpenWalFails, Return, Leave, Goto, Throw
<1>5. CASE WriteManifest
    BY <1>0, <1>5 DEF LocalsInv, WriteManifest, Goto, Throw
<1>6. CASE RenameManifest \/ RetryRename
    BY <1>0, <1>6
       DEF LocalsInv, RenameManifest, RetryRename, CommitManifest, Goto, Throw, ThreadTypes
<1>7. ASSUME NEW k \in Key, NEW e \in Written, Write(k, e)
      PROVE  LocalsInv'
    <2>1. rec' \in Record
        BY <1>7 DEF Write, Record
    <2>2. rec' # Nil
        BY <2>1, NilAssumption
    <2> QED
        BY <1>0, <1>7, <2>2 DEF LocalsInv, Write
<1>8. CASE SyncWal \/ ApplyWrite
    BY <1>0, <1>8 DEF LocalsInv, SyncWal, ApplyWrite, Goto, Return, Leave
<1>9. CASE FlushMemtable \/ Compact \/ Close
    BY <1>0, <1>9 DEF LocalsInv, FlushMemtable, Compact, Close, Halt, Leave
<1>10. CASE FlushBuild \/ CompactBuild
    BY <1>0, <1>10 DEF LocalsInv, FlushBuild, CompactBuild, BuildSst, Goto, Throw
<1>11. CASE FlushWrite \/ CompactWrite
    BY <1>0, <1>11 DEF LocalsInv, FlushWrite, CompactWrite, UpdateManifest, Goto, Throw
<1>12. CASE SealWal \/ NextWal
    BY <1>0, <1>12 DEF LocalsInv, SealWal, NextWal, Goto, Throw
<1>13. CASE DropDone
    BY <1>0, <1>13 DEF LocalsInv, DropDone, Goto, Return, Halt, Leave
<1>14. CASE MergeNext \/ DropOld \/ CompactEnd
    BY <1>0, <1>14 DEF LocalsInv, MergeNext, DropOld, CompactEnd, Return, Leave
<1>15. CASE Unwind \/ Crash
    BY <1>0, <1>15 DEF LocalsInv, Unwind, Crash, Halt, Return, Leave
<1>16. CASE UNCHANGED vars
    BY <1>0, <1>16 DEF LocalsInv, vars
<1> QED
    BY <1>1, <1>2, <1>3, <1>4, <1>5, <1>6, <1>7, <1>8, <1>9, <1>10, <1>11, <1>12,
       <1>13, <1>14, <1>15, <1>16 DEF Next, Work, Client, Step

\* The lists name the same files as long as none of them is touched.
LEMMA ListsFrame ==
    ASSUME ListsInv, Loaded' => Loaded,
           UNCHANGED <<manifest, sst_files, sstables, next_sst_id>>
    PROVE  ListsInv'
BY DEF ListsInv, ManifestSound, NewestFirst

\* They name files that exist, newest first.
LEMMA ListsStep ==
    ASSUME FilesInv, [Next]_vars
    PROVE  ListsInv'
<1> USE DEF files, object, locals, meta, logs, tree, writer
<1>0. /\ DiskTypes /\ ObjectTypes /\ ThreadTypes /\ LocalsInv
      /\ ListsInv /\ CommittedInv /\ BuildInv /\ DropInv
    BY DEF FilesInv, TypeOK
<1>1. CASE \/ Open \/ RemoveTmp \/ RemoveDone \/ LoadFails \/ ReplayNext \/ OpenWal \/ OpenWalFails
           \/ WriteManifest \/ SyncWal \/ ApplyWrite \/ FlushMemtable \/ Compact
           \/ SealWal \/ NextWal \/ MergeNext \/ CompactEnd \/ UNCHANGED vars
           \/ \E k \in Key, e \in Written : Write(k, e)
    <2>1. UNCHANGED <<manifest, sst_files, sstables, next_sst_id>>
        BY <1>1 DEF Open, RemoveTmp, RemoveDone, LoadFails, ReplayNext, OpenWal, OpenWalFails,
                    WriteManifest, SyncWal, ApplyWrite, FlushMemtable, Compact,
                    SealWal, NextWal, MergeNext, CompactEnd, vars, Write
    <2>2. Loaded' => Loaded
        BY <1>0, <1>1
        DEF Loaded, LocalsInv, Open, RemoveTmp, RemoveDone, LoadFails, ReplayNext, OpenWal,
            OpenWalFails, WriteManifest, SyncWal, ApplyWrite, FlushMemtable, Compact, SealWal,
            NextWal, MergeNext, CompactEnd, vars, Write, Goto, Throw, Return, Leave
    <2> QED
        BY <1>0, <2>1, <2>2, ListsFrame
<1>2. CASE DropDone \/ Close \/ Unwind \/ Crash
    <2>1. UNCHANGED <<manifest, sst_files>>
        BY <1>2 DEF DropDone, Close, Unwind, Crash
    <2>2. CASE Halt
        <3>1. ~ Loaded' /\ sstables' = <<>> /\ Range(<<>>) = {}
            BY <2>2 DEF Loaded, Halt, Range
        <3> QED
            BY <1>0, <2>1, <3>1 DEF ListsInv, ManifestSound, NewestFirst, Descending
    <2>3. CASE UNCHANGED <<sstables, next_sst_id>> /\ ~ Halt
        <3>1. Loaded' => Loaded
            BY <1>2, <2>3 DEF Loaded, DropDone, Close, Unwind, Crash, Goto, Return, Leave
        <3> QED
            BY <1>0, <2>1, <2>3, <3>1, ListsFrame
    <2> QED
        BY <1>2, <2>2, <2>3 DEF DropDone, Close, Unwind, Crash
<1>3. CASE LoadListed
    <2>1. manifest.live \in Seq(Nat) /\ Descending(manifest.live)
        BY <1>0, <1>3 DEF LoadListed, DiskTypes, Manifest, ListsInv, NewestFirst
    <2>2. \A id \in Range(manifest.live) : id < NextAfter(manifest.live)
        BY <2>1, NextAfterFacts
    <2> QED
        BY <1>0, <1>3, <2>1, <2>2 DEF LoadListed, ListsInv, ManifestSound, NewestFirst
<1>4. CASE LoadScanned
    <2>1. PICK ids \in [1..Cardinality(DOMAIN sst_files) -> DOMAIN sst_files] :
              /\ Range(ids) = DOMAIN sst_files
              /\ Descending(ids)
              /\ sstables' = ids
              /\ next_sst_id' = NextAfter(ids)
        BY <1>4 DEF LoadScanned, NameOrder
    <2>2. ids \in Seq(Nat)
        <3>1. Cardinality(DOMAIN sst_files) \in Nat
            BY <1>0, FS_CardinalityType DEF ListsInv
        <3>2. ids \in [1..Cardinality(DOMAIN sst_files) -> Nat]
            BY <1>0 DEF DiskTypes
        <3> QED
            BY <3>1, <3>2
    <2>3. \A id \in Range(ids) : id < NextAfter(ids)
        BY <2>1, <2>2, NextAfterFacts
    <2>4. manifest = Nil /\ UNCHANGED <<manifest, sst_files>>
        BY <1>4 DEF LoadScanned
    <2> QED
        BY <1>0, <2>1, <2>3, <2>4 DEF ListsInv, ManifestSound, NewestFirst
<1>5. CASE RemoveOrphans
    <2>1. CASE sst_files' = sst_files
        <3>1. Loaded' => Loaded
            BY <1>5 DEF RemoveOrphans, Loaded
        <3> QED
            BY <1>0, <1>5, <2>1, <3>1, ListsFrame DEF RemoveOrphans
    <2>2. ASSUME NEW id \in Orphans, sst_files' = RemoveFile(sst_files, id)
          PROVE  ListsInv'
        <3>1. DOMAIN sst_files' = DOMAIN sst_files \ {id} /\ id \notin Range(sstables)
            BY <2>2 DEF RemoveFile, Restrict, Orphans
        <3>2. IsFiniteSet(DOMAIN sst_files')
            BY <1>0, <3>1, FS_RemoveElement DEF ListsInv
        <3>3. manifest # Nil /\ manifest.live = sstables
            BY <1>0, <1>5 DEF RemoveOrphans, CommittedInv
        <3>4. (Loaded' => Loaded) /\ UNCHANGED <<manifest, sstables, next_sst_id>>
            BY <1>5 DEF RemoveOrphans, Loaded
        <3> QED
            BY <1>0, <3>1, <3>2, <3>3, <3>4 DEF ListsInv, ManifestSound, NewestFirst
    <2> QED
        BY <1>5, <2>1, <2>2 DEF RemoveOrphans
<1>6. CASE RenameManifest \/ RetryRename
    <2>1. UNCHANGED <<sst_files, sstables, next_sst_id>> /\ (Loaded' => Loaded)
        BY <1>0, <1>6 DEF RenameManifest, RetryRename, CommitManifest, Goto, Throw, Loaded
    <2>2. CASE CommitManifest
        <3>1. manifest'.live = sstables
            BY <2>2 DEF CommitManifest
        <3> QED
            BY <1>0, <2>1, <3>1 DEF ListsInv, ManifestSound, NewestFirst
    <2>3. CASE manifest' \in {manifest, Nil}
        BY <1>0, <2>1, <2>3 DEF ListsInv, ManifestSound, NewestFirst
    <2> QED
        BY <1>6, <2>2, <2>3 DEF RenameManifest, RetryRename, Removed
<1>7. CASE FlushBuild \/ CompactBuild
    <2>1. /\ UNCHANGED <<manifest, sstables>> /\ next_sst_id' = next_sst_id + 1
          /\ Loaded
        BY <1>7 DEF FlushBuild, CompactBuild, BuildSst, Loaded
    <2>2. DOMAIN sst_files' \in {DOMAIN sst_files, DOMAIN sst_files \cup {next_sst_id}}
        BY <1>7 DEF FlushBuild, CompactBuild, BuildSst, WriteFile
    <2>3. IsFiniteSet(DOMAIN sst_files')
        BY <1>0, <2>2, FS_AddElement DEF ListsInv
    <2>4. Range(sstables) \subseteq Nat /\ (manifest # Nil => Range(manifest.live) \subseteq Nat)
        BY <1>0 DEF Range, ObjectTypes, DiskTypes, Manifest
    <2> QED
        BY <1>0, <2>1, <2>2, <2>3, <2>4 DEF ListsInv, ManifestSound, NewestFirst, ObjectTypes
<1>8. CASE FlushWrite \/ CompactWrite
    <2>1. /\ UNCHANGED <<manifest, next_sst_id>> /\ Loaded
          /\ sstables' \in {sstables, WithNewest, <<Built>>, <<>>}
        BY <1>8 DEF FlushWrite, CompactWrite, Loaded
    <2>2. DOMAIN sst_files' = DOMAIN sst_files \cup {Built}
        BY <1>8 DEF FlushWrite, CompactWrite, WriteSst, WriteFile
    <2>3. IsFiniteSet(DOMAIN sst_files')
        BY <1>0, <2>2, FS_AddElement DEF ListsInv
    <2>4. /\ \A id \in Range(sstables) : id < Built
          /\ Built < next_sst_id /\ Built \in Nat
        BY <1>0, <1>8 DEF BuildInv, FlushWrite, CompactWrite, Built, ObjectTypes
    <2>5. sstables \in Seq(Nat) /\ Descending(sstables)
        BY <1>0 DEF ObjectTypes, ListsInv, NewestFirst
    <2>6. Range(sstables') \subseteq Range(sstables) \cup {Built} /\ Descending(sstables')
        <3>1. CASE sstables' = WithNewest
            BY <2>4, <2>5, <3>1, PrependFacts DEF WithNewest
        <3>2. CASE sstables' \in {<<Built>>, <<>>}
            BY <2>4, <3>2 DEF Range, Descending
        <3> QED
            BY <2>1, <2>5, <3>1, <3>2
    <2> QED
        BY <1>0, <2>1, <2>2, <2>3, <2>4, <2>5, <2>6 DEF ListsInv, ManifestSound, NewestFirst
<1>9. CASE DropOld
    <2>1. /\ UNCHANGED <<manifest, sstables, next_sst_id>> /\ Loaded
          /\ manifest # Nil /\ manifest.live = sstables
        BY <1>0, <1>9 DEF DropOld, Loaded, CommittedInv
    <2>2. Head(todo) \in Range(todo)
        BY <1>0, <1>9 DEF DropOld, ThreadTypes, Range
    <2>3. Head(todo) \notin Range(sstables)
        BY <1>0, <1>9, <2>2 DEF DropOld, DropInv, After
    <2>4. DOMAIN sst_files' \in {DOMAIN sst_files, DOMAIN sst_files \ {Head(todo)}}
        BY <1>9 DEF DropOld, Removed, RemoveFile, Restrict
    <2>5. IsFiniteSet(DOMAIN sst_files')
        BY <1>0, <2>4, FS_RemoveElement DEF ListsInv
    <2> QED
        BY <1>0, <2>1, <2>3, <2>4, <2>5 DEF ListsInv, ManifestSound, NewestFirst
<1> QED
    BY <1>1, <1>2, <1>3, <1>4, <1>5, <1>6, <1>7, <1>8, <1>9 DEF Next, Work, Client, Step

\* Where a call takes the list in memory and the list on disk to be the same,
\* they are.
LEMMA CommittedStep ==
    ASSUME FilesInv, [Next]_vars
    PROVE  CommittedInv'
<1> USE DEF files, object, locals, meta, logs, tree, writer
<1>0. ThreadTypes /\ LocalsInv /\ CommittedInv
    BY DEF FilesInv, TypeOK
<1>1. CASE Client \/ RemoveTmp \/ RemoveDone \/ LoadScanned \/ LoadFails \/ OpenWal \/ OpenWalFails
           \/ WriteManifest \/ SyncWal \/ ApplyWrite \/ FlushBuild \/ FlushWrite \/ DropDone
           \/ MergeNext \/ CompactBuild \/ CompactWrite \/ CompactEnd \/ Unwind \/ Crash
    <2>1. pc' \notin {"remove_orphans", "replay", "seal", "next_wal", "drop_old"}
        BY <1>1
        DEF Client, Open, Write, FlushMemtable, Compact, Close, RemoveTmp, RemoveDone,
            LoadScanned, LoadFails, OpenWal, OpenWalFails, WriteManifest, SyncWal, ApplyWrite,
            FlushBuild, FlushWrite, DropDone, MergeNext, CompactBuild, CompactWrite, CompactEnd,
            Unwind, Crash, BuildSst, UpdateManifest, Goto, Throw, Return, Halt
    <2> QED
        BY <2>1 DEF CommittedInv
<1>2. CASE LoadListed
    BY <1>2 DEF LoadListed, CommittedInv
<1>3. CASE RemoveOrphans \/ ReplayNext \/ SealWal \/ NextWal \/ DropOld
    <2>1. UNCHANGED <<manifest, sstables>>
        BY <1>3 DEF RemoveOrphans, ReplayNext, SealWal, NextWal, DropOld
    <2>2. pc \in {"remove_orphans", "replay", "seal", "next_wal", "drop_old"}
        BY <1>3 DEF RemoveOrphans, ReplayNext, SealWal, NextWal, DropOld
    <2> QED
        BY <1>0, <2>1, <2>2 DEF CommittedInv
<1>4. CASE RenameManifest \/ RetryRename
    <2>1. CASE CommitManifest
        <3>1. manifest'.live = sstables /\ manifest' \in [generation : {manifest_gen}, live : {sstables}]
            BY <2>1 DEF CommitManifest
        <3>2. UNCHANGED sstables /\ manifest' \in Manifest
            BY <1>4, <3>1 DEF FilesInv, TypeOK, ObjectTypes, Manifest, RenameManifest, RetryRename
        <3> QED
            BY <3>1, <3>2, NilAssumption DEF CommittedInv
    <2>2. CASE pc' \in {"retry_rename", "unwind"}
        BY <2>2 DEF CommittedInv
    <2> QED
        BY <1>4, <2>1, <2>2 DEF RenameManifest, RetryRename, Goto, Throw
<1>5. CASE UNCHANGED vars
    BY <1>0, <1>5 DEF vars, CommittedInv
<1> QED
    BY <1>1, <1>2, <1>3, <1>4, <1>5 DEF Next, Work, Step

\* An SSTable gets a number above those of all that are listed.
LEMMA BuildStep ==
    ASSUME FilesInv, [Next]_vars
    PROVE  BuildInv'
<1> USE DEF files, object, locals, meta, logs, tree, writer
<1>0. DiskTypes /\ ObjectTypes /\ ThreadTypes /\ LocalsInv /\ ListsInv /\ BuildInv
    BY DEF FilesInv, TypeOK
<1>1. CASE FlushBuild \/ CompactBuild
    <2>1. /\ UNCHANGED <<manifest, sstables>> /\ next_sst_id' = next_sst_id + 1
          /\ Loaded
        BY <1>1 DEF FlushBuild, CompactBuild, BuildSst, Loaded
    <2>2. next_sst_id' # 0 /\ Built' = next_sst_id
        BY <1>0, <2>1 DEF Built, ObjectTypes
    <2> QED
        BY <1>0, <2>1, <2>2 DEF BuildInv, ListsInv, NewestFirst
<1>2. CASE UNCHANGED vars
    BY <1>0, <1>2 DEF vars, BuildInv, Built
<1>3. CASE Next /\ ~ (FlushBuild \/ CompactBuild)
    <2>1. pc' \notin {"write_sst", "write_merged"}
        BY <1>0, <1>3
        DEF Next, Work, Client, Step,
            Open, Write, FlushMemtable, Compact, Close, RemoveTmp, RemoveDone,
            LoadListed, LoadScanned, LoadFails, RemoveOrphans, ReplayNext, OpenWal, OpenWalFails,
            WriteManifest, RenameManifest, RetryRename, CommitManifest, SyncWal, ApplyWrite,
            FlushWrite, SealWal, NextWal, DropDone, MergeNext, CompactWrite, DropOld, CompactEnd,
            Unwind, Crash, UpdateManifest, Goto, Throw, Return, Halt, ThreadTypes
    <2> QED
        BY <2>1 DEF BuildInv
<1> QED
    BY <1>1, <1>2, <1>3

\* The SSTables that a compaction deletes are off the list.
LEMMA DropStep ==
    ASSUME FilesInv, [Next]_vars
    PROVE  DropInv'
<1> USE DEF files, object, locals, meta, logs, tree, writer, After, Updating
<1>0. ObjectTypes /\ ThreadTypes /\ LocalsInv /\ BuildInv /\ DropInv
    BY DEF FilesInv, TypeOK
<1>1. CASE CompactWrite
    <2>1. CASE sstables' = <<Built>> /\ todo' = sstables
        <3>1. \A id \in Range(sstables) : id < Built
            BY <1>0, <1>1 DEF CompactWrite, BuildInv
        <3>2. Range(<<Built>>) = {Built}
            BY DEF Range
        <3>3. Built \in Nat
            BY <1>0, <1>1 DEF CompactWrite, BuildInv, Built, ObjectTypes
        <3>4. Built \notin Range(sstables)
            BY <3>1, <3>3
        <3> QED
            BY <2>1, <3>2, <3>4 DEF DropInv
    <2>2. CASE pc' = "unwind"
        BY <2>2 DEF DropInv
    <2> QED
        BY <1>1, <2>1, <2>2 DEF CompactWrite, Throw, Goto
<1>2. CASE DropOld
    <2>1. Range(Tail(todo)) \subseteq Range(todo)
        BY <1>0, <1>2 DEF DropOld, Range, ThreadTypes
    <2> QED
        BY <1>0, <1>2, <2>1 DEF DropOld, DropInv
<1>3. CASE WriteManifest \/ RenameManifest \/ RetryRename
    <2>1. UNCHANGED <<todo, sstables>>
        BY <1>3 DEF WriteManifest, RenameManifest, RetryRename, CommitManifest, Throw
    <2>2. After("drop_old", {"drop_old"})' => After("drop_old", {"drop_old"})
        BY <1>0, <1>3 DEF WriteManifest, RenameManifest, RetryRename, CommitManifest, Goto, Throw
    <2> QED
        BY <1>0, <2>1, <2>2 DEF DropInv
<1>4. CASE UNCHANGED vars
    BY <1>0, <1>4 DEF vars, DropInv
<1>5. CASE Next /\ ~ (CompactWrite \/ DropOld \/ WriteManifest \/ RenameManifest \/ RetryRename)
    <2>1. ~ After("drop_old", {"drop_old"})'
        BY <1>0, <1>5
        DEF Next, Work, Client, Step,
            Open, Write, FlushMemtable, Compact, Close, RemoveTmp, RemoveDone,
            LoadListed, LoadScanned, LoadFails, RemoveOrphans, ReplayNext, OpenWal, OpenWalFails,
            SyncWal, ApplyWrite, FlushBuild, FlushWrite, SealWal, NextWal, DropDone,
            MergeNext, CompactBuild, CompactEnd, Unwind, Crash,
            BuildSst, UpdateManifest, Goto, Throw, Return, Halt
    <2> QED
        BY <2>1 DEF DropInv
<1> QED
    BY <1>1, <1>2, <1>3, <1>4, <1>5

-----------------------------------------------------------------------------
(* The theorems on files.                                                  *)

\* An empty directory and no object satisfy it.
LEMMA FilesInit == Init => FilesInv
<1> SUFFICES ASSUME Init
             PROVE  FilesInv
    OBVIOUS
<1> USE DEF Init
<1>1. DOMAIN sst_files = {} /\ DOMAIN wal_files = {} /\ Range(sstables) = {}
    BY DEF NoFiles, Range
<1>2. EmptyTable \in Table
    BY DEF EmptyTable, Table, Entry
<1>3. TypeOK
    BY <1>1, <1>2 DEF TypeOK, DiskTypes, ObjectTypes, ThreadTypes, Steps, Calls, NoFiles
<1>4. IsFiniteSet(DOMAIN sst_files)
    BY <1>1, FS_EmptySet
<1>5. LocalsInv /\ CommittedInv /\ BuildInv /\ DropInv
    BY DEF LocalsInv, CommittedInv, BuildInv, DropInv, Updating, After
<1>6. ListsInv
    BY <1>1, <1>4 DEF ListsInv, ManifestSound, NewestFirst, Descending
<1> QED
    BY <1>3, <1>5, <1>6 DEF FilesInv

\* Every step preserves it.
LEMMA FilesStep == FilesInv /\ [Next]_vars => FilesInv'
BY TypeStep, LocalsStep, ListsStep, CommittedStep, BuildStep, DropStep DEF FilesInv

\* It holds in every state of every run.
LEMMA FilesAlways == Spec => []FilesInv
BY FilesInit, FilesStep, PTL DEF Spec

\* Every variable has its type in every state of every run, whatever the
\* options and the failures: no number is negative, every file in a directory
\* is a whole table or a log, and no step meets a control point that is not
\* one of the code's.
THEOREM TypesCorrect == Spec => []TypeOK
BY FilesAlways, PTL DEF FilesInv

\* Every SSTable the MANIFEST lists is on disk, so that recovery never throws
\* for a missing file (db.cpp, recover, step 3), whatever crashed or failed
\* before.
THEOREM ManifestAlwaysSound == Spec => []ManifestSound
<1>1. FilesInv => ManifestSound
    BY DEF FilesInv, ListsInv
<1> QED
    BY <1>1, FilesAlways, PTL

\* sstables_ and the MANIFEST list the SSTables newest first, and the next
\* number is above them all: a lookup that stops at the first hit finds the
\* newest entry (db.cpp, get).  SSTables are numbered below NameLimit: from there
\* on a scan of the directory sorts them wrongly.
THEOREM AlwaysNewestFirst == Spec => []NewestFirst
<1>1. FilesInv => NewestFirst
    BY DEF FilesInv, ListsInv
<1> QED
    BY <1>1, FilesAlways, PTL

\* No step touches the file of an SSTable that is listed before and after it.
LEMMA ImmutableStep ==
    ASSUME FilesInv, [Next]_vars, manifest # Nil, manifest' # Nil,
           NEW id \in Range(manifest.live), id \in Range(manifest'.live)
    PROVE  sst_files'[id] = sst_files[id]
<1> USE DEF files, object, locals, meta, logs, tree, writer
<1>0. /\ DiskTypes /\ ObjectTypes /\ ThreadTypes
      /\ ListsInv /\ CommittedInv /\ BuildInv /\ DropInv
    BY DEF FilesInv, TypeOK
<1>1. id \in DOMAIN sst_files
    BY <1>0 DEF ListsInv, ManifestSound
<1>2. CASE FlushBuild \/ CompactBuild
    <2>1. id < next_sst_id
        BY <1>0, <1>2 DEF ListsInv, Loaded, FlushBuild, CompactBuild
    <2>2. id # next_sst_id
        BY <1>0, <2>1 DEF ObjectTypes
    <2> QED
        BY <1>1, <1>2, <2>2 DEF FlushBuild, CompactBuild, BuildSst, WriteFile
<1>3. CASE FlushWrite \/ CompactWrite
    <2>1. id < Built /\ Built \in Nat
        BY <1>0, <1>3 DEF BuildInv, FlushWrite, CompactWrite, Built, ObjectTypes
    <2> QED
        BY <1>1, <1>3, <2>1 DEF FlushWrite, CompactWrite, WriteSst, WriteFile
<1>4. CASE RemoveOrphans
    <2>1. CASE sst_files' = sst_files
        BY <2>1
    <2>2. ASSUME NEW other \in Orphans, sst_files' = RemoveFile(sst_files, other)
          PROVE  sst_files'[id] = sst_files[id]
        <3>1. id # other
            BY <1>0, <1>4 DEF Orphans, CommittedInv, RemoveOrphans
        <3> QED
            BY <1>1, <2>2, <3>1 DEF RemoveFile, Restrict
    <2> QED
        BY <1>4, <2>1, <2>2 DEF RemoveOrphans
<1>5. CASE DropOld
    <2>1. id \in Range(sstables)
        BY <1>0, <1>5 DEF DropOld, CommittedInv
    <2>2. Head(todo) \in Range(todo)
        BY <1>0, <1>5 DEF DropOld, ThreadTypes, Range
    <2>3. id # Head(todo)
        BY <1>0, <1>5, <2>1, <2>2 DEF DropOld, DropInv, After
    <2> QED
        BY <1>1, <1>5, <2>3 DEF DropOld, Removed, RemoveFile, Restrict
<1>6. CASE UNCHANGED sst_files
    BY <1>6
<1>7. [Next]_vars => \/ FlushBuild \/ CompactBuild \/ FlushWrite \/ CompactWrite
                     \/ RemoveOrphans \/ DropOld \/ UNCHANGED sst_files
    BY DEF Next, Work, Client, Step, vars,
           Open, Write, FlushMemtable, Compact, Close, RemoveTmp, RemoveDone,
           LoadListed, LoadScanned, LoadFails, ReplayNext, OpenWal, OpenWalFails,
           WriteManifest, RenameManifest, RetryRename, SyncWal, ApplyWrite,
           SealWal, NextWal, DropDone, MergeNext, CompactEnd, Unwind, Crash
<1> QED
    BY <1>2, <1>3, <1>4, <1>5, <1>6, <1>7

\* The file of a listed SSTable never changes: no run of crashes and recoveries
\* makes two SSTables take the same number while the first is in use
\* (sstable.h: once written, never modified; db.cpp, next_sst_id_).
THEOREM CommittedTablesNeverChange == Spec => CommittedTablesImmutable
<1>1. FilesInv /\ [Next]_vars =>
        [(manifest # Nil /\ manifest' # Nil) =>
           \A id \in Range(manifest.live) \cap Range(manifest'.live) :
              sst_files'[id] = sst_files[id]]_vars
    BY ImmutableStep
<1> QED
    BY <1>1, FilesAlways, PTL DEF Spec, CommittedTablesImmutable

-----------------------------------------------------------------------------
(* The segments.                                                           *)

\* Their numbers stay covered while the lists and the next number stay, and
\* no file appears among the segments.
LEMMA SegmentsFrame ==
    ASSUME SegmentsInv,
           UNCHANGED <<manifest, sstables, next_sst_id, current_wal_id>>,
           manifest # Nil \/ DOMAIN sst_files \subseteq DOMAIN sst_files',
           DOMAIN wal_files' \subseteq DOMAIN wal_files,
           Loaded' => Loaded, Updating' => Updating,
           After("remove_orphans", {"remove_orphans", "replay"})' =>
               After("remove_orphans", {"remove_orphans", "replay"}),
           After("seal", {"seal", "next_wal"})' => After("seal", {"seal", "next_wal"}),
           After("seal", {"write_sst", "seal", "next_wal"})' =>
               After("seal", {"write_sst", "seal", "next_wal"})
    PROVE  SegmentsInv'
BY DEF SegmentsInv, CoveredBy

\* They stay covered.
LEMMA SegmentsStep ==
    ASSUME Inv, [Next]_vars
    PROVE  SegmentsInv'
<1> USE DEF files, object, locals, meta, logs, tree, writer
<1>0. /\ DiskTypes /\ ObjectTypes /\ ThreadTypes /\ LocalsInv
      /\ ListsInv /\ CommittedInv /\ BuildInv /\ SegmentsInv
    BY DEF Inv, FilesInv, TypeOK
<1>1. CASE \/ Open \/ RemoveTmp \/ RemoveDone \/ LoadFails \/ OpenWalFails \/ WriteManifest
           \/ SyncWal \/ ApplyWrite \/ FlushMemtable \/ Compact \/ SealWal
           \/ MergeNext \/ DropOld \/ CompactEnd \/ RemoveOrphans \/ UNCHANGED vars
           \/ \E k \in Key, e \in Written : Write(k, e)
    <2>1. UNCHANGED <<manifest, sstables, next_sst_id, current_wal_id>>
        BY <1>1
        DEF Open, RemoveTmp, RemoveDone, LoadFails, OpenWalFails, WriteManifest, SyncWal,
            ApplyWrite, FlushMemtable, Compact, SealWal, MergeNext, DropOld, CompactEnd,
            RemoveOrphans, Write, vars
    <2>2. manifest # Nil \/ UNCHANGED sst_files
        BY <1>0, <1>1
        DEF Open, RemoveTmp, RemoveDone, LoadFails, OpenWalFails, WriteManifest, SyncWal,
            ApplyWrite, FlushMemtable, Compact, SealWal, MergeNext, DropOld, CompactEnd,
            RemoveOrphans, Write, vars, CommittedInv
    <2>3. DOMAIN wal_files' \subseteq DOMAIN wal_files
        BY <1>1
        DEF Open, RemoveTmp, RemoveDone, LoadFails, OpenWalFails, WriteManifest, SyncWal,
            ApplyWrite, FlushMemtable, Compact, SealWal, MergeNext, DropOld, CompactEnd,
            RemoveOrphans, Write, vars, Logged, RemoveFile, Restrict
    <2>4. /\ Loaded' => Loaded
          /\ Updating' => Updating
          /\ After("remove_orphans", {"remove_orphans", "replay"})' =>
               After("remove_orphans", {"remove_orphans", "replay"})
          /\ After("seal", {"seal", "next_wal"})' => After("seal", {"seal", "next_wal"})
          /\ After("seal", {"write_sst", "seal", "next_wal"})' =>
               After("seal", {"write_sst", "seal", "next_wal"})
        BY <1>0, <1>1
        DEF Open, RemoveTmp, RemoveDone, LoadFails, OpenWalFails, WriteManifest, SyncWal,
            ApplyWrite, FlushMemtable, Compact, SealWal, MergeNext, DropOld, CompactEnd,
            RemoveOrphans, Write, vars, Goto, Throw, Return, Leave,
            Loaded, Updating, After, LocalsInv
    <2> QED
        BY <1>0, <2>1, <2>2, <2>3, <2>4, SegmentsFrame
<1>2. CASE DropDone \/ Close \/ Unwind \/ Crash
    <2>1. UNCHANGED <<manifest, sst_files>> /\ DOMAIN wal_files' = DOMAIN wal_files
        BY <1>2 DEF DropDone, Close, Unwind, Crash, Logged
    <2>2. CASE Halt
        BY <1>0, <2>1, <2>2 DEF SegmentsInv, Loaded, Updating, After, Halt, Leave
    <2>3. CASE UNCHANGED <<sstables, next_sst_id, current_wal_id>> /\ ~ Halt
        <3>1. /\ Loaded' => Loaded
              /\ ~ Updating'
              /\ pc' \notin {"remove_orphans", "replay", "write_sst", "seal", "next_wal"}
            BY <1>2, <2>3 DEF DropDone, Close, Unwind, Crash, Goto, Return, Leave, Loaded, Updating
        <3> QED
            BY <1>0, <2>1, <2>3, <3>1 DEF SegmentsInv, After
    <2> QED
        BY <1>2, <2>2, <2>3 DEF DropDone, Close, Unwind, Crash
<1>3. CASE LoadListed
    <2>1. manifest.live \in Seq(Nat) /\ Descending(manifest.live)
        BY <1>0, <1>3 DEF LoadListed, DiskTypes, Manifest, ListsInv, NewestFirst
    <2>2. /\ NextAfter(manifest.live) \in Nat
          /\ \A id \in Range(manifest.live) : id < NextAfter(manifest.live)
          /\ CoveredBy(NextAfter(manifest.live), Range(manifest.live))
        BY <2>1, NextAfterFacts
    <2>3. \A w \in DOMAIN wal_files : CoveredBy(w, Range(manifest.live))
        BY <1>0, <1>3 DEF LoadListed, SegmentsInv
    <2>4. Range(manifest.live) \subseteq Nat /\ DOMAIN wal_files \subseteq Nat
        BY <1>0, <2>1 DEF Range, DiskTypes
    <2>5. \A w \in DOMAIN wal_files : w <= NextAfter(manifest.live)
        BY <2>2, <2>3, <2>4 DEF CoveredBy
    <2> QED
        BY <1>0, <1>3, <2>2, <2>3, <2>5
        DEF LoadListed, SegmentsInv, LocalsInv, Updating, After, Goto
<1>4. CASE LoadScanned
    <2>1. PICK ids \in [1..Cardinality(DOMAIN sst_files) -> DOMAIN sst_files] :
              /\ Range(ids) = DOMAIN sst_files
              /\ Descending(ids)
              /\ sstables' = ids
              /\ next_sst_id' = NextAfter(ids)
        BY <1>4 DEF LoadScanned, NameOrder
    <2>2. ids \in Seq(Nat)
        <3>1. Cardinality(DOMAIN sst_files) \in Nat
            BY <1>0, FS_CardinalityType DEF ListsInv
        <3>2. ids \in [1..Cardinality(DOMAIN sst_files) -> Nat]
            BY <1>0 DEF DiskTypes
        <3> QED
            BY <3>1, <3>2
    <2>3. /\ NextAfter(ids) \in Nat
          /\ \A id \in Range(ids) : id < NextAfter(ids)
          /\ CoveredBy(NextAfter(ids), Range(ids))
        BY <2>1, <2>2, NextAfterFacts
    <2>4. \A w \in DOMAIN wal_files : CoveredBy(w, Range(ids))
        BY <1>0, <1>4, <2>1 DEF LoadScanned, SegmentsInv
    <2>5. Range(ids) \subseteq Nat /\ DOMAIN wal_files \subseteq Nat
        BY <1>0, <2>1 DEF DiskTypes
    <2>6. \A w \in DOMAIN wal_files : w <= NextAfter(ids)
        BY <2>3, <2>4, <2>5 DEF CoveredBy
    <2>7. /\ UNCHANGED <<manifest, sst_files, wal_files, current_wal_id>>
          /\ manifest = Nil /\ current_wal_id = 0
          /\ pc' = "write_manifest" /\ ret' = "remove_orphans"
        BY <1>0, <1>4 DEF LoadScanned, UpdateManifest, Goto, LocalsInv
    <2> QED
        BY <1>0, <2>1, <2>3, <2>4, <2>6, <2>7 DEF SegmentsInv, Updating, After
<1>5. CASE ReplayNext
    <2>1. PICK id \in segs : current_wal_id' = AtLeast(current_wal_id, id)
        BY <1>5 DEF ReplayNext
    <2>2. id \in DOMAIN wal_files
        BY <1>0, <1>5 DEF ReplayNext, LocalsInv
    <2>3. id <= next_sst_id /\ current_wal_id <= next_sst_id
        BY <1>0, <1>5, <2>2 DEF ReplayNext, SegmentsInv, Loaded
    <2>4. current_wal_id' <= next_sst_id
        BY <2>1, <2>3 DEF AtLeast
    <2> QED
        BY <1>0, <1>5, <2>4 DEF ReplayNext, SegmentsInv, Loaded, Updating, After
<1>6. CASE OpenWal
    <2>1. manifest # Nil /\ manifest.live = sstables /\ CoveredBy(next_sst_id, Range(sstables))
        BY <1>0, <1>6 DEF OpenWal, CommittedInv, SegmentsInv, After
    <2>2. current_wal_id' = next_sst_id
        BY <1>0, <1>6 DEF OpenWal, AtLeast, SegmentsInv, Loaded, ObjectTypes
    <2>3. DOMAIN wal_files' = DOMAIN wal_files \cup {next_sst_id}
        BY <1>6, <2>2 DEF OpenWal, OpenSegment, WriteFile
    <2>4. UNCHANGED <<manifest, sst_files, sstables, next_sst_id>> /\ pc' = "idle" /\ Loaded
        BY <1>6 DEF OpenWal, Return, Loaded
    <2> QED
        BY <1>0, <2>1, <2>2, <2>3, <2>4 DEF SegmentsInv, Updating, After, ObjectTypes
<1>7. CASE RenameManifest \/ RetryRename
    <2>1. /\ UNCHANGED <<sst_files, wal_files, sstables, next_sst_id, current_wal_id>>
          /\ Updating
          /\ Loaded' => Loaded
          /\ After("remove_orphans", {"remove_orphans", "replay"})' =>
               After("remove_orphans", {"remove_orphans", "replay"})
          /\ After("seal", {"seal", "next_wal"})' => After("seal", {"seal", "next_wal"})
          /\ After("seal", {"write_sst", "seal", "next_wal"})' =>
               After("seal", {"write_sst", "seal", "next_wal"})
        <3>1. UNCHANGED <<sst_files, wal_files, sstables, next_sst_id, current_wal_id>> /\ Updating
            BY <1>7 DEF RenameManifest, RetryRename, Updating
        <3>2. ret \in {"remove_orphans", "seal", "drop_old"}
            BY <1>0, <3>1 DEF ThreadTypes, LocalsInv
        <3>3. \/ pc' = ret /\ ret' = "none" /\ call' = call
              \/ pc' = "retry_rename" /\ ret' = ret /\ call' = call
              \/ pc' = "unwind" /\ call' = call
            BY <1>7 DEF RenameManifest, RetryRename, CommitManifest, Goto, Throw
        <3> QED
            BY <3>1, <3>2, <3>3 DEF Loaded, Updating, After
    <2>2. CASE CommitManifest
        <3>1. manifest'.live = sstables /\ manifest' \in Manifest
            BY <1>0, <2>2 DEF CommitManifest, ObjectTypes, Manifest
        <3>2. manifest' # Nil
            BY <3>1, NilAssumption
        <3> QED
            BY <1>0, <2>1, <3>1, <3>2 DEF SegmentsInv, Updating, After
    <2>3. CASE manifest' \in {manifest, Nil}
        <3>1. manifest # Nil => Range(manifest.live) \subseteq DOMAIN sst_files
            BY <1>0 DEF ListsInv, ManifestSound
        <3>2. \A w \in DOMAIN wal_files :
                 CoveredBy(w, IF manifest' # Nil THEN Range(manifest'.live) ELSE DOMAIN sst_files)
            BY <1>0, <2>3, <3>1 DEF SegmentsInv, CoveredBy
        <3> QED
            BY <1>0, <2>1, <3>2 DEF SegmentsInv, Updating, After
    <2> QED
        BY <1>7, <2>2, <2>3 DEF RenameManifest, RetryRename, Removed
<1>8. CASE FlushBuild \/ CompactBuild
    <2>1. /\ UNCHANGED <<manifest, sstables, wal_files, current_wal_id>>
          /\ next_sst_id' = next_sst_id + 1
          /\ DOMAIN sst_files \subseteq DOMAIN sst_files'
          /\ Loaded /\ pc' \in {"write_sst", "write_merged", "unwind"}
        BY <1>8 DEF FlushBuild, CompactBuild, BuildSst, WriteFile, Goto, Throw, Loaded
    <2>2. \A w \in DOMAIN wal_files : w <= next_sst_id /\ w < next_sst_id'
        BY <1>0, <2>1 DEF SegmentsInv, DiskTypes, ObjectTypes
    <2> QED
        BY <1>0, <2>1, <2>2 DEF SegmentsInv, CoveredBy, Updating, After, ObjectTypes
<1>9. CASE FlushWrite \/ CompactWrite
    <2>1. /\ UNCHANGED <<manifest, wal_files, current_wal_id, next_sst_id>>
          /\ DOMAIN sst_files \subseteq DOMAIN sst_files'
          /\ Loaded /\ next_sst_id # 0 /\ next_sst_id = Built + 1
        BY <1>0, <1>9 DEF FlushWrite, CompactWrite, WriteSst, WriteFile, Loaded,
                          BuildInv, Built, ObjectTypes
    <2>2. \A w \in DOMAIN wal_files : w <= Built + 1
        BY <1>0, <2>1 DEF SegmentsInv
    <2>3. CASE FlushWrite /\ sstables' = WithNewest /\ UpdateManifest("seal")
        <3>1. Built \in Nat /\ sstables \in Seq(Nat)
            BY <1>0, <2>1 DEF Built, ObjectTypes
        <3>2. Built \in Range(sstables')
            <4>1. 1 \in DOMAIN (<<Built>> \o sstables) /\ (<<Built>> \o sstables)[1] = Built
                BY <3>1
            <4> QED
                BY <2>3, <4>1 DEF WithNewest, Range
        <3>3. \A w \in DOMAIN wal_files : w < next_sst_id
            BY <1>0, <2>3 DEF SegmentsInv, After, FlushWrite
        <3> QED
            BY <1>0, <2>1, <2>2, <2>3, <3>2, <3>3
            DEF SegmentsInv, CoveredBy, Updating, After, UpdateManifest, Goto, Built
    <2>4. CASE sstables' = <<Built>> /\ UpdateManifest("drop_old")
        <3>1. Range(<<Built>>) = {Built}
            BY DEF Range
        <3> QED
            BY <1>0, <2>1, <2>2, <2>4, <3>1
            DEF SegmentsInv, CoveredBy, Updating, After, UpdateManifest, Goto
    <2>5. CASE pc' = "unwind"
        BY <1>0, <2>1, <2>5 DEF SegmentsInv, CoveredBy, Updating, After
    <2> QED
        BY <1>9, <2>3, <2>4, <2>5 DEF FlushWrite, CompactWrite, Throw, Goto
<1>10. CASE NextWal
    <2>1. /\ UNCHANGED <<manifest, sst_files, sstables, next_sst_id>>
          /\ current_wal_id' = next_sst_id
          /\ DOMAIN wal_files' \subseteq DOMAIN wal_files \cup {next_sst_id}
          /\ Loaded /\ pc' \in {"drop_done", "unwind"}
        BY <1>10 DEF NextWal, NextSegment, OpenSegment, WriteFile, Loaded, Goto, Throw
    <2>2. /\ manifest # Nil /\ manifest.live = sstables
          /\ next_sst_id # 0 /\ next_sst_id - 1 \in Range(sstables)
        BY <1>0, <1>10 DEF NextWal, CommittedInv, SegmentsInv, After
    <2>3. CoveredBy(next_sst_id, Range(sstables))
        BY <1>0, <2>2 DEF CoveredBy, ObjectTypes
    <2> QED
        BY <1>0, <2>1, <2>2, <2>3 DEF SegmentsInv, Updating, After, ObjectTypes
<1> QED
    BY <1>1, <1>2, <1>3, <1>4, <1>5, <1>6, <1>7, <1>8, <1>9, <1>10
    DEF Next, Work, Client, Step

\* A flush finds no segment of the number it goes on with.
LEMMA FreshStep ==
    ASSUME Inv, [Next]_vars
    PROVE  FreshSegment'
<1> USE DEF files, object, locals, meta, logs, tree, writer
<1>0. ObjectTypes /\ ThreadTypes /\ SegmentsInv /\ FreshSegment
    BY DEF Inv, FilesInv, TypeOK
<1>1. CASE NextWal
    <2>1. next_sst_id \notin DOMAIN wal_files
        <3>1. \A w \in DOMAIN wal_files : w < next_sst_id
            BY <1>0, <1>1 DEF NextWal, SegmentsInv, After
        <3> QED
            BY <1>0, <3>1 DEF ObjectTypes
    <2> QED
        BY <1>1, <2>1 DEF NextWal, NextSegment, OpenSegment, WriteFile, FreshSegment, Goto, Throw
<1>2. CASE UNCHANGED vars
    BY <1>0, <1>2 DEF vars, FreshSegment
<1>3. CASE Next /\ ~ NextWal
    <2>1. pc' # "drop_done"
        BY <1>0, <1>3
        DEF Next, Work, Client, Step,
            Open, Write, FlushMemtable, Compact, Close, RemoveTmp, RemoveDone,
            LoadListed, LoadScanned, LoadFails, RemoveOrphans, ReplayNext, OpenWal, OpenWalFails,
            WriteManifest, RenameManifest, RetryRename, CommitManifest, SyncWal, ApplyWrite,
            FlushBuild, FlushWrite, SealWal, DropDone, MergeNext, CompactBuild, CompactWrite,
            DropOld, CompactEnd, Unwind, Crash, BuildSst, UpdateManifest,
            Goto, Throw, Return, Halt, ThreadTypes
    <2> QED
        BY <2>1 DEF FreshSegment
<1> QED
    BY <1>1, <1>2, <1>3

\* Inv is inductive.
LEMMA InvInit == Init => Inv
<1>1. Init => DOMAIN wal_files = {}
    BY DEF Init, NoFiles
<1> QED
    BY <1>1, FilesInit DEF Init, Inv, SegmentsInv, FreshSegment, Loaded, Updating, After

LEMMA InvStep == Inv /\ [Next]_vars => Inv'
BY FilesStep, SegmentsStep, FreshStep DEF Inv

\* A flush goes on with an empty segment, whatever crashes and recoveries came
\* before: no record of an earlier segment of the same number is appended to
\* (db.cpp, flush_memtable_locked, step 4).
THEOREM FlushFindsFreshSegment == Spec => []FreshSegment
<1>1. Inv => FreshSegment
    BY DEF Inv
<1> QED
    BY <1>1, InvInit, InvStep, PTL DEF Spec

-----------------------------------------------------------------------------
(* The generation of the MANIFEST.                                         *)

\* manifest_gen_ is never behind the MANIFEST, and ahead of it while one is
\* on its way.
GenerationInv ==
    manifest # Nil =>
        /\ Loaded => manifest.generation <= manifest_gen
        /\ pc \in {"rename_manifest", "retry_rename"} => manifest.generation < manifest_gen

\* Every step keeps the counter there.
LEMMA GenerationStep ==
    ASSUME FilesInv, GenerationInv, [Next]_vars
    PROVE  GenerationInv'
<1> USE DEF files, object, locals, meta, logs, tree, writer
<1>0. DiskTypes /\ ObjectTypes /\ ThreadTypes /\ LocalsInv
    BY DEF FilesInv, TypeOK
<1>1. manifest # Nil => manifest.generation \in Nat
    BY <1>0 DEF DiskTypes, Manifest
<1>2. CASE WriteManifest
    <2>1. UNCHANGED manifest /\ manifest_gen' = manifest_gen + 1 /\ Loaded
        BY <1>2 DEF WriteManifest, NextGeneration, Loaded
    <2> QED
        BY <1>0, <1>1, <2>1 DEF GenerationInv, ObjectTypes
<1>3. CASE RenameManifest \/ RetryRename
    <2>1. UNCHANGED manifest_gen
        BY <1>3 DEF RenameManifest, RetryRename
    <2>2. CASE CommitManifest
        <3>1. manifest'.generation = manifest_gen
            BY <2>2 DEF CommitManifest
        <3>2. pc' \notin {"rename_manifest", "retry_rename"}
            BY <1>0, <2>2 DEF CommitManifest, Goto, ThreadTypes
        <3> QED
            BY <1>0, <2>1, <3>1, <3>2 DEF GenerationInv, ObjectTypes
    <2>3. CASE manifest' \in {manifest, Nil} /\ pc' \in {"retry_rename", "unwind"}
        <3>1. manifest # Nil => manifest.generation < manifest_gen
            BY <1>3 DEF GenerationInv, RenameManifest, RetryRename
        <3> QED
            BY <1>0, <1>1, <2>1, <2>3, <3>1 DEF GenerationInv, ObjectTypes
    <2> QED
        BY <1>3, <2>2, <2>3 DEF RenameManifest, RetryRename, Removed, Goto, Throw
<1>4. CASE LoadListed
    BY <1>0, <1>1, <1>4 DEF LoadListed, GenerationInv, Goto
<1>5. CASE UNCHANGED vars
    BY <1>5 DEF vars, GenerationInv, Loaded
<1>6. CASE Next /\ ~ (WriteManifest \/ RenameManifest \/ RetryRename \/ LoadListed)
    <2>1. /\ UNCHANGED manifest
          /\ UNCHANGED manifest_gen \/ pc' = "down"
          /\ pc' \notin {"rename_manifest", "retry_rename"}
        BY <1>6
        DEF Next, Work, Client, Step,
            Open, Write, FlushMemtable, Compact, Close, RemoveTmp, RemoveDone,
            LoadScanned, LoadFails, RemoveOrphans, ReplayNext, OpenWal, OpenWalFails,
            SyncWal, ApplyWrite, FlushBuild, FlushWrite, SealWal, NextWal, DropDone,
            MergeNext, CompactBuild, CompactWrite, DropOld, CompactEnd, Unwind, Crash,
            BuildSst, UpdateManifest, Goto, Throw, Return, Halt
    <2>2. (Loaded' => Loaded) \/ manifest = Nil
        BY <1>0, <1>6
        DEF Next, Work, Client, Step,
            Open, Write, FlushMemtable, Compact, Close, RemoveTmp, RemoveDone,
            LoadScanned, LoadFails, RemoveOrphans, ReplayNext, OpenWal, OpenWalFails,
            SyncWal, ApplyWrite, FlushBuild, FlushWrite, SealWal, NextWal, DropDone,
            MergeNext, CompactBuild, CompactWrite, DropOld, CompactEnd, Unwind, Crash,
            BuildSst, UpdateManifest, Goto, Throw, Return, Halt, Leave, Loaded, LocalsInv
    <2> QED
        BY <2>1, <2>2 DEF GenerationInv, Loaded
<1> QED
    BY <1>2, <1>3, <1>4, <1>5, <1>6

\* A MANIFEST that takes the place of another has a higher generation, across
\* crashes and recoveries (db.h: manifest_gen_ is "monotonically increasing").
THEOREM GenerationAlwaysGrows == Spec => GenerationGrows
<1>1. Init => GenerationInv
    BY DEF Init, GenerationInv
<1>2. FilesInv /\ GenerationInv /\ [Next]_vars => GenerationInv'
    BY GenerationStep
<1>3. FilesInv /\ GenerationInv /\ [Next]_vars =>
        [(manifest' # manifest /\ manifest # Nil /\ manifest' # Nil) =>
           manifest'.generation > manifest.generation]_vars
    <2> SUFFICES ASSUME FilesInv, GenerationInv, [Next]_vars,
                        manifest' # manifest, manifest # Nil, manifest' # Nil
                 PROVE  manifest'.generation > manifest.generation
        OBVIOUS
    <2>1. CommitManifest /\ pc \in {"rename_manifest", "retry_rename"}
        BY DEF Next, Work, Client, Step, vars, files, meta,
            Open, Write, FlushMemtable, Compact, Close, RemoveTmp, RemoveDone,
            LoadListed, LoadScanned, LoadFails, RemoveOrphans, ReplayNext, OpenWal, OpenWalFails,
            WriteManifest, RenameManifest, RetryRename, Removed,
            SyncWal, ApplyWrite, FlushBuild, FlushWrite, SealWal, NextWal, DropDone,
            MergeNext, CompactBuild, CompactWrite, DropOld, CompactEnd, Unwind, Crash, BuildSst
    <2>2. manifest'.generation = manifest_gen
        BY <2>1 DEF CommitManifest
    <2>3. manifest_gen \in Nat /\ manifest.generation \in Nat
        BY DEF FilesInv, TypeOK, ObjectTypes, DiskTypes, Manifest
    <2> QED
        BY <2>1, <2>2, <2>3 DEF GenerationInv
<1> QED
    BY <1>1, <1>2, <1>3, FilesAlways, PTL DEF Spec, GenerationGrows
=============================================================================
