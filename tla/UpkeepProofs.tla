---------------------------- MODULE UpkeepProofs ----------------------------
(***************************************************************************)
(* Proofs about what the engine tidies up: the files that crashes leave    *)
(* behind, and the room that a write finds.                                *)
(***************************************************************************)
EXTENDS DurabilityProofs

-----------------------------------------------------------------------------
(* Files in use, on a file system that works.                              *)

\* The failures that leave a file, or a MANIFEST that is behind.
Untidy == {"remove", "wal_open", "sst_open", "manifest_write", "manifest_rename"}

\* Without them no rename is tried a third time, because the MANIFEST that was in
\* its way is gone, and the constructor throws nothing.
Unfailing ==
    /\ pc = "retry_rename" => manifest = Nil
    /\ ~ (pc = "unwind" /\ call = "open")

\* MANIFEST.tmp is there only while it is written, or after a crash.
TmpInv == pc \notin {"down", "remove_tmp", "rename_manifest", "retry_rename"} => manifest_tmp = "absent"

\* A sealed segment is there only for the end of its flush, or after a crash.
DoneInv ==
    /\ pc \in {"next_wal", "drop_done"} => done_files \subseteq {done_seg}
    /\ pc \notin {"down", "remove_tmp", "remove_done", "next_wal", "drop_done"} =>
          done_files = {}

\* The MANIFEST is what the object would write, but while it writes it.
WrittenInv ==
    (Loaded /\ ~ Updating) => manifest = [generation |-> manifest_gen, live |-> sstables]

\* The SSTables on disk are listed, under construction, or still to be removed
\* by the compaction that has taken them off the list.
TablesInUse ==
    /\ (Loaded /\ pc # "remove_orphans" /\ pc \notin {"write_sst", "write_merged"}
          /\ ~ After("drop_old", {"drop_old"})) =>
          DOMAIN sst_files \subseteq Range(sstables)
    /\ pc \in {"write_sst", "write_merged"} =>
          DOMAIN sst_files \subseteq Range(sstables) \cup {Built}
    /\ After("drop_old", {"drop_old"}) =>
          DOMAIN sst_files \subseteq Range(sstables) \cup Range(todo)

UpkeepInv == Unfailing /\ TmpInv /\ DoneInv /\ WrittenInv /\ TablesInUse

\* No object and no file satisfy it.
LEMMA UpkeepInit == Init => UpkeepInv
BY DEF Init, UpkeepInv, Unfailing, TmpInv, DoneInv, WrittenInv, TablesInUse, Loaded, Updating, After

\* No step throws: the SSTables that the MANIFEST lists are there.
LEMMA UnfailingStep ==
    ASSUME FilesInv, Unfailing, CallInv, [Next]_vars, Faults \cap Untidy = {}
    PROVE  Unfailing'
<1> USE DEF files, object, locals, meta, logs, tree, writer, Untidy
<1>0. ThreadTypes /\ LocalsInv /\ ManifestSound
    BY DEF FilesInv, TypeOK, ListsInv
<1>1. CASE RenameManifest
    <2>1. \/ CommitManifest
          \/ manifest' = Nil /\ pc' = "retry_rename"
        BY <1>1 DEF RenameManifest, Removed, Goto
    <2>2. pc = "rename_manifest" /\ ret \in {"remove_orphans", "seal", "drop_old"}
        BY <1>0, <1>1 DEF RenameManifest, ThreadTypes, LocalsInv, Updating
    <2> QED
        BY <2>1, <2>2 DEF Unfailing, CommitManifest, Goto
<1>2. CASE RetryRename
    <2>1. CommitManifest
        BY <1>2 DEF RetryRename, RenameMayFail, Unfailing
    <2>2. ret \in {"remove_orphans", "seal", "drop_old"}
        BY <1>0, <1>2 DEF RetryRename, ThreadTypes, LocalsInv, Updating
    <2> QED
        BY <2>1, <2>2 DEF Unfailing, CommitManifest, Goto
<1>3. CASE Next /\ ~ (RenameManifest \/ RetryRename)
    BY <1>0, <1>3
    DEF Next, Work, Client, Step, Unfailing, ManifestSound, ThreadTypes, CallInv, After, Updating,
        Open, Write, FlushMemtable, Compact, Close, RemoveTmp, RemoveDone,
        LoadListed, LoadScanned, LoadFails, RemoveOrphans, ReplayNext, OpenWal, OpenWalFails,
        WriteManifest, SyncWal, ApplyWrite,
        FlushBuild, FlushWrite, SealWal, NextWal, DropDone, MergeNext, CompactBuild,
        CompactWrite, DropOld, CompactEnd, Unwind, Crash, BuildSst, UpdateManifest,
        Goto, Throw, Return, Halt
<1>4. CASE UNCHANGED vars
    BY <1>4 DEF vars, Unfailing
<1> QED
    BY <1>1, <1>2, <1>3, <1>4

\* MANIFEST.tmp is renamed, or removed by the next recovery.
LEMMA TmpStep ==
    ASSUME FilesInv, Unfailing, TmpInv, [Next]_vars, Faults \cap Untidy = {}
    PROVE  TmpInv'
<1> USE DEF files, object, locals, meta, logs, tree, writer, Untidy
<1>0. ThreadTypes
    BY DEF FilesInv, TypeOK
<1>1. CASE RemoveTmp \/ WriteManifest \/ RenameManifest \/ RetryRename
    BY <1>1 DEF TmpInv, Unfailing, Removed, RemoveTmp, WriteManifest, RenameManifest, RetryRename,
                RenameMayFail, CommitManifest, Goto
<1>2. CASE UNCHANGED vars
    BY <1>2 DEF vars, TmpInv
<1>3. CASE Next /\ ~ (RemoveTmp \/ WriteManifest \/ RenameManifest \/ RetryRename)
    BY <1>0, <1>3
    DEF Next, Work, Client, Step, TmpInv, Unfailing, ThreadTypes,
        Open, Write, FlushMemtable, Compact, Close, RemoveDone,
        LoadListed, LoadScanned, LoadFails, RemoveOrphans, ReplayNext, OpenWal, OpenWalFails,
        SyncWal, ApplyWrite, FlushBuild, FlushWrite, SealWal, NextWal, DropDone, MergeNext,
        CompactBuild, CompactWrite, DropOld, CompactEnd, Unwind, Crash, BuildSst,
        UpdateManifest, Goto, Throw, Return, Halt
<1> QED
    BY <1>1, <1>2, <1>3

\* A sealed segment is removed by its flush, or by the next recovery.
LEMMA DoneStep ==
    ASSUME FilesInv, Unfailing, DoneInv, [Next]_vars, Faults \cap Untidy = {}
    PROVE  DoneInv'
<1> USE DEF files, object, locals, meta, logs, tree, writer, Untidy
<1>0. ThreadTypes
    BY DEF FilesInv, TypeOK
<1>1. CASE RemoveDone
    BY <1>1 DEF DoneInv, RemoveDone, Goto
<1>2. CASE SealWal \/ NextWal
    BY <1>2 DEF DoneInv, SealWal, NextWal, Goto, Throw
<1>3. CASE DropDone
    <2>1. done_files' = {}
        BY <1>3 DEF DoneInv, DropDone, Removed
    <2>2. pc' \notin {"next_wal", "drop_done"}
        BY <1>3 DEF DropDone, Goto, Return, Halt
    <2> QED
        BY <2>1, <2>2 DEF DoneInv
<1>4. CASE UNCHANGED vars
    BY <1>4 DEF vars, DoneInv
<1>5. CASE Next /\ ~ (RemoveDone \/ SealWal \/ NextWal \/ DropDone)
    <2>1. UNCHANGED done_files /\ pc' \notin {"next_wal", "drop_done"}
        BY <1>0, <1>5
        DEF Next, Work, Client, Step, ThreadTypes, FilesInv, LocalsInv, Unfailing,
            Open, Write, FlushMemtable, Compact, Close, RemoveTmp,
            LoadListed, LoadScanned, LoadFails, RemoveOrphans, ReplayNext, OpenWal, OpenWalFails,
            WriteManifest, RenameManifest, RetryRename, CommitManifest, SyncWal, ApplyWrite,
            FlushBuild, FlushWrite, MergeNext, CompactBuild, CompactWrite, DropOld, CompactEnd,
            Unwind, Crash, BuildSst, UpdateManifest, Goto, Throw, Return, Halt
    <2>2. \/ pc' \in {"down", "remove_tmp", "remove_done"}
          \/ pc \notin {"down", "remove_tmp", "remove_done", "next_wal", "drop_done"}
        BY <1>0, <1>5
        DEF Next, Work, Client, Step, ThreadTypes, Unfailing,
            Open, Write, FlushMemtable, Compact, Close, RemoveTmp,
            LoadListed, LoadScanned, LoadFails, RemoveOrphans, ReplayNext, OpenWal, OpenWalFails,
            WriteManifest, RenameManifest, RetryRename, SyncWal, ApplyWrite,
            FlushBuild, FlushWrite, MergeNext, CompactBuild, CompactWrite, DropOld, CompactEnd,
            Unwind, Crash, BuildSst, Goto, Halt
    <2> QED
        BY <2>1, <2>2 DEF DoneInv
<1> QED
    BY <1>1, <1>2, <1>3, <1>4, <1>5

\* The MANIFEST follows the object.
LEMMA WrittenStep ==
    ASSUME FilesInv, Unfailing, WrittenInv, [Next]_vars, Faults \cap Untidy = {}
    PROVE  WrittenInv'
<1> USE DEF files, object, locals, meta, logs, tree, writer, Untidy
<1>0. ThreadTypes /\ LocalsInv /\ DiskTypes
    BY DEF FilesInv, TypeOK
<1>1. CASE LoadListed
    BY <1>0, <1>1 DEF WrittenInv, LoadListed, DiskTypes, Manifest
<1>2. CASE RenameManifest \/ RetryRename
    BY <1>2
    DEF WrittenInv, RenameManifest, RetryRename, RenameMayFail, CommitManifest, Updating, Unfailing, Goto
<1>3. CASE UNCHANGED vars
    BY <1>3 DEF vars, WrittenInv, Loaded, Updating
<1>4. CASE Next /\ ~ (LoadListed \/ RenameManifest \/ RetryRename)
    <2>1. CASE Loaded' /\ ~ Updating'
        <3>1. Loaded /\ ~ Updating /\ UNCHANGED <<manifest, manifest_gen, sstables>>
            BY <1>0, <1>4, <2>1
            DEF Next, Work, Client, Step, ThreadTypes, LocalsInv, Loaded, Updating, Unfailing,
                Open, Write, FlushMemtable, Compact, Close, RemoveTmp, RemoveDone,
                LoadScanned, LoadFails, RemoveOrphans, ReplayNext, OpenWal, OpenWalFails,
                WriteManifest, SyncWal, ApplyWrite, FlushBuild, FlushWrite, SealWal, NextWal,
                DropDone, MergeNext, CompactBuild, CompactWrite, DropOld, CompactEnd,
                Unwind, Crash, BuildSst, UpdateManifest, Goto, Throw, Return, Halt
        <3> QED
            BY <3>1 DEF WrittenInv
    <2>2. CASE ~ (Loaded' /\ ~ Updating')
        BY <2>2 DEF WrittenInv
    <2> QED
        BY <2>1, <2>2
<1> QED
    BY <1>1, <1>2, <1>3, <1>4

\* Orphans are removed by recovery, merged SSTables by their compaction.
LEMMA InUseStep ==
    ASSUME FilesInv, Unfailing, TablesInUse, [Next]_vars, Faults \cap Untidy = {}
    PROVE  TablesInUse'
<1> USE DEF files, object, locals, meta, logs, tree, writer, Untidy
<1>0. ThreadTypes /\ LocalsInv /\ DiskTypes /\ ObjectTypes
    BY DEF FilesInv, TypeOK
<1>1. CASE RemoveOrphans
    <2>1. CASE pc' = "replay"
        <3>1. DOMAIN sst_files' \subseteq Range(sstables')
            BY <1>1, <2>1 DEF RemoveOrphans, Orphans
        <3> QED
            BY <1>1, <2>1, <3>1 DEF RemoveOrphans, TablesInUse, After, Updating
    <2>2. CASE UNCHANGED pc
        BY <1>1, <2>2 DEF RemoveOrphans, TablesInUse, After, Updating
    <2> QED
        BY <1>1, <2>1, <2>2 DEF RemoveOrphans, Goto
<1>2. CASE LoadScanned
    <2>1. DOMAIN sst_files' \subseteq Range(sstables')
        BY <1>2 DEF LoadScanned
    <2> QED
        BY <1>2, <2>1 DEF LoadScanned, UpdateManifest, Goto, TablesInUse, After, Updating
<1>3. CASE FlushBuild \/ CompactBuild
    <2>1. CASE pc' = "unwind"
        BY <1>0, <1>3, <2>1
        DEF FlushBuild, CompactBuild, BuildSst, Goto, Throw, TablesInUse, Loaded, After, Updating,
            ThreadTypes, CallInv
    <2>2. CASE pc' # "unwind"
        <3>1. /\ pc \in {"build_sst", "merge"} /\ pc' \in {"write_sst", "write_merged"}
              /\ UNCHANGED sstables
              /\ sst_files' = WriteFile(sst_files, next_sst_id, EmptyTable)
              /\ Built' = next_sst_id
            <4>1. /\ pc \in {"build_sst", "merge"} /\ pc' \in {"write_sst", "write_merged"}
                  /\ sstables' = sstables
                  /\ sst_files' = WriteFile(sst_files, next_sst_id, EmptyTable)
                BY <1>3, <2>2 DEF FlushBuild, CompactBuild, BuildSst, Goto, Throw
            <4>2. Built' = next_sst_id
                <5>1. next_sst_id' = next_sst_id + 1 /\ next_sst_id \in Nat
                    BY <1>0, <1>3 DEF FlushBuild, CompactBuild, BuildSst, ObjectTypes
                <5> QED
                    BY <5>1 DEF Built
            <4> QED
                BY <4>1, <4>2
        <3>2. DOMAIN sst_files' = DOMAIN sst_files \cup {next_sst_id}
            BY <3>1 DEF WriteFile
        <3> QED
            BY <3>1, <3>2 DEF TablesInUse, Loaded, After, Updating
    <2> QED
        BY <2>1, <2>2
<1>4. CASE FlushWrite \/ CompactWrite
    <2>1. /\ pc \in {"write_sst", "write_merged"} /\ pc' = "write_manifest"
          /\ \/ sstables' = WithNewest /\ ret' = "seal"
             \/ sstables' = <<Built>> /\ ret' = "drop_old" /\ todo' = sstables
        BY <1>4 DEF FlushWrite, CompactWrite, UpdateManifest, Goto
    <2>2. DOMAIN sst_files' = DOMAIN sst_files \cup {Built}
        <3>1. PICK content : sst_files' = WriteFile(sst_files, Built, content)
            BY <1>4 DEF FlushWrite, CompactWrite, WriteSst
        <3> QED
            BY <3>1 DEF WriteFile
    <2>3. DOMAIN sst_files \subseteq Range(sstables) \cup {Built}
        BY <2>1 DEF TablesInUse
    <2>4. /\ Range(WithNewest) = Range(sstables) \cup {Built}
          /\ Range(<<Built>>) = {Built}
        <3>1. /\ Built \in Nat /\ sstables \in Seq(Nat) /\ Descending(sstables)
              /\ \A id \in Range(sstables) : id < Built
            BY <1>0, <1>4
            DEF FilesInv, ListsInv, NewestFirst, ObjectTypes, BuildInv, Built, FlushWrite, CompactWrite
        <3>2. Range(WithNewest) = Range(sstables) \cup {Built}
            BY <3>1, PrependFacts DEF WithNewest
        <3>3. Range(<<Built>>) = {Built}
            BY DEF Range
        <3> QED
            BY <3>2, <3>3
    <2>5. CASE sstables' = WithNewest /\ ret' = "seal"
        BY <2>1, <2>2, <2>3, <2>4, <2>5 DEF TablesInUse, After, Updating
    <2>6. CASE sstables' = <<Built>> /\ ret' = "drop_old" /\ todo' = sstables
        BY <2>1, <2>2, <2>3, <2>4, <2>6 DEF TablesInUse, After, Updating
    <2> QED
        BY <2>1, <2>5, <2>6
<1>5. CASE DropOld
    <2>1. /\ pc = "drop_old" /\ UNCHANGED <<pc, call, ret, sstables>>
          /\ sst_files' = RemoveFile(sst_files, Head(todo)) /\ todo' = Tail(todo)
        BY <1>5 DEF DropOld, Removed
    <2>2. DOMAIN sst_files' = DOMAIN sst_files \ {Head(todo)}
        BY <2>1 DEF RemoveFile, Restrict
    <2>3. Range(todo) \subseteq Range(Tail(todo)) \cup {Head(todo)}
        <3> SUFFICES ASSUME NEW i \in DOMAIN todo
                     PROVE  todo[i] \in Range(Tail(todo)) \cup {Head(todo)}
            BY DEF Range
        <3>1. todo \in Seq(Nat) /\ todo # <<>>
            BY <1>0, <1>5 DEF DropOld, ThreadTypes
        <3>2. CASE i = 1
            BY <3>1, <3>2
        <3>3. CASE i # 1
            <4>1. i - 1 \in DOMAIN Tail(todo) /\ Tail(todo)[i - 1] = todo[i]
                BY <3>1, <3>3
            <4> QED
                BY <4>1 DEF Range
        <3> QED
            BY <3>2, <3>3
    <2> QED
        BY <2>1, <2>2, <2>3 DEF TablesInUse, After, Updating
<1>6. CASE CompactEnd
    <2>1. Range(todo) = {}
        BY <1>6 DEF CompactEnd, Range
    <2> QED
        BY <1>6, <2>1 DEF CompactEnd, Return, TablesInUse, After, Updating
<1>7. CASE RenameManifest \/ RetryRename \/ WriteManifest
    BY <1>0, <1>7
    DEF RenameManifest, RetryRename, RenameMayFail, CommitManifest, WriteManifest, Goto, TablesInUse,
        After, Updating, Loaded, Unfailing, LocalsInv, ThreadTypes
<1>8. CASE Crash \/ Close \/ DropDone \/ Unwind
    <2>1. CASE Halt
        BY <2>1 DEF Halt, TablesInUse, Loaded, After, Updating
    <2>2. CASE ~ Halt
        BY <1>8, <2>2
        DEF Crash, Close, DropDone, Unwind, Goto, Return, TablesInUse, Loaded, After, Updating
    <2> QED
        BY <2>1, <2>2
<1>9. CASE UNCHANGED vars
    BY <1>9 DEF vars, TablesInUse, Loaded, After, Updating, Built
<1>10. CASE Next /\ ~ (\/ RemoveOrphans \/ LoadScanned \/ FlushBuild \/ CompactBuild
                       \/ FlushWrite \/ CompactWrite \/ DropOld \/ CompactEnd
                       \/ RenameManifest \/ RetryRename \/ WriteManifest
                       \/ Crash \/ Close \/ DropDone \/ Unwind)
    <2>1. UNCHANGED <<sst_files, sstables>> \/ LoadListed
        BY <1>0, <1>10
        DEF Next, Work, Client, Step, Unfailing,
            Open, Write, FlushMemtable, Compact, RemoveTmp, RemoveDone,
            LoadFails, ReplayNext, OpenWal, OpenWalFails, SyncWal, ApplyWrite,
            SealWal, NextWal, MergeNext
    <2>2. /\ pc' \notin {"write_sst", "write_merged", "drop_old"} /\ ~ Updating'
          /\ Loaded' /\ pc' # "remove_orphans" =>
                Loaded /\ pc # "remove_orphans" /\ pc \notin {"write_sst", "write_merged", "drop_old"}
                /\ ~ Updating /\ ~ LoadListed
        BY <1>0, <1>10
        DEF Next, Work, Client, Step, ThreadTypes, LocalsInv, Loaded, Updating, Unfailing,
            Open, Write, FlushMemtable, Compact, RemoveTmp, RemoveDone,
            LoadListed, LoadFails, ReplayNext, OpenWal, OpenWalFails, SyncWal, ApplyWrite,
            SealWal, NextWal, MergeNext, Goto, Throw, Return
    <2> QED
        BY <2>1, <2>2 DEF TablesInUse, After
<1> QED
    BY <1>1, <1>2, <1>3, <1>4, <1>5, <1>6, <1>7, <1>8, <1>9, <1>10 DEF Next, Work, Client, Step

\* Between calls the directory holds the files in use and no others, but for
\* segments: recovery collects what a crash left, whenever it came, and flushes
\* and compactions leave nothing themselves (db.cpp, recover, steps 1, 2 and 4),
\* not even when no file can be made for their SSTable.
THEOREM NothingIsLeftBehind ==
    ASSUME Faults \cap Untidy = {}
    PROVE  Spec => []NoGarbage
<1>1. Init => FilesInv /\ CallInv /\ UpkeepInv
    BY FilesInit, CallInit, UpkeepInit
<1>2. FilesInv /\ CallInv /\ UpkeepInv /\ [Next]_vars => (FilesInv /\ CallInv /\ UpkeepInv)'
    BY FilesStep, CallStep, UnfailingStep, TmpStep, DoneStep, WrittenStep, InUseStep DEF UpkeepInv
<1>3. FilesInv /\ UpkeepInv => NoGarbage
    <2> SUFFICES ASSUME FilesInv, UpkeepInv, pc = "idle"
                 PROVE  /\ DOMAIN sst_files = Range(sstables)
                        /\ done_files = {}
                        /\ manifest_tmp = "absent"
                        /\ manifest = [generation |-> manifest_gen, live |-> sstables]
        BY DEF NoGarbage
    <2> QED
        BY DEF FilesInv, ListsInv, UpkeepInv, TmpInv, DoneInv, WrittenInv, TablesInUse,
               Loaded, Updating, After
<1> QED
    BY <1>1, <1>2, <1>3, PTL DEF Spec

-----------------------------------------------------------------------------
(* The room that a write finds.                                            *)

\* A compaction leaves one SSTable.
MergedInv == After("drop_old", {"drop_old"}) => Len(sstables) = 1

LEMMA MergedIntoOneStep ==
    ASSUME FilesInv, MergedInv, [Next]_vars
    PROVE  MergedInv'
<1> USE DEF files, object, locals, meta, logs, tree, writer, Untidy
<1>0. ThreadTypes /\ LocalsInv
    BY DEF FilesInv, TypeOK
<1>1. CASE CompactWrite
    <2>1. sstables' = <<Built>> \/ pc' = "unwind"
        BY <1>1 DEF CompactWrite, Throw, Goto
    <2> QED
        BY <2>1 DEF MergedInv, After, Updating
<1>2. CASE UNCHANGED vars
    BY <1>2 DEF vars, MergedInv, After, Updating
<1>3. CASE WriteManifest \/ RenameManifest \/ RetryRename \/ DropOld
    BY <1>0, <1>3
    DEF WriteManifest, RenameManifest, RetryRename, CommitManifest, DropOld, Goto, Throw,
        MergedInv, After, Updating, LocalsInv, ThreadTypes
<1>4. CASE Next /\ ~ (CompactWrite \/ WriteManifest \/ RenameManifest \/ RetryRename \/ DropOld)
    <2>1. ~ After("drop_old", {"drop_old"})'
        BY <1>0, <1>4
        DEF Next, Work, Client, Step, After, Updating, ThreadTypes,
            Open, Write, FlushMemtable, Compact, Close, RemoveTmp, RemoveDone,
            LoadListed, LoadScanned, LoadFails, RemoveOrphans, ReplayNext, OpenWal, OpenWalFails,
            SyncWal, ApplyWrite, FlushBuild, FlushWrite, SealWal, NextWal, DropDone,
            MergeNext, CompactBuild, CompactEnd, Unwind, Crash, BuildSst,
            UpdateManifest, Goto, Throw, Return, Halt
    <2> QED
        BY <2>1 DEF MergedInv
<1> QED
    BY <1>1, <1>2, <1>3, <1>4

\* The size of a table is a number, when there is an end to the keys.
LEMMA BytesType ==
    ASSUME IsFiniteSet(Key), NEW table
    PROVE  Bytes(table) \in Nat
<1>1. \A S \in SUBSET Key : Cardinality(S) \in Nat
    BY FS_Subset, FS_CardinalityType
<1>2. /\ Cardinality({k \in Key : table[k] # NoEntry}) \in Nat
      /\ Cardinality({k \in Key : table[k] \in Value}) \in Nat
    BY <1>1
<1> QED
    BY <1>2 DEF Bytes

\* A write that returns to its caller has flushed a MemTable that is full, and
\* merged the SSTables if they were too many, whatever failed before (db.cpp,
\* maybe_flush and flush_memtable_locked).
THEOREM WritesAlwaysLeaveRoom ==
    ASSUME IsFiniteSet(Key)
    PROVE  Spec => WriteLeavesRoom
<1> USE DEF files, object, locals, meta, logs, tree, writer
<1> DEFINE All == FilesInv /\ CallInv /\ MergedInv
<1>1. Init => All
    BY FilesInit, CallInit DEF Init, MergedInv, After, Updating
<1>2. All /\ [Next]_vars => All'
    BY FilesStep, CallStep, MergedIntoOneStep
<1>3. ASSUME All, Next, call = "write", pc # "unwind", pc' = "idle"
      PROVE  /\ Bytes(memtable') < FlushBytes \/ memtable' = EmptyTable
             /\ (pc # "apply" /\ Len(sstables') >= CompactionThreshold) => Len(sstables') <= 1
    <2>0. LocalsInv /\ ThreadTypes /\ ObjectTypes
        BY <1>3 DEF FilesInv, TypeOK
    <2>1. CASE ApplyWrite
        <3>1. Bytes(memtable') \in Nat
            BY BytesType
        <3>2. ~ (Bytes(memtable') >= FlushBytes)
            BY <1>3, <2>1 DEF ApplyWrite, Full, Goto
        <3> QED
            BY <2>1, <3>1, <3>2, OptionsAssumption DEF ApplyWrite
    <2>2. CASE DropDone
        <3>1. ~ Compacts /\ UNCHANGED object
            BY <1>3, <2>2 DEF DropDone, Goto, Halt
        <3>2. memtable = EmptyTable
            BY <1>3, <2>2 DEF DropDone, CallInv, After
        <3> QED
            BY <1>3, <2>0, <3>1, <3>2, OptionsAssumption DEF Compacts, ObjectTypes
    <2>3. CASE CompactEnd
        <3>1. memtable = EmptyTable /\ Len(sstables) = 1 /\ UNCHANGED object
            BY <1>3, <2>3 DEF CompactEnd, CallInv, MergedInv, After
        <3> QED
            BY <3>1
    <2>4. ApplyWrite \/ DropDone \/ CompactEnd
        BY <1>3, <2>0
        DEF Next, Work, Client, Step, CallInv, After, Updating, LocalsInv, ThreadTypes,
            Open, Write, FlushMemtable, Compact, Close, RemoveTmp, RemoveDone,
            LoadListed, LoadScanned, LoadFails, RemoveOrphans, ReplayNext, OpenWal, OpenWalFails,
            WriteManifest, RenameManifest, RetryRename, CommitManifest, SyncWal,
            FlushBuild, FlushWrite, SealWal, NextWal, MergeNext, CompactBuild, CompactWrite,
            DropOld, Unwind, Crash, BuildSst, UpdateManifest, Goto, Throw, Halt
    <2> QED
        BY <2>1, <2>2, <2>3, <2>4
<1>4. All /\ [Next]_vars =>
        [(call = "write" /\ pc # "unwind" /\ pc' = "idle") =>
            /\ Bytes(memtable') < FlushBytes \/ memtable' = EmptyTable
            /\ (pc # "apply" /\ Len(sstables') >= CompactionThreshold) => Len(sstables') <= 1]_vars
    BY <1>3
<1> HIDE DEF All
<1> QED
    BY <1>1, <1>2, <1>4, PTL DEF Spec, WriteLeavesRoom
=============================================================================
