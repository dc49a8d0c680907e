--------------------------- MODULE GracefulProofs ---------------------------
(***************************************************************************)
(* The engine implements the durable map, for a process that nobody kills, *)
(* on a file system that may fail to remove files and to open segments:    *)
(* through all writes, flushes, compactions, closings and openings.        *)
(*                                                                         *)
(* DurabilityProofs has it for the steps between clean states.  Here the   *)
(* states are clean: closing the store leaves no record in a segment.      *)
(***************************************************************************)
EXTENDS DurabilityProofs

-----------------------------------------------------------------------------
(* The segments of a store that is always closed.                          *)

\* What may fail and not leave a record in a segment that is left.
Benign == {"torn", "remove", "wal_open", "sst_create", "manifest_write"}

\* An exception in the destructor comes after the seal, if at all.
ClosesInv == pc = "unwind" /\ call = "close" => wal = "null"

\* Only the active segment has records, and none is cut.  No segment has any when
\* the object is gone, when no segment is active, and when one has just become it.
EmptiedInv ==
    /\ \A id \in DOMAIN wal_files : Untorn(wal_files[id])
    /\ Serving => Used \subseteq {current_wal_id}
    /\ ~ Serving \/ wal = "null" \/ pc = "drop_done" => Used = {}

\* A store without files satisfies it.
LEMMA EmptiedInit == Init => EmptiedInv
<1> SUFFICES ASSUME Init
             PROVE  EmptiedInv
    OBVIOUS
<1>1. DOMAIN wal_files = {}
    BY DEF Init, NoFiles
<1> QED
    BY <1>1 DEF Init, EmptiedInv, Serving, Used

\* Such segments are clean.
LEMMA EmptiedIsClean == TypeOK /\ EmptiedInv => Clean
<1> SUFFICES ASSUME TypeOK, EmptiedInv
             PROVE  Clean
    OBVIOUS
<1>1. NoBuriedTear
    BY UntornIsWhole DEF NoBuriedTear, EmptiedInv, TypeOK, DiskTypes
<1>2. NoLeftover
    BY DEF NoLeftover, EmptiedInv, Serving, Used
<1> QED
    BY <1>1, <1>2 DEF Clean

\* The object that goes away has nothing in its segments that is not in the
\* SSTables: a MemTable that is empty is a segment that is empty.
LEMMA NothingLeft ==
    ASSUME TypeOK, LogsInv, EmptiedInv, Serving, pc # "apply", memtable = EmptyTable
    PROVE  Used = {}
<1>1. CASE wal = "null"
    BY <1>1 DEF EmptiedInv
<1>2. CASE wal = "open"
    <2>1. /\ current_wal_id \in DOMAIN wal_files
          /\ Replay(wal_files[current_wal_id]) = EmptyTable
        BY <1>2, EmptiedIsClean DEF LogsInv, ActiveInv, ActiveLogInv
    <2>2. wal_files[current_wal_id] \in Log /\ Untorn(wal_files[current_wal_id])
        BY <2>1 DEF TypeOK, DiskTypes, EmptiedInv
    <2>3. wal_files[current_wal_id] = <<>>
        BY <2>1, <2>2, NothingToReplay
    <2> QED
        BY <2>3 DEF EmptiedInv, Used
<1> QED
    BY <1>1, <1>2 DEF TypeOK, ObjectTypes

\* A flush empties the segments it leaves, and a close leaves them empty.
LEMMA EmptiedStep ==
    ASSUME FilesInv, CallInv, LogsInv, EmptiedInv, ClosesInv, ClosesInv', [Work]_vars,
           Faults \subseteq Benign
    PROVE  EmptiedInv'
<1> USE DEF files, object, locals, meta, logs, tree, writer
<1>0. LocalsInv /\ TypeOK /\ ThreadTypes /\ ObjectTypes /\ [Next]_vars
    BY DEF FilesInv, TypeOK, Next
<1>1. Used' = {id \in DOMAIN wal_files' : wal_files'[id] # <<>>}
    BY DEF Used
<1>2. CASE OpenWal \/ NextWal
    <2>1. Used = {}
        BY <1>0, <1>2 DEF OpenWal, NextWal, EmptiedInv, Serving, CallInv, After
    <2>2. CASE OpenSegment(current_wal_id')
        <3>1. Used' = Used
            BY <2>2, OpenedFacts
        <3>2. Untorn(<<>>)
            BY DEF Untorn
        <3>3. \A id \in DOMAIN wal_files' : Untorn(wal_files'[id])
            BY <1>0, <2>2, <3>2, OpenedFacts DEF EmptiedInv
        <3> QED
            BY <2>1, <3>1, <3>3 DEF EmptiedInv
    <2>3. CASE UNCHANGED wal_files
        BY <1>1, <2>1, <2>3 DEF EmptiedInv, Used
    <2> QED
        BY <1>2, <2>2, <2>3 DEF OpenWal, NextWal
<1>3. CASE SyncWal
    <2>1. /\ wal_files' = Logged(rec) /\ rec \in Record /\ current_wal_id \in DOMAIN wal_files
          /\ UNCHANGED <<current_wal_id, call, wal>> /\ pc' = "apply" /\ Serving /\ wal = "open"
        BY <1>0, <1>3
        DEF SyncWal, Benign, LocalsInv, ThreadTypes, CallInv, After, Updating, Serving, Goto,
            LogsInv, ActiveInv
    <2>2. /\ DOMAIN wal_files' = DOMAIN wal_files
          /\ wal_files'[current_wal_id] = Append(wal_files[current_wal_id], rec)
          /\ \A id \in DOMAIN wal_files : id # current_wal_id => wal_files'[id] = wal_files[id]
          /\ wal_files[current_wal_id] \in Log
        BY <1>0, <2>1, LoggedFacts
    <2>3. Used' \subseteq {current_wal_id}
        BY <1>1, <2>1, <2>2 DEF EmptiedInv, Used
    <2>4. \A id \in DOMAIN wal_files' : Untorn(wal_files'[id])
        BY <2>1, <2>2, ReplayOfAppend DEF EmptiedInv
    <2>5. Serving'
        BY <2>1 DEF Serving
    <2> QED
        BY <2>1, <2>3, <2>4, <2>5 DEF EmptiedInv
<1>4. CASE SealWal
    <2>1. Used \subseteq {current_wal_id}
        BY <1>4 DEF EmptiedInv
    <2>2. CASE wal_files' = RemoveFile(wal_files, current_wal_id)
        <3>1. /\ DOMAIN wal_files' = DOMAIN wal_files \ {current_wal_id}
              /\ \A id \in DOMAIN wal_files' : wal_files'[id] = wal_files[id]
            BY <2>2 DEF RemoveFile, Restrict
        <3>2. Used' = {}
            BY <1>1, <2>1, <3>1 DEF Used
        <3> QED
            BY <3>1, <3>2 DEF EmptiedInv
    <2>3. CASE current_wal_id \notin DOMAIN wal_files /\ UNCHANGED wal_files
        BY <1>1, <2>1, <2>3 DEF EmptiedInv, Used
    <2> QED
        BY <1>4, <2>2, <2>3 DEF SealWal, Benign
<1>5. CASE UNCHANGED wal_files /\ Used = {}
    BY <1>1, <1>5 DEF EmptiedInv, Used
<1>6. CASE Close
    <2>1. CASE memtable = EmptyTable
        <3>1. Serving
            BY <1>0, <1>6 DEF Close, Serving, CallInv, After, Updating
        <3> QED
            BY <1>0, <1>5, <1>6, <2>1, <3>1, NothingLeft DEF Close
    <2>2. CASE memtable # EmptyTable
        BY <1>0, <1>1, <1>6, <2>2 DEF Close, EmptiedInv, Serving, CallInv, After, Updating, Used
    <2> QED
        BY <2>1, <2>2
<1>7. CASE DropDone \/ (Unwind /\ wal = "null")
    BY <1>5, <1>7 DEF DropDone, Unwind, EmptiedInv
<1>8. CASE ~ Serving /\ ~ OpenWal
    <2>1. UNCHANGED wal_files
        BY <1>0, <1>8
        DEF Work, Client, Step, vars, Serving, CallInv, After, Updating, LocalsInv,
            Open, Write, FlushMemtable, Compact, Close, RemoveTmp, RemoveDone,
            LoadListed, LoadScanned, LoadFails, RemoveOrphans, ReplayNext, OpenWalFails,
            WriteManifest, RenameManifest, RetryRename, SyncWal, ApplyWrite, FlushBuild,
            FlushWrite, SealWal, NextWal, DropDone, MergeNext, CompactBuild, CompactWrite,
            DropOld, CompactEnd, Unwind, BuildSst
    <2> QED
        BY <1>5, <1>8, <2>1 DEF EmptiedInv
<1>9. CASE UNCHANGED vars
    BY <1>1, <1>9 DEF vars, EmptiedInv, Serving, Used
<1>10. CASE Serving /\ Work /\ ~ (OpenWal \/ NextWal \/ SyncWal \/ SealWal \/ Close \/ DropDone)
                   /\ ~ (Unwind /\ wal = "null")
    <2>1. UNCHANGED <<wal_files, current_wal_id, wal>>
        BY <1>0, <1>10
        DEF Work, Client, Step, Serving, CallInv, After, ClosesInv,
            Open, Write, FlushMemtable, Compact, RemoveTmp, RemoveDone,
            LoadListed, LoadScanned, LoadFails, RemoveOrphans, ReplayNext, OpenWalFails,
            WriteManifest, RenameManifest, RetryRename, ApplyWrite, FlushBuild, FlushWrite,
            MergeNext, CompactBuild, CompactWrite, DropOld, CompactEnd, Unwind, BuildSst
    <2>2. Serving' /\ pc' # "drop_done"
        BY <1>0, <1>10
        DEF Work, Client, Step, Serving, CallInv, After, Updating, ClosesInv, LocalsInv, ThreadTypes,
            Open, Write, FlushMemtable, Compact, RemoveTmp, RemoveDone,
            LoadListed, LoadScanned, LoadFails, RemoveOrphans, ReplayNext, OpenWalFails,
            WriteManifest, RenameManifest, RetryRename, CommitManifest, ApplyWrite, FlushBuild,
            FlushWrite, MergeNext, CompactBuild, CompactWrite, DropOld, CompactEnd, Unwind,
            BuildSst, UpdateManifest, Goto, Throw, Return, Leave
    <2>3. UNCHANGED Used
        BY <1>1, <2>1 DEF Used
    <2>4. Used = {} \/ (wal # "null" /\ pc # "drop_done")
        BY DEF EmptiedInv
    <2> QED
        BY <1>10, <2>1, <2>2, <2>3, <2>4 DEF EmptiedInv
<1> QED
    BY <1>2, <1>3, <1>4, <1>6, <1>7, <1>8, <1>9, <1>10

-----------------------------------------------------------------------------
(* Exceptions.                                                             *)

\* What may fail in silence, or throw when no segment has records that are in an
\* SSTable too.
Silent == {"torn", "remove", "wal_open"}

\* What is thrown is thrown for a segment that cannot be opened: by recovery, or
\* by a flush that has sealed the one before.
ThrowInv ==
    /\ pc # "retry_rename"
    /\ pc = "unwind" => call = "open" \/ wal = "null"

\* No other step throws: the SSTables that the MANIFEST lists are there.
LEMMA ThrowStep ==
    ASSUME FilesInv, CallInv, ThrowInv, [Work]_vars, Faults \subseteq Silent
    PROVE  ThrowInv'
<1> USE DEF files, object, locals, meta, logs, tree, writer
<1>0. ThreadTypes /\ LocalsInv /\ ManifestSound
    BY DEF FilesInv, TypeOK, ListsInv
<1>1. CASE Work
    BY <1>0, <1>1
    DEF Work, Client, Step, ThrowInv, Silent, ManifestSound, ThreadTypes, LocalsInv,
        CallInv, After, Updating,
        Open, Write, FlushMemtable, Compact, Close, RemoveTmp, RemoveDone,
        LoadListed, LoadScanned, LoadFails, RemoveOrphans, ReplayNext, OpenWal, OpenWalFails,
        WriteManifest, RenameManifest, RetryRename, RenameMayFail, CommitManifest, SyncWal, ApplyWrite,
        FlushBuild, FlushWrite, SealWal, NextWal, DropDone, MergeNext, CompactBuild,
        CompactWrite, DropOld, CompactEnd, Unwind, BuildSst, UpdateManifest,
        Goto, Throw, Return, Halt
<1>2. CASE UNCHANGED vars
    BY <1>2 DEF vars, ThrowInv
<1> QED
    BY <1>1, <1>2

-----------------------------------------------------------------------------
(* The refinement.                                                         *)

\* An empty store yields an empty map.
LEMMA DurableInit == Init => DM!Init
<1> SUFFICES ASSUME Init
             PROVE  DM!Init
    OBVIOUS
<1>1. DOMAIN wal_files = {} /\ DOMAIN sst_files = {} /\ manifest = Nil
    BY DEF Init, NoFiles
<1>2. ASSUME NEW k \in Key
      PROVE  Recoverable[k] = NoEntry
    <2>1. Replayed(k) = NoEntry
        BY <1>1 DEF Replayed, Newest
    <2>2. Committed(k) = NoEntry
        BY <1>1 DEF Committed, Newest
    <2> QED
        BY <2>1, <2>2, EntryAssumption DEF Recoverable, Visible
<1>3. Recoverable = [k \in Key |-> NoEntry]
    BY <1>2 DEF Recoverable
<1> QED
    BY <1>3 DEF Init, DM!Init

\* A process that nobody kills implements the durable map: what a client wrote
\* last is what it reads, through all flushes and compactions, and after every
\* close and open.  No file that could not be removed comes back to life, and a
\* flush that cannot go on with a new segment loses nothing.
THEOREM GracefulIsDurable ==
    ASSUME Faults \subseteq Silent
    PROVE  GracefulSpec => NoAckedWriteLost
<1>1. /\ Faults \subseteq Tolerated /\ Faults \subseteq Benign
      /\ "wal_write" \notin Faults /\ "wal_read" \notin Faults
    BY DEF Silent, Tolerated, Benign
<1> DEFINE All == Inv /\ TablesInv /\ LogsInv /\ ThrowInv /\ EmptiedInv
<1>2. Init => All
    <2>1. Init => ThrowInv
        BY DEF Init, ThrowInv
    <2> QED
        BY <2>1, InvInit, TablesInit, LogsInit, EmptiedInit
<1>3. All /\ [Work]_vars => All'
    <2> SUFFICES ASSUME All, [Work]_vars
                 PROVE  All'
        OBVIOUS
    <2>1. [Next]_vars /\ FilesInv /\ CallInv
        BY DEF Next, Inv, TablesInv
    <2>2. Inv' /\ TablesInv' /\ LogsInv'
        BY <1>1, <2>1, InvStep, TablesStep, LogsStep
    <2>3. ThrowInv'
        BY <2>1, ThrowStep
    <2>4. ClosesInv /\ ClosesInv'
        BY <2>3 DEF ThrowInv, ClosesInv
    <2>5. EmptiedInv'
        BY <1>1, <2>1, <2>4, EmptiedStep
    <2> QED
        BY <2>2, <2>3, <2>5
<1>4. All => Clean /\ ServedInv
    BY EmptiedIsClean, ServedIsRecoverable DEF Inv, FilesInv
<1>5. All /\ Clean /\ ServedInv /\ (Clean /\ ServedInv)' /\ [Work]_vars => [DM!Next]_(DM!vars)
    BY <1>1, DurableStep DEF Next
<1> HIDE DEF All
<1> QED
    BY <1>2, <1>3, <1>4, <1>5, DurableInit, PTL DEF GracefulSpec, NoAckedWriteLost, DM!Spec
=============================================================================
