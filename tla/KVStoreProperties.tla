------------------------- MODULE KVStoreProperties -------------------------
(***************************************************************************)
(* What the storage engine must and must not do.                           *)
(***************************************************************************)
EXTENDS KVStore

-----------------------------------------------------------------------------
(* Views of the state.                                                     *)

\* DB::get: the first layer that knows the key wins, a tombstone too.
Get(k) ==
    Visible(IF memtable[k] # NoEntry THEN memtable[k]
            ELSE Lookup(sst_files, sstables, k))

\* What the segments hold, the newest last.
Replayed(k) == Newest([id \in DOMAIN wal_files |-> Replay(wal_files[id])], k)

\* What the SSTables hold that recovery would load.
Committed(k) ==
    IF manifest # Nil THEN Lookup(sst_files, manifest.live, k)
    ELSE Newest(sst_files, k)

\* What a client would read if the process ended now and the store were
\* opened again.
Recoverable ==
    [k \in Key |-> Visible(IF Replayed(k) # NoEntry THEN Replayed(k) ELSE Committed(k))]

\* No record was appended behind a cut one.
NoBuriedTear == \A id \in DOMAIN wal_files : ~ BuriedTear(wal_files[id])

\* No segment but the active one has records; before recovery has chosen the
\* active one, one segment has.  Recovery leaves one behind when
\* it replays wal_N but goes on with a segment of a higher number: the flush
\* that stores the records of wal_N seals only the segment it goes on with.
NoLeftover ==
    LET used == {id \in DOMAIN wal_files : wal_files[id] # <<>>}
    IN  IF pc = "down" \/ call = "open"
        THEN \A i, j \in used : i = j
        ELSE used \subseteq {current_wal_id}

Clean == NoBuriedTear /\ NoLeftover

DM == INSTANCE DurableMap WITH
        store   <- Recoverable,
        pending <- rec,
        landed  <- pc = "apply"

-----------------------------------------------------------------------------
(* Durability (db.h, "Durability contract").                               *)

\* The engine implements the durable map: a write is on disk before it is
\* acknowledged, a crash keeps or drops the write in flight, and no step of a
\* recovery, a flush or a compaction changes what a restart would find.
NoAckedWriteLost == DM!Spec

\* The same, step by step, for as long as the segments are clean.
DurableWhileClean == [][Clean /\ Clean' => [DM!Next]_(DM!vars)]_vars

\* Between calls, readers see what a restart would find.
ReadsMatchDisk ==
    (pc = "idle" /\ Clean) => \A k \in Key : Get(k) = Recoverable[k]

\* Between calls, the MemTable holds what a replay of the active segment
\* yields: sealing that segment after a flush loses nothing that is not in the
\* SSTable, and keeps nothing that is.
SegmentMatchesMemTable ==
    (pc = "idle" /\ wal = "open" /\ Clean) => memtable = Replay(wal_files[current_wal_id])

-----------------------------------------------------------------------------
(* Files and their numbers.                                                *)

\* Every SSTable the MANIFEST lists is on disk: no order of crashes makes the
\* constructor throw.
ManifestSound ==
    manifest # Nil => Range(manifest.live) \subseteq DOMAIN sst_files

\* The file of an SSTable that the MANIFEST lists never changes: a number is
\* not used twice, not even after a crash made recovery start from the MANIFEST.
CommittedTablesImmutable ==
    [][(manifest # Nil /\ manifest' # Nil) =>
         \A id \in Range(manifest.live) \cap Range(manifest'.live) :
            sst_files'[id] = sst_files[id]]_vars

\* sstables_ is newest first, as lookups need it, and so is the list that
\* recovery loads; the next number is above them all.
NewestFirst ==
    /\ Descending(sstables)
    /\ manifest # Nil => Descending(manifest.live)
    /\ \A id \in Range(sstables) : id < next_sst_id

\* A flush goes on with an empty segment: none of its number was left by an
\* earlier run.
FreshSegment == pc = "drop_done" => wal_files[current_wal_id] = <<>>

\* Between calls the directory holds the files in use and no others, but for
\* segments: a crash leaves nothing that recovery does not collect.
NoGarbage ==
    pc = "idle" =>
        /\ DOMAIN sst_files = Range(sstables)
        /\ done_files = {}
        /\ manifest_tmp = "absent"
        /\ manifest = [generation |-> manifest_gen, live |-> sstables]

\* The generation of the MANIFEST only grows (db.h, manifest_gen_), across
\* crashes too.
GenerationGrows ==
    [][(manifest' # manifest /\ manifest # Nil /\ manifest' # Nil) =>
         manifest'.generation > manifest.generation]_vars

-----------------------------------------------------------------------------
(* Work.                                                                   *)

\* A write that returns has flushed a MemTable that was full, and has merged
\* the SSTables when there were too many.
WriteLeavesRoom ==
    [][(call = "write" /\ pc # "unwind" /\ pc' = "idle") =>
         /\ Bytes(memtable') < FlushBytes \/ memtable' = EmptyTable
         /\ (pc # "apply" /\ Len(sstables') >= CompactionThreshold) => Len(sstables') <= 1]_vars

\* Every call comes to its end, by returning, throwing, or with the process.
CallsReturn == (pc \notin {"idle", "down"}) ~> (pc \in {"idle", "down"})
=============================================================================
