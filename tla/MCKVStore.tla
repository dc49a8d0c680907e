----------------------------- MODULE MCKVStore -----------------------------
(***************************************************************************)
(* KVStore with bounds for TLC.                                            *)
(***************************************************************************)
EXTENDS KVStoreProperties

CONSTANTS
    MaxId,      \* SSTables are numbered below MaxId
    MaxLog,     \* records in a segment
    MaxUsed     \* segments with records that a recovery finds

\* Calls begin only while two more SSTables may be built (a flush and a merge)
\* and, for a write, while the segment has room.  Crashes are not bounded, but
\* a store with too many segments in use is not opened again.
Bounded ==
    /\ (pc = "idle" /\ pc' \in {"sync", "build_sst", "merge"}) => next_sst_id + 2 <= MaxId
    /\ pc' = "sync" => Len(wal_files[current_wal_id]) < MaxLog
    /\ pc = "down" =>
         Cardinality({id \in DOMAIN wal_files : wal_files[id] # <<>>}) <= MaxUsed

MCWork == Work /\ Bounded
MCNext == Next /\ Bounded

MCSpec         == Init /\ [][MCNext]_vars
MCGracefulSpec == Init /\ [][MCWork]_vars
MCFairSpec     == MCSpec /\ WF_vars(Step)
=============================================================================
