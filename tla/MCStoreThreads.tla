--------------------------- MODULE MCStoreThreads ---------------------------
(***************************************************************************)
(* StoreThreads with bounds for TLC.                                       *)
(***************************************************************************)
EXTENDS StoreThreadsProperties

CONSTANTS
    MaxId,      \* SSTables are numbered below MaxId
    MaxLog,     \* records in a segment
    Writers,    \* the threads that may write, flush and compact
    Readers     \* the threads that may get and ask for stats

\* A call that may build SSTables is made only while two more may be built for
\* each call under way and, for a write, while the segment has room.
Pending == Cardinality({t \in Thread : asked[t] # Nil /\ asked[t].op \notin Shared})

Bounded ==
    \A t \in Thread :
        (asked[t] = Nil /\ asked'[t] # Nil) =>
            \/ t \in Readers /\ asked'[t].op \in Shared
            \/ /\ t \in Writers /\ asked'[t].op \notin Shared
               /\ next_sst_id + 2 * (Pending + 1) <= MaxId
               /\ pc = "idle" /\ Len(wal_files[current_wal_id]) + Pending < MaxLog

MCThreadsSpec     == ThreadsInit /\ [][ThreadsNext /\ Bounded]_allvars
MCFairThreadsSpec == MCThreadsSpec /\ ThreadsFair
=============================================================================
