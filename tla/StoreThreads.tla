---------------------------- MODULE StoreThreads ----------------------------
(***************************************************************************)
(* The store and the threads that call it.  KVStore gives the steps of the *)
(* call that holds mu_ exclusively; here are mu_ itself, the threads that  *)
(* wait for it, and get and stats, which hold it in shared mode and look   *)
(* at one layer or one field at a time.                                    *)
(*                                                                         *)
(* The threads call an object that is constructed and not yet being        *)
(* destroyed: constructor and destructor take no lock.  The process is not *)
(* killed; KVStore is about that.                                          *)
(***************************************************************************)
EXTENDS KVStoreProperties

CONSTANTS Thread

VARIABLES
    asked,  \* the call each thread is in, or Nil
    mode,   \* how it holds mu_: "none", "shared" or "exclusive"
    seen    \* get: the entries found so far; stats: the fields read so far

threads == <<asked, mode, seen>>
allvars == <<vars, threads>>

Request ==
    [op : {"write"}, key : Key, entry : Written]
        \cup [op : {"get"}, key : Key]
        \cup [op : {"flush", "compact", "stats"}]

\* Nil is not a call, and neither what a get answers nor what a write does.
ASSUME CallerAssumption == Nil \notin Request \cup Value \cup {NoEntry, "done"}

Shared == {"get", "stats"}

ThreadsInit ==
    /\ Init
    /\ asked = [t \in Thread |-> Nil]
    /\ mode = [t \in Thread |-> "none"]
    /\ seen = [t \in Thread |-> <<>>]

Waits(t) == asked[t] # Nil /\ mode[t] = "none"

\* The call of t is over and its lock released.
Leaves(t) ==
    /\ asked' = [asked EXCEPT ![t] = Nil]
    /\ mode' = [mode EXCEPT ![t] = "none"]
    /\ seen' = [seen EXCEPT ![t] = <<>>]

Ask(t) ==
    /\ asked[t] = Nil
    /\ pc # "down" /\ call \notin {"open", "close"}
    /\ \E r \in Request : asked' = [asked EXCEPT ![t] = r]
    /\ UNCHANGED <<vars, mode, seen>>

-----------------------------------------------------------------------------
(* put, del, flush_memtable and compact.                                   *)

\* flush_memtable and compact return at once when there is nothing to do.
NothingToDo(r) ==
    \/ r.op = "flush" /\ memtable = EmptyTable
    \/ r.op = "compact" /\ Len(sstables) < 2

Begins(r) ==
    \/ r.op = "write" /\ Write(r.key, r.entry)
    \/ r.op = "flush" /\ FlushMemtable
    \/ r.op = "compact" /\ Compact

\* Mutant: the writer takes a std::shared_lock: a reader does not keep it out.
FreeForWriterOnly == \A t \in Thread : mode[t] # "exclusive"

\* Nobody is inside, as std::unique_lock needs it.
Free == \A t \in Thread : mode[t] = "none"

\* std::unique_lock is granted, and the call begins.  A write that finds wal_
\* null, left by a flush that could not open the next segment, would end the
\* process, and is left out.
LockExclusive(t) ==
    /\ Waits(t)
    /\ asked[t].op \notin Shared
    /\ Free
    /\ \/ /\ Begins(asked[t])
          /\ mode' = [mode EXCEPT ![t] = "exclusive"]
          /\ UNCHANGED <<asked, seen>>
       \/ /\ NothingToDo(asked[t])
          /\ Leaves(t)
          /\ UNCHANGED vars

\* Mutant: mu_ is unlocked by hand at the end, which an exception passes over.
OverReturning == pc' = "idle" /\ pc # "unwind"

\* The step ends the call: the lock's destructor runs, after an exception too.
Over == pc' = "idle"

\* Mutant: maybe_flush calls compact(), which takes the lock again.
RunRelocking(t) ==
    /\ mode[t] = "exclusive"
    /\ pc = "merge" => Free
    /\ Step
    /\ IF Over THEN Leaves(t) ELSE UNCHANGED threads

\* The thread inside does its work.
Run(t) ==
    /\ mode[t] = "exclusive"
    /\ Step
    /\ IF Over THEN Leaves(t) ELSE UNCHANGED threads

-----------------------------------------------------------------------------
(* get and stats.                                                          *)

\* std::shared_lock is granted: no writer is inside.
LockShared(t) ==
    /\ Waits(t)
    /\ asked[t].op \in Shared
    /\ \A o \in Thread : mode[o] # "exclusive"
    /\ mode' = [mode EXCEPT ![t] = "shared"]
    /\ UNCHANGED <<vars, asked, seen>>

\* What a get has in its layer n, the MemTable being layer 0.
Layer(n, k) ==
    IF n = 0 THEN memtable[k] ELSE Content(sst_files, sstables[n])[k]

\* DBStats, without wal_replayed.
Stats ==
    << Cardinality({k \in Key : memtable[k] # NoEntry}), Bytes(memtable),
       Len(sstables), current_wal_id, manifest_gen >>

\* Mutant: a tombstone does not end the search.
HitValue(t) == seen[t] # <<>> /\ seen[t][Len(seen[t])] \in Value

\* The last layer a get has looked at knows the key, by a tombstone too.
Hit(t) == seen[t] # <<>> /\ seen[t][Len(seen[t])] # NoEntry

\* Nothing is left to look at.
Decided(t) ==
    /\ mode[t] = "shared"
    /\ \/ asked[t].op = "get" /\ (Hit(t) \/ Len(seen[t]) > Len(sstables))
       \/ asked[t].op = "stats" /\ Len(seen[t]) = Len(Stats)

Found(t) == Visible(seen[t][Len(seen[t])])

\* What is seen next: a layer or a field.  In a file that it cannot open a lookup
\* finds nothing.
Shown(t) ==
    LET n == Len(seen[t])
    IN  IF asked[t].op = "get"
        THEN {Layer(n, asked[t].key)} \cup
             (IF n > 0 /\ "sst_lookup" \in Faults THEN {NoEntry} ELSE {})
        ELSE {Stats[n + 1]}

\* One lookup, or one field.
Look(t) ==
    /\ mode[t] = "shared"
    /\ ~ Decided(t)
    /\ \E shown \in Shown(t) : seen' = [seen EXCEPT ![t] = Append(@, shown)]
    /\ UNCHANGED <<vars, asked, mode>>

Unlock(t) ==
    /\ Decided(t)
    /\ Leaves(t)
    /\ UNCHANGED vars

-----------------------------------------------------------------------------
(* The object's life.                                                      *)

\* An exception in the destructor, which is noexcept, ends the process.
Terminates == call = "close" /\ pc' = "unwind"

\* Its owner destroys it only when no call is under way.
Owner ==
    /\ \/ Open
       \/ Close /\ \A t \in Thread : asked[t] = Nil
       \/ call \in {"open", "close"} /\ Step /\ ~ Terminates
    /\ UNCHANGED threads

Lock(t)   == LockExclusive(t) \/ LockShared(t)
Inside(t) == Run(t) \/ Look(t) \/ Unlock(t)

ThreadsNext == Owner \/ \E t \in Thread : Ask(t) \/ Lock(t) \/ Inside(t)

ThreadsSpec == ThreadsInit /\ [][ThreadsNext]_allvars

\* A thread that is inside runs; one that waits for a lock that stays free gets
\* it.  std::shared_mutex promises no more: not who is next, nor that a writer
\* is ever served while readers follow each other.
ThreadsFair ==
    \A t \in Thread : WF_allvars(Inside(t)) /\ WF_allvars(Lock(t))

FairThreadsSpec == ThreadsSpec /\ ThreadsFair
=============================================================================
