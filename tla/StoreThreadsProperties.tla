----------------------- MODULE StoreThreadsProperties -----------------------
(***************************************************************************)
(* What threads that share the store may rely on (db.h, "Thread safety").  *)
(***************************************************************************)
EXTENDS StoreThreads

\* A write takes effect when its record is in the segment, a get when it finds
\* its answer.
Answer(t) ==
    IF asked[t] = Nil THEN Nil
    ELSE IF mode[t] = "exclusive" /\ call = "write" /\ pc # "sync" THEN "done"
    ELSE IF asked[t].op = "get" /\ Decided(t) THEN Found(t)
    ELSE Nil

LM == INSTANCE LinearizableMap WITH
        store  <- Recoverable,
        answer <- [t \in Thread |-> Answer(t)]

\* Threads cannot tell the store from a map that does one call at a time: a get
\* that looks through the MemTable and file after file, while others wait to
\* flush, to swap the list and to delete files, answers with what the key had
\* at one moment, and later than every write that returned before it began.
Linearizable == LM!Spec

\* A call that changes the store is at work exactly while one thread holds mu_
\* exclusively, and then nobody else is inside: the lock is held to the last step
\* of a flush and a compaction, and an exception releases it.
LockInv ==
    /\ mode \in [Thread -> {"none", "shared", "exclusive"}]
    /\ \A t \in Thread : mode[t] = "exclusive" =>
          /\ call \in {"write", "flush", "compact"}
          /\ \A o \in Thread \ {t} : mode[o] = "none"
    /\ call \in {"write", "flush", "compact"} => \E t \in Thread : mode[t] = "exclusive"

\* stats() shows one moment: its fields, read one after the other, belong
\* together.
StatsOfOneMoment ==
    \A t \in Thread :
        (mode[t] = "shared" /\ asked[t].op = "stats") =>
            seen[t] = SubSeq(Stats, 1, Len(seen[t]))

\* Nothing a reader looks at moves while it is inside: a get keeps a pointer into
\* memtable_ and an iterator into sstables_, and opens the files by name.
NothingMovesUnderReaders ==
    [][(\E t \in Thread : mode[t] = "shared")
         => UNCHANGED <<memtable, sstables, sst_files>>]_allvars

\* Whoever got the lock leaves it: a call that flushes, compacts or throws
\* does not wait for a lock that it holds itself.
CallsLeave == \A t \in Thread : mode[t] # "none" ~> mode[t] = "none"

\* A call waits for ever only behind others that get the lock again and again.
WaitsOnlyForOthers ==
    \A t \in Thread :
        \/ []<>(~ Waits(t))
        \/ []<><<\E o \in Thread \ {t} : Lock(o)>>_allvars
=============================================================================
