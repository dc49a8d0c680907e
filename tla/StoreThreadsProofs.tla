------------------------- MODULE StoreThreadsProofs -------------------------
(***************************************************************************)
(* Proofs about the threads that share the store, for any number of them:  *)
(* each step of theirs is one of KVStore, the lock is held for as long as  *)
(* a call changes the store and no longer, nothing moves under a reader,   *)
(* stats() shows one moment, and threads cannot tell the store from a map  *)
(* that does one call at a time.                                           *)
(***************************************************************************)
EXTENDS StoreThreadsProperties, GracefulProofs

-----------------------------------------------------------------------------
(* The inductive invariant.                                                *)

Changing == {"write", "flush", "compact"}

AskedType == asked \in [Thread -> Request \cup {Nil}]

ModeType == mode \in [Thread -> {"none", "shared", "exclusive"}]

\* A thread that is inside is in a call.
InsideAsked == \A t \in Thread : mode[t] # "none" => asked[t] # Nil

\* Threads call an object that is there for as long as they need it.
ObjectThere ==
    \A t \in Thread : asked[t] # Nil => pc # "down" /\ call \notin {"open", "close"}

\* No call runs where none has begun or where the last has ended.
BetweenCalls == call = "none" <=> pc \in {"idle", "down"}

\* Who holds mu_ exclusively runs a call that changes the store, alone.
WriterInv ==
    \A t \in Thread : mode[t] = "exclusive" =>
        /\ call \in Changing
        /\ \A o \in Thread \ {t} : mode[o] = "none"

\* Such a call runs in a thread that holds it.
HolderInv == call \in Changing => \E t \in Thread : mode[t] = "exclusive"

ThreadsInv ==
    /\ AskedType /\ ModeType /\ InsideAsked /\ ObjectThere
    /\ BetweenCalls /\ WriterInv /\ HolderInv

-----------------------------------------------------------------------------
(* Every step of the threads is a step of KVStore or leaves it alone.      *)

LEMMA AskedStep == AskedType /\ [ThreadsNext]_allvars => AskedType'
<1> SUFFICES ASSUME AskedType, [ThreadsNext]_allvars
             PROVE  AskedType'
    OBVIOUS
<1>1. ASSUME NEW t \in Thread, Leaves(t) PROVE AskedType'
    BY <1>1 DEF AskedType, Leaves
<1>2. ASSUME NEW t \in Thread, Ask(t) PROVE AskedType'
    BY <1>2 DEF AskedType, Ask
<1>3. ASSUME NEW t \in Thread, Lock(t) PROVE AskedType'
    BY <1>1, <1>3 DEF AskedType, Lock, LockShared, LockExclusive
<1>4. ASSUME NEW t \in Thread, Inside(t) PROVE AskedType'
    BY <1>1, <1>4 DEF AskedType, Inside, Run, Look, Unlock, threads
<1>5. CASE Owner
    BY <1>5 DEF AskedType, Owner, threads
<1>6. CASE UNCHANGED allvars
    BY <1>6 DEF AskedType, allvars, threads
<1> QED
    BY <1>2, <1>3, <1>4, <1>5, <1>6 DEF ThreadsNext

LEMMA BeginsIsClient ==
    ASSUME NEW r \in Request, Begins(r)
    PROVE  Work
<1>1. CASE r.op = "write" /\ Write(r.key, r.entry)
    <2>1. r.key \in Key /\ r.entry \in Written
        BY <1>1 DEF Request
    <2> QED
        BY <1>1, <2>1 DEF Work, Client
<1> QED
    BY <1>1 DEF Begins, Work, Client

\* And no crash.
LEMMA ThreadsStepIsStoreStep ==
    AskedType /\ [ThreadsNext]_allvars => [Work]_vars
<1> SUFFICES ASSUME AskedType, [ThreadsNext]_allvars
             PROVE  [Work]_vars
    OBVIOUS
<1>1. ASSUME NEW t \in Thread, LockExclusive(t) PROVE [Work]_vars
    <2>1. asked[t] \in Request
        BY <1>1 DEF AskedType, LockExclusive, Waits
    <2>2. Begins(asked[t]) \/ UNCHANGED vars
        BY <1>1 DEF LockExclusive
    <2> QED
        BY <2>1, <2>2, BeginsIsClient
<1>2. ASSUME NEW t \in Thread, Run(t) PROVE [Work]_vars
    BY <1>2 DEF Run, Work
<1>3. ASSUME NEW t \in Thread, Ask(t) \/ LockShared(t) \/ Look(t) \/ Unlock(t)
      PROVE  UNCHANGED vars
    BY <1>3 DEF Ask, LockShared, Look, Unlock
<1>4. CASE Owner
    BY <1>4 DEF Owner, Work, Client
<1>5. CASE UNCHANGED allvars
    BY <1>5 DEF allvars
<1> QED
    BY <1>1, <1>2, <1>3, <1>4, <1>5 DEF ThreadsNext, Lock, Inside

LEMMA ThreadsImplementStore == ThreadsSpec => Spec
<1>1. ThreadsInit => Init /\ AskedType
    BY DEF ThreadsInit, AskedType
<1>2. [Work]_vars => [Next]_vars
    BY DEF Next
<1> QED
    BY <1>1, <1>2, AskedStep, ThreadsStepIsStoreStep, PTL DEF ThreadsSpec, Spec

LEMMA ThreadsTypes == ThreadsSpec => []TypeOK
BY ThreadsImplementStore, TypesCorrect, PTL

-----------------------------------------------------------------------------
(* How the steps of KVStore begin and end a call.                          *)

LEMMA StepFacts ==
    ASSUME TypeOK, BetweenCalls, Step
    PROVE  /\ call # "none"
           /\ pc' \in {"idle", "down"} => call' = "none"
           /\ pc' \notin {"idle", "down"} => call' = call
           /\ pc' = "down" => call \in {"open", "close"}
<1> USE DEF BetweenCalls
<1>1. CASE RemoveTmp \/ RemoveDone \/ LoadListed \/ LoadScanned \/ LoadFails
    BY <1>1 DEF RemoveTmp, RemoveDone, LoadListed, LoadScanned, LoadFails,
                Goto, Throw, UpdateManifest
<1>2. CASE RemoveOrphans \/ ReplayNext \/ OpenWal \/ OpenWalFails
    BY <1>2 DEF RemoveOrphans, ReplayNext, OpenWal, OpenWalFails, Goto, Throw, Return, Leave
<1>3. CASE WriteManifest \/ RenameManifest \/ RetryRename
    <2>1. ret \notin {"idle", "down"}
        BY DEF TypeOK, ThreadTypes
    <2> QED
        BY <1>3, <2>1 DEF WriteManifest, RenameManifest, RetryRename, CommitManifest,
                          Goto, Throw
<1>4. CASE SyncWal \/ ApplyWrite
    BY <1>4 DEF SyncWal, ApplyWrite, Goto, Return, Leave
<1>5. CASE FlushBuild \/ FlushWrite \/ SealWal \/ NextWal
    BY <1>5 DEF FlushBuild, BuildSst, FlushWrite, SealWal, NextWal, Goto, Throw, UpdateManifest
<1>6. CASE DropDone
    BY <1>6 DEF DropDone, Goto, Return, Halt, Leave
<1>7. CASE MergeNext \/ CompactBuild \/ CompactWrite \/ DropOld \/ CompactEnd
    BY <1>7 DEF MergeNext, CompactBuild, BuildSst, CompactWrite, DropOld, CompactEnd,
                Goto, Throw, UpdateManifest, Return, Leave
<1>8. CASE Unwind
    BY <1>8 DEF Unwind, Halt, Return, Leave
<1> QED
    BY <1>1, <1>2, <1>3, <1>4, <1>5, <1>6, <1>7, <1>8 DEF Step

LEMMA BeginsFacts ==
    ASSUME NEW r, Begins(r)
    PROVE  pc = "idle" /\ pc' \notin {"idle", "down"} /\ call' \in Changing
BY DEF Begins, Write, FlushMemtable, Compact, Changing

-----------------------------------------------------------------------------
(* The invariant holds.                                                    *)

LEMMA AskStep ==
    ASSUME ThreadsInv, NEW t \in Thread, Ask(t)
    PROVE  ThreadsInv'
<1>1. AskedType'
    BY AskedStep DEF ThreadsInv, ThreadsNext
<1> QED
    BY <1>1 DEF ThreadsInv, Ask, vars, AskedType, ModeType, InsideAsked, ObjectThere,
                BetweenCalls, WriterInv, HolderInv

LEMMA LockStep ==
    ASSUME ThreadsInv, NEW t \in Thread, Lock(t)
    PROVE  ThreadsInv'
<1> USE DEF ThreadsInv, AskedType, ModeType, InsideAsked, ObjectThere, BetweenCalls, WriterInv,
            HolderInv
<1>1. CASE LockShared(t)
    BY <1>1 DEF LockShared, Waits, vars
<1>2. CASE LockExclusive(t) /\ Begins(asked[t])
    <2>1. pc = "idle" /\ pc' \notin {"idle", "down"} /\ call' \in Changing
        BY <1>2, BeginsFacts
    <2>2. mode' = [mode EXCEPT ![t] = "exclusive"] /\ UNCHANGED asked
        BY <1>2, <2>1 DEF LockExclusive, NothingToDo, Leaves, vars
    <2> QED
        BY <1>2, <2>1, <2>2 DEF LockExclusive, Waits, Free, Changing
<1>3. CASE LockExclusive(t) /\ NothingToDo(asked[t]) /\ Leaves(t) /\ UNCHANGED vars
    BY <1>3 DEF LockExclusive, Leaves, Free, vars
<1> QED
    BY <1>1, <1>2, <1>3 DEF Lock, LockExclusive

LEMMA InsideStep ==
    ASSUME TypeOK, ThreadsInv, NEW t \in Thread, Inside(t)
    PROVE  ThreadsInv'
<1> USE DEF ThreadsInv, AskedType, ModeType, InsideAsked, ObjectThere, BetweenCalls, WriterInv,
            HolderInv
<1>1. CASE Run(t) /\ Over
    BY <1>1, StepFacts DEF Run, Over, Leaves, Changing
<1>2. CASE Run(t) /\ ~ Over
    BY <1>2, StepFacts DEF Run, Over, threads, Changing
<1>3. CASE Look(t)
    BY <1>3 DEF Look, vars
<1>4. CASE Unlock(t)
    BY <1>4 DEF Unlock, Decided, Leaves, vars
<1> QED
    BY <1>1, <1>2, <1>3, <1>4 DEF Inside

LEMMA OwnerStep ==
    ASSUME TypeOK, ThreadsInv, Owner
    PROVE  ThreadsInv'
<1> USE DEF ThreadsInv, AskedType, ModeType, InsideAsked, ObjectThere, BetweenCalls, WriterInv,
            HolderInv
<1>1. CASE Open
    BY <1>1 DEF Owner, Open, threads, Changing
<1>2. CASE Close /\ \A o \in Thread : asked[o] = Nil
    BY <1>2 DEF Owner, Close, Halt, Leave, threads, Changing
<1>3. CASE call \in {"open", "close"} /\ Step
    BY <1>3, StepFacts DEF Owner, threads, Changing
<1> QED
    BY <1>1, <1>2, <1>3 DEF Owner

LEMMA ThreadsStep == TypeOK /\ ThreadsInv /\ [ThreadsNext]_allvars => ThreadsInv'
<1>1. ThreadsInv /\ UNCHANGED allvars => ThreadsInv'
    BY DEF ThreadsInv, AskedType, ModeType, InsideAsked, ObjectThere, BetweenCalls, WriterInv,
           HolderInv, allvars, vars, threads
<1> QED
    BY <1>1, AskStep, LockStep, InsideStep, OwnerStep DEF ThreadsNext

LEMMA ThreadsInvInit == ThreadsInit => ThreadsInv
BY DEF ThreadsInit, Init, ThreadsInv, AskedType, ModeType, InsideAsked, ObjectThere,
       BetweenCalls, WriterInv, HolderInv, Changing

LEMMA ThreadsAlways == ThreadsSpec => []ThreadsInv
BY ThreadsInvInit, ThreadsStep, ThreadsTypes, PTL DEF ThreadsSpec

-----------------------------------------------------------------------------
(* What follows from it.                                                   *)

\* The lock is held exclusively exactly while a call changes the store, by one
\* thread and with nobody else inside.
THEOREM LockIsHeld == ThreadsSpec => []LockInv
<1>1. ThreadsInv => LockInv
    BY DEF ThreadsInv, ModeType, WriterInv, HolderInv, LockInv, Changing
<1> QED
    BY <1>1, ThreadsAlways, PTL

\* A step taken while a reader is inside leaves the whole store alone.
LEMMA ReaderStopsOthers ==
    ASSUME ThreadsInv, [ThreadsNext]_allvars,
           NEW r \in Thread, mode[r] = "shared"
    PROVE  UNCHANGED vars
<1> USE DEF ThreadsInv
<1>1. asked[r] # Nil /\ pc # "down" /\ call \notin {"open", "close"}
    BY DEF InsideAsked, ObjectThere
<1>2. ASSUME NEW t \in Thread, Lock(t) PROVE UNCHANGED vars
    BY <1>2 DEF Lock, LockShared, LockExclusive, Free
<1>3. ASSUME NEW t \in Thread, Run(t) PROVE FALSE
    BY <1>3 DEF Run, WriterInv
<1>4. ASSUME NEW t \in Thread, Ask(t) \/ Look(t) \/ Unlock(t) PROVE UNCHANGED vars
    BY <1>4 DEF Ask, Look, Unlock
<1>5. CASE Owner
    BY <1>1, <1>5 DEF Owner, Open
<1>6. CASE UNCHANGED allvars
    BY <1>6 DEF allvars
<1> QED
    BY <1>2, <1>3, <1>4, <1>5, <1>6 DEF ThreadsNext, Inside

\* Neither the MemTable nor the list of SSTables nor a file changes while some
\* thread reads.
THEOREM ReadersSeeNothingMove == ThreadsSpec => NothingMovesUnderReaders
<1>1. ThreadsInv /\ [ThreadsNext]_allvars =>
          [(\E t \in Thread : mode[t] = "shared")
             => UNCHANGED <<memtable, sstables, sst_files>>]_allvars
    BY ReaderStopsOthers DEF vars, files, object, tree, writer
<1> QED
    BY <1>1, ThreadsAlways, PTL DEF ThreadsSpec, NothingMovesUnderReaders

-----------------------------------------------------------------------------
(* stats().                                                                *)

\* What a call of stats() has read is the front of what it will answer.
StatsInv ==
    /\ seen = [t \in Thread |-> seen[t]]
    /\ \A t \in Thread : mode[t] # "shared" => seen[t] = <<>>
    /\ \A t \in Thread :
          mode[t] = "shared" /\ asked[t].op = "stats" =>
              \E n \in 0..Len(Stats) : seen[t] = SubSeq(Stats, 1, n)

LEMMA NextOfSubSeq ==
    ASSUME NEW S, NEW s \in Seq(S), NEW n \in 0..Len(s), n # Len(s)
    PROVE  /\ Len(SubSeq(s, 1, n)) = n
           /\ Append(SubSeq(s, 1, n), s[n + 1]) = SubSeq(s, 1, n + 1)
OBVIOUS

LEMMA FiveFields ==
    ASSUME NEW a, NEW b, NEW c, NEW d, NEW e
    PROVE  <<a, b, c, d, e>> \in Seq({a, b, c, d, e}) /\ Len(<<a, b, c, d, e>>) = 5
OBVIOUS

LEMMA StatsIsSeq ==
    Stats \in Seq({Cardinality({k \in Key : memtable[k] # NoEntry}), Bytes(memtable),
                   Len(sstables), current_wal_id, manifest_gen}) /\ Len(Stats) = 5
BY FiveFields, Zenon DEF Stats

\* A thread that reads has been reading its call, or begins now.
LEMMA ReaderMoves ==
    ASSUME ThreadsInv, seen = [t \in Thread |-> seen[t]], [ThreadsNext]_allvars,
           NEW r \in Thread, mode'[r] = "shared"
    PROVE  \/ /\ mode[r] = "shared"
              /\ asked'[r] = asked[r]
              /\ seen'[r] = seen[r] \/ Look(r)
           \/ LockShared(r)
<1> USE DEF ThreadsInv, AskedType, ModeType, InsideAsked
<1>2. ASSUME NEW t \in Thread, Ask(t)
      PROVE  mode[r] = "shared" /\ asked'[r] = asked[r] /\ seen'[r] = seen[r]
    BY <1>2 DEF Ask
<1>3. ASSUME NEW t \in Thread, LockExclusive(t)
      PROVE  FALSE
    BY <1>3 DEF LockExclusive, Free, Leaves
<1>4. ASSUME NEW t \in Thread, LockShared(t), t # r
      PROVE  mode[r] = "shared" /\ asked'[r] = asked[r] /\ seen'[r] = seen[r]
    BY <1>4 DEF LockShared
<1>5. ASSUME NEW t \in Thread, Run(t) \/ Unlock(t)
      PROVE  mode[r] = "shared" /\ asked'[r] = asked[r] /\ seen'[r] = seen[r]
    BY <1>5 DEF Run, Unlock, Leaves, threads
<1>6. ASSUME NEW t \in Thread, Look(t), t # r
      PROVE  mode[r] = "shared" /\ asked'[r] = asked[r] /\ seen'[r] = seen[r]
    BY <1>6 DEF Look
<1>7. CASE Look(r)
    BY <1>7 DEF Look
<1>8. CASE Owner \/ UNCHANGED allvars
    BY <1>8 DEF Owner, allvars, threads
<1> QED
    BY <1>2, <1>3, <1>4, <1>5, <1>6, <1>7, <1>8 DEF ThreadsNext, Lock, Inside

LEMMA StatsInit == ThreadsInit => StatsInv
BY DEF ThreadsInit, StatsInv

LEMMA StatsStep == ThreadsInv /\ StatsInv /\ [ThreadsNext]_allvars => StatsInv'
<1> SUFFICES ASSUME ThreadsInv, StatsInv, [ThreadsNext]_allvars
             PROVE  StatsInv'
    OBVIOUS
<1>1. /\ seen' = [t \in Thread |-> seen'[t]]
      /\ \A t \in Thread : mode'[t] # "shared" => seen'[t] = <<>>
    <2> USE DEF StatsInv, ThreadsInv, ModeType
    <2>1. ASSUME NEW t \in Thread, Leaves(t)
          PROVE  /\ seen' = [o \in Thread |-> seen'[o]]
                 /\ \A o \in Thread : mode'[o] # "shared" => seen'[o] = <<>>
        BY <2>1 DEF Leaves
    <2>2. ASSUME NEW t \in Thread, Ask(t) \/ Look(t)
          PROVE  /\ seen' = [o \in Thread |-> seen'[o]]
                 /\ \A o \in Thread : mode'[o] # "shared" => seen'[o] = <<>>
        BY <2>2 DEF Ask, Look
    <2>3. ASSUME NEW t \in Thread, Lock(t)
          PROVE  /\ seen' = [o \in Thread |-> seen'[o]]
                 /\ \A o \in Thread : mode'[o] # "shared" => seen'[o] = <<>>
        BY <2>1, <2>3 DEF Lock, LockShared, LockExclusive, Free
    <2>4. ASSUME NEW t \in Thread, Run(t) \/ Unlock(t)
          PROVE  /\ seen' = [o \in Thread |-> seen'[o]]
                 /\ \A o \in Thread : mode'[o] # "shared" => seen'[o] = <<>>
        BY <2>1, <2>4 DEF Run, Unlock, threads
    <2>5. CASE Owner \/ UNCHANGED allvars
        BY <2>5 DEF Owner, allvars, threads
    <2> QED
        BY <2>2, <2>3, <2>4, <2>5 DEF ThreadsNext, Inside
<1>2. ASSUME NEW r \in Thread, mode'[r] = "shared", asked'[r].op = "stats"
      PROVE  \E n \in 0..Len(Stats') : seen'[r] = SubSeq(Stats', 1, n)
    <2>1. CASE mode[r] = "shared" /\ asked'[r] = asked[r]
        <3>1. Stats' = Stats
            BY <2>1, ReaderStopsOthers
            DEF Stats, Bytes, vars, files, object, tree, writer
        <3>2. PICK n \in 0..Len(Stats) : seen[r] = SubSeq(Stats, 1, n)
            BY <1>2, <2>1 DEF StatsInv
        <3>3. CASE seen'[r] = seen[r]
            BY <3>1, <3>2, <3>3
        <3>4. CASE Look(r)
            <4>1. Len(seen[r]) = n
                BY <3>2, StatsIsSeq
            <4>2. n # Len(Stats)
                BY <1>2, <2>1, <3>4, <4>1 DEF Look, Decided
            <4>3. seen'[r] = Append(seen[r], Stats[n + 1])
                BY <1>2, <2>1, <3>4, <4>1 DEF Look, Shown, StatsInv
            <4>4. seen'[r] = SubSeq(Stats, 1, n + 1)
                BY <3>2, <4>2, <4>3, NextOfSubSeq, StatsIsSeq
            <4>5. n + 1 \in 0..Len(Stats)
                BY <4>2, StatsIsSeq
            <4> QED
                BY <3>1, <4>4, <4>5
        <3>5. seen'[r] = seen[r] \/ Look(r)
            BY <1>2, <2>1, ReaderMoves DEF StatsInv, LockShared, Waits
        <3> QED
            BY <3>3, <3>4, <3>5
    <2>2. CASE LockShared(r)
        <3>1. seen'[r] = <<>> /\ Stats' = Stats
            BY <2>2 DEF LockShared, Waits, StatsInv, Stats, Bytes, vars, files, object,
                        tree, writer
        <3>2. Len(Stats) = 5 /\ SubSeq(Stats, 1, 0) = <<>>
            BY StatsIsSeq
        <3> QED
            BY <3>1, <3>2
    <2> QED
        BY <1>2, <2>1, <2>2, ReaderMoves DEF StatsInv
<1> QED
    BY <1>1, <1>2 DEF StatsInv

\* The fields that stats() returns are those of one moment.
THEOREM StatsAreOfOneMoment == ThreadsSpec => []StatsOfOneMoment
<1>1. StatsInv => StatsOfOneMoment
    <2>1. \A n \in 0..Len(Stats) : Len(SubSeq(Stats, 1, n)) = n
        BY StatsIsSeq
    <2> QED
        BY <2>1 DEF StatsInv, StatsOfOneMoment
<1> QED
    BY <1>1, StatsInit, StatsStep, ThreadsAlways, PTL DEF ThreadsSpec

-----------------------------------------------------------------------------
(* One map.  A write takes effect with the step that logs its record, a    *)
(* get with the lookup that decides it.  DurabilityProofs has what each    *)
(* step does to the data, GracefulProofs that the segments stay clean.     *)

(* The calls of the threads.                                               *)

\* The thread that holds mu_ exclusively runs the call it asked for, and a write
\* is on its way with the key and the entry it was given.
CallerInv ==
    \A t \in Thread : mode[t] = "exclusive" =>
        /\ asked[t].op = call
        /\ pc \in {"sync", "apply"} =>
              /\ call = "write"
              /\ rec = [key |-> asked[t].key, entry |-> asked[t].entry]

\* No write is on its way but in a thread.
SyncInv == pc \in {"sync", "apply"} => call = "write"

\* A get has looked at the first layers, and only the last of them can know the
\* key.
GetInv ==
    \A t \in Thread :
        mode[t] = "shared" /\ asked[t].op = "get" =>
            \E n \in 0..(Len(sstables) + 1) :
                /\ seen[t] = [i \in 1..n |-> Layer(i - 1, asked[t].key)]
                /\ \A i \in 1..(n - 1) : Layer(i - 1, asked[t].key) = NoEntry

-----------------------------------------------------------------------------
(* What a step of the threads is to the store.                             *)

\* An exception in the destructor ends the process, and is no step of the threads.
LEMMA ClosesStep ==
    ASSUME TypeOK, ThreadsInv, ClosesInv, [ThreadsNext]_allvars
    PROVE  ClosesInv'
<1> USE DEF ClosesInv, object, writer
<1>0. BetweenCalls /\ AskedType
    BY DEF ThreadsInv
<1>1. ASSUME NEW t \in Thread, LockExclusive(t) PROVE ClosesInv'
    BY <1>1, BeginsFacts DEF LockExclusive, vars, Changing
<1>2. ASSUME NEW t \in Thread, Run(t) PROVE ClosesInv'
    <2>1. call \in Changing /\ Step
        BY <1>2 DEF Run, ThreadsInv, WriterInv
    <2> QED
        BY <1>0, <2>1, StepFacts DEF Changing
<1>3. ASSUME NEW t \in Thread, Ask(t) \/ LockShared(t) \/ Look(t) \/ Unlock(t)
      PROVE  ClosesInv'
    BY <1>3 DEF Ask, LockShared, Look, Unlock, vars
<1>4. CASE Owner
    <2>1. CASE Open
        BY <2>1 DEF Open
    <2>2. CASE Close
        BY <2>2 DEF Close, Halt
    <2>3. CASE call \in {"open", "close"} /\ Step /\ ~ Terminates
        BY <1>0, <2>3, StepFacts DEF Terminates
    <2> QED
        BY <1>4, <2>1, <2>2, <2>3 DEF Owner
<1>5. CASE UNCHANGED allvars
    BY <1>5 DEF allvars, vars
<1> QED
    BY <1>1, <1>2, <1>3, <1>4, <1>5 DEF ThreadsNext, Lock, Inside

\* Where a write is on its way, and how it gets there.
LEMMA SyncFacts ==
    ASSUME TypeOK, LocalsInv, SyncInv, Step
    PROVE  /\ pc = "sync" => SyncWal
           /\ pc' = "apply" => SyncWal
           /\ pc' # "sync"
           /\ SyncInv'
<1> USE DEF SyncInv
<1>1. CASE SyncWal
    BY <1>1 DEF SyncWal, Goto
<1>2. CASE ~ SyncWal
    <2>1. pc # "sync" /\ pc' \notin {"sync", "apply"}
        BY <1>2
        DEF Step, LocalsInv, Updating, TypeOK, ThreadTypes, RemoveTmp, RemoveDone,
            LoadListed, LoadScanned, LoadFails, RemoveOrphans, ReplayNext, OpenWal, OpenWalFails,
            WriteManifest, RenameManifest, RetryRename, CommitManifest, ApplyWrite, FlushBuild,
            FlushWrite, SealWal, NextWal, DropDone, MergeNext, CompactBuild,
            CompactWrite, DropOld, CompactEnd, Unwind, BuildSst, UpdateManifest,
            Goto, Throw, Return, Halt
    <2> QED
        BY <1>2, <2>1
<1> QED
    BY <1>1, <1>2

LEMMA SyncStep ==
    ASSUME TypeOK, LocalsInv, SyncInv, [Next]_vars
    PROVE  SyncInv'
<1>1. CASE Open \/ FlushMemtable \/ Compact \/ Close \/ Crash
    BY <1>1 DEF SyncInv, Open, FlushMemtable, Compact, Close, Crash, Halt
<1>2. CASE \E k \in Key, e \in Written : Write(k, e)
    BY <1>2 DEF SyncInv, Write
<1>3. CASE Step
    BY <1>3, SyncFacts
<1>4. CASE UNCHANGED vars
    BY <1>4 DEF SyncInv, vars
<1> QED
    BY <1>1, <1>2, <1>3, <1>4 DEF Next, Work, Client

\* A thread that holds the lock after a step held it before or has just begun.
LEMMA HolderMoves ==
    ASSUME TypeOK, ThreadsInv, [ThreadsNext]_allvars, NEW t \in Thread, mode'[t] = "exclusive"
    PROVE  /\ asked'[t] = asked[t]
           /\ \/ LockExclusive(t) /\ Begins(asked[t])
              \/ mode[t] = "exclusive" /\ Run(t) /\ ~ Over
              \/ mode[t] = "exclusive" /\ UNCHANGED vars
<1> USE DEF ThreadsInv, AskedType, ModeType, InsideAsked
<1>1. ASSUME NEW o \in Thread, LockExclusive(o)
      PROVE  o = t /\ Begins(asked[t]) /\ asked'[t] = asked[t]
    BY <1>1 DEF LockExclusive, Free, Leaves
<1>2. ASSUME NEW o \in Thread, Run(o)
      PROVE  o = t /\ ~ Over /\ UNCHANGED threads
    BY <1>2 DEF Run, Leaves, threads, WriterInv
<1>3. ASSUME NEW o \in Thread, Ask(o) \/ LockShared(o) \/ Look(o) \/ Unlock(o)
      PROVE  mode[t] = "exclusive" /\ UNCHANGED vars /\ asked'[t] = asked[t]
    BY <1>3 DEF Ask, LockShared, Look, Unlock, Leaves
<1>4. CASE Owner
    <2>1. mode[t] = "exclusive"
        BY <1>4 DEF Owner, threads
    <2>2. asked[t] # Nil /\ pc # "down" /\ call \notin {"open", "close"}
        BY <2>1 DEF ObjectThere
    <2> QED
        BY <1>4, <2>2 DEF Owner, Open
<1>5. CASE UNCHANGED allvars
    BY <1>5 DEF allvars, threads
<1> QED
    BY <1>1, <1>2, <1>3, <1>4, <1>5 DEF ThreadsNext, Lock, Inside, threads, Run

LEMMA CallerStep ==
    ASSUME TypeOK, LocalsInv, SyncInv, ThreadsInv, CallerInv, [ThreadsNext]_allvars
    PROVE  CallerInv'
<1> SUFFICES ASSUME NEW t \in Thread, mode'[t] = "exclusive"
             PROVE  /\ asked'[t].op = call'
                    /\ pc' \in {"sync", "apply"} =>
                          /\ call' = "write"
                          /\ rec' = [key |-> asked'[t].key, entry |-> asked'[t].entry]
    BY DEF CallerInv
<1>0. asked'[t] = asked[t]
    BY HolderMoves
<1>1. CASE LockExclusive(t) /\ Begins(asked[t])
    BY <1>0, <1>1 DEF Begins, Write, FlushMemtable, Compact
<1>2. CASE mode[t] = "exclusive" /\ Run(t) /\ ~ Over
    <2>1. Step /\ pc' # "idle" /\ BetweenCalls /\ call \in Changing
        BY <1>2 DEF Run, Over, ThreadsInv, WriterInv
    <2>2. call' = call
        BY <2>1, StepFacts DEF Changing
    <2>3. pc' \in {"sync", "apply"} => SyncWal
        BY <2>1, SyncFacts
    <2>4. SyncWal => pc = "sync" /\ UNCHANGED rec
        BY DEF SyncWal, locals
    <2> QED
        BY <1>0, <1>2, <2>2, <2>3, <2>4 DEF CallerInv
<1>3. CASE mode[t] = "exclusive" /\ UNCHANGED vars
    BY <1>0, <1>3 DEF CallerInv, vars, locals
<1> QED
    BY <1>1, <1>2, <1>3, HolderMoves

-----------------------------------------------------------------------------
(* A get.                                                                  *)

\* A look at one more layer keeps it true, and nobody moves the layers.
LEMMA GetInvStep ==
    ASSUME TypeOK, ThreadsInv, StatsInv, GetInv, [ThreadsNext]_allvars, Faults \subseteq Benign
    PROVE  GetInv'
<1> SUFFICES ASSUME NEW t \in Thread, mode'[t] = "shared", asked'[t].op = "get"
             PROVE  \E n \in 0..(Len(sstables') + 1) :
                        /\ seen'[t] = [i \in 1..n |-> Layer(i - 1, asked[t].key)']
                        /\ \A i \in 1..(n - 1) : Layer(i - 1, asked[t].key)' = NoEntry
    BY DEF GetInv
<1>0. Len(sstables) \in Nat
    BY DEF TypeOK, ObjectTypes
<1>1. CASE mode[t] = "shared" /\ asked'[t] = asked[t]
    <2> DEFINE k == asked[t].key
    <2>0. /\ \A i : Layer(i, asked[t].key)' = Layer(i, k)
          /\ sstables' = sstables
        <3>1. UNCHANGED vars
            BY <1>1, ReaderStopsOthers
        <3> QED
            BY <1>1, <3>1 DEF Layer, Content, vars, files, object, tree, writer
    <2>1. PICK n \in 0..(Len(sstables) + 1) :
              /\ seen[t] = [i \in 1..n |-> Layer(i - 1, k)]
              /\ \A i \in 1..(n - 1) : Layer(i - 1, k) = NoEntry
        BY <1>1 DEF GetInv
    <2> HIDE DEF k
    <2>2. CASE seen'[t] = seen[t]
        BY <2>0, <2>1, <2>2
    <2>3. CASE Look(t)
        <3>1. Len(seen[t]) = n
            BY <2>1
        <3>2. n <= Len(sstables) /\ (n > 0 => Layer(n - 1, k) = NoEntry)
            <4>1. ~ Hit(t) /\ ~ (n > Len(sstables))
                BY <1>1, <2>3, <3>1 DEF Look, Decided
            <4>2. n > 0 => seen[t] # <<>> /\ seen[t][n] = Layer(n - 1, k)
                BY <2>1
            <4> QED
                BY <1>0, <3>1, <4>1, <4>2 DEF Hit
        <3>3. seen'[t] = Append(seen[t], Layer(n, k))
            BY <1>1, <2>3, <3>1 DEF Look, Shown, Benign, StatsInv, k
        <3>4. seen'[t] = [i \in 1..(n + 1) |-> Layer(i - 1, k)]
            BY <2>1, <3>3
        <3>5. \A i \in 1..n : Layer(i - 1, k) = NoEntry
            BY <2>1, <3>2
        <3> QED
            BY <1>0, <2>0, <3>2, <3>4, <3>5
    <2> QED
        BY <1>1, <2>2, <2>3, ReaderMoves DEF StatsInv, LockShared, Waits
<1>2. CASE LockShared(t)
    <2>1. seen'[t] = <<>>
        BY <1>2 DEF LockShared, Waits, StatsInv
    <2>2. Len(sstables') \in Nat
        BY <1>0, <1>2 DEF LockShared, vars, object, tree
    <2> QED
        BY <2>1, <2>2
<1> QED
    BY <1>1, <1>2, ReaderMoves DEF StatsInv

\* While a reader is inside no call is at work.
LEMMA ReaderMeetsNoCall ==
    ASSUME TypeOK, ThreadsInv, NEW t \in Thread, mode[t] = "shared"
    PROVE  pc = "idle" /\ call = "none"
<1> USE DEF ThreadsInv
<1>1. asked[t] # Nil /\ pc # "down" /\ call \notin {"open", "close"}
    BY DEF InsideAsked, ObjectThere
<1>2. call \notin Changing
    BY DEF HolderInv, WriterInv
<1> QED
    BY <1>1, <1>2 DEF BetweenCalls, TypeOK, ThreadTypes, Calls, Changing

\* A get that has found its answer has found what a restart would.
AnsweredInv ==
    \A t \in Thread :
        Decided(t) /\ asked[t].op = "get" =>
            Found(t) = Recoverable[asked[t].key] /\ Found(t) # Nil

LEMMA DecidedIsRecoverable ==
    TypeOK /\ ThreadsInv /\ GetInv /\ Clean /\ ServedInv => AnsweredInv
<1> SUFFICES ASSUME TypeOK, ThreadsInv, GetInv, Clean, ServedInv,
                    NEW t \in Thread, Decided(t), asked[t].op = "get"
             PROVE  Found(t) = Recoverable[asked[t].key] /\ Found(t) # Nil
    BY DEF AnsweredInv
<1> DEFINE k == asked[t].key
           length == Len(sstables)
<1>1. mode[t] = "shared" /\ asked[t] # Nil
    BY DEF Decided, ThreadsInv, InsideAsked
<1>2. k \in Key
    BY <1>1 DEF ThreadsInv, AskedType, Request
<1>3. length \in Nat /\ memtable \in Table
    BY DEF TypeOK, ObjectTypes
<1>4. PICK n \in 0..(length + 1) :
          /\ seen[t] = [i \in 1..n |-> Layer(i - 1, k)]
          /\ \A i \in 1..(n - 1) : Layer(i - 1, k) = NoEntry
    BY <1>1 DEF GetInv
<1> HIDE DEF k, length
<1>5. Len(seen[t]) = n
    BY <1>4
<1>6. n > 0 /\ (Layer(n - 1, k) # NoEntry \/ n > length)
    <2>1. Hit(t) \/ n > length
        BY <1>5 DEF Decided, length
    <2>2. Hit(t) => n > 0 /\ Layer(n - 1, k) # NoEntry
        BY <1>4, <1>5 DEF Hit
    <2> QED
        BY <1>3, <2>1, <2>2
<1>7. Found(t) = Visible(Layer(n - 1, k))
    BY <1>4, <1>5, <1>6 DEF Found
<1>8. Get(k) = Visible(Layer(n - 1, k)) /\ Layer(n - 1, k) \in Entry
    <2>1. CASE n = 1
        <3>1. Layer(n - 1, k) = memtable[k]
            BY <2>1 DEF Layer
        <3>2. memtable[k] = NoEntry => Lookup(sst_files, sstables, k) = NoEntry
            <4>1. memtable[k] = NoEntry => length = 0
                BY <1>3, <1>6, <2>1, <3>1
            <4> QED
                BY <4>1, LookupMisses DEF Lookup, length
        <3> QED
            BY <1>2, <1>3, <3>1, <3>2 DEF Get, Table
    <2>2. CASE n > 1
        <3>1. n - 1 \in 1..length /\ Layer(0, k) = NoEntry
            <4>1. n - 1 \in 1..length /\ 1 \in 1..(n - 1) /\ 1 - 1 = 0
                BY <1>3, <2>2
            <4> QED
                BY <1>4, <4>1
        <3>2. \A j \in 1..length : Layer(j, k) = Content(sst_files, sstables[j])[k]
            BY <1>3 DEF Layer
        <3>3. \A j \in 1..(n - 2) : ~ Knows(sst_files, sstables, k, j)
            <4>1. ASSUME NEW j \in 1..(n - 2) PROVE Layer(j, k) = NoEntry
                <5>1. j + 1 \in 1..(n - 1) /\ (j + 1) - 1 = j
                    BY <2>2
                <5> QED
                    BY <1>4, <5>1
            <4> QED
                BY <1>3, <3>1, <3>2, <4>1 DEF Knows
        <3>4. Lookup(sst_files, sstables, k) = Layer(n - 1, k)
            <4>1. CASE Layer(n - 1, k) # NoEntry
                <5>1. IsFirstHit(sst_files, sstables, length, k, n - 1)
                    BY <3>1, <3>2, <3>3, <4>1 DEF IsFirstHit, Knows
                <5> QED
                    BY <1>3, <3>1, <3>2, <5>1, LookupAt DEF Lookup, length
            <4>2. CASE Layer(n - 1, k) = NoEntry
                <5>1. \A j \in 1..length : ~ Knows(sst_files, sstables, k, j)
                    BY <1>3, <1>6, <3>1, <3>2, <3>3, <4>2 DEF Knows
                <5> QED
                    BY <1>3, <4>2, <5>1, LookupMisses DEF Lookup, length
            <4> QED
                BY <4>1, <4>2
        <3>5. memtable[k] = NoEntry
            BY <3>1 DEF Layer
        <3>6. Layer(n - 1, k) \in Entry
            <4>1. Content(sst_files, sstables[n - 1]) \in Table
                BY DEF Content, TypeOK, DiskTypes, EmptyTable, Table, Entry
            <4> QED
                BY <1>2, <3>1, <3>2, <4>1 DEF Table
        <3> QED
            BY <3>4, <3>5, <3>6 DEF Get
    <2> QED
        BY <1>6, <2>1, <2>2
<1>9. Get(k) = Recoverable[k]
    BY <1>1, <1>2, ReaderMeetsNoCall DEF ServedInv, Serving
<1>10. Visible(Layer(n - 1, k)) # Nil
    BY <1>8, CallerAssumption DEF Visible, Entry, Written
<1> QED
    BY <1>7, <1>8, <1>9, <1>10 DEF k

-----------------------------------------------------------------------------
(* What the steps do to the map.                                           *)

\* No step changes what a restart would find but the one that logs a record, ...
LEMMA QuietStep ==
    ASSUME Inv, TablesInv, LogsInv, ServedInv, ServedInv', Clean, Clean', [Next]_vars,
           Faults \subseteq Tolerated, pc # "sync", pc' # "apply"
    PROVE  Recoverable' = Recoverable
<1>1. [DM!Next]_(DM!vars)
    BY DurableStep
<1>2. rec # Nil => pc = "apply"
    BY DEF TablesInv, CallInv
<1> QED
    BY <1>1, <1>2 DEF DM!Next, DM!vars, DM!Begin, DM!Land, DM!Return, DM!Crash

\* ... which changes it as a write changes the map.
LEMMA SyncedStep ==
    ASSUME Inv, TablesInv, LogsInv, ServedInv, ServedInv', Clean, Clean', SyncWal,
           Faults \subseteq Tolerated
    PROVE  Recoverable' = DM!With(rec)
<1>1. [DM!Next]_(DM!vars)
    BY DurableStep DEF Next, Work, Step
<1>2. /\ pc = "sync" /\ pc' = "apply" /\ UNCHANGED rec /\ rec # Nil
    BY DEF SyncWal, Goto, locals, Inv, FilesInv, LocalsInv
<1> QED
    BY <1>1, <1>2 DEF DM!Next, DM!vars, DM!Begin, DM!Land, DM!Return, DM!Crash

LEMMA SameStore == UNCHANGED vars => Recoverable' = Recoverable
<1> SUFFICES ASSUME UNCHANGED vars, NEW k \in Key
             PROVE  Recoverable[k]' = Recoverable[k]
    BY DEF Recoverable
<1> QED
    BY DEF vars, files, meta, logs, Recoverable, Replayed, Committed, Visible

-----------------------------------------------------------------------------
(* What they are to the threads.                                           *)

\* Who is not inside has no answer yet, ...
LEMMA OutsideAnswer ==
    ASSUME NEW t \in Thread
    PROVE  /\ mode[t] = "none" => Answer(t) = Nil
           /\ mode'[t] = "none" => Answer(t)' = Nil
BY DEF Answer, Decided

\* ... and who does nothing while nothing moves keeps the one it has.
LEMMA SameAnswer ==
    ASSUME NEW t \in Thread, UNCHANGED vars, asked'[t] = asked[t], mode'[t] = mode[t],
           seen'[t] = seen[t]
    PROVE  Answer(t)' = Answer(t)
BY DEF Answer, Decided, Hit, Stats, Found, vars, object, tree

\* What each thread does to its variables, the others keep theirs.
LEMMA OthersKeep ==
    ASSUME ThreadsInv, StatsInv, NEW t \in Thread, NEW o \in Thread, o # t,
           Ask(t) \/ LockShared(t) \/ Look(t) \/ Leaves(t)
    PROVE  asked'[o] = asked[o] /\ mode'[o] = mode[o] /\ seen'[o] = seen[o]
BY DEF ThreadsInv, AskedType, ModeType, StatsInv, Ask, LockShared, Look, Leaves

\* A call begins.
LEMMA AskRefines ==
    ASSUME ThreadsInv, StatsInv, NEW t \in Thread, Ask(t)
    PROVE  LM!Begin(t)
<1>1. Recoverable' = Recoverable
    BY SameStore DEF Ask
<1>2. mode[t] = "none" /\ mode' = mode
    BY DEF Ask, ThreadsInv, InsideAsked, ModeType
<1>3. \A o \in Thread : Answer(o)' = Answer(o)
    BY <1>2, OutsideAnswer, SameAnswer, OthersKeep DEF Ask
<1> QED
    BY <1>1, <1>3 DEF Ask, LM!Begin

\* A call that leaves has had its effect.
LEMMA LeavesRefines ==
    ASSUME ThreadsInv, StatsInv, NEW t \in Thread, Leaves(t), asked[t] # Nil,
           asked[t].op \in {"get", "write"} => Answer(t) # Nil,
           Recoverable' = Recoverable,
           \A o \in Thread \ {t} : Answer(o)' = Answer(o)
    PROVE  LM!End(t)
<1>1. asked' = [asked EXCEPT ![t] = Nil]
    BY DEF Leaves
<1>2. Answer(t)' = Nil
    BY <1>1 DEF Answer, ThreadsInv, AskedType
<1>3. \A o \in Thread : Answer(o)' = IF o = t THEN Nil ELSE Answer(o)
    BY <1>2
<1>4. [o \in Thread |-> Answer(o)]' = [[o \in Thread |-> Answer(o)] EXCEPT ![t] = Nil]
    BY <1>3
<1> QED
    BY <1>1, <1>4 DEF LM!End

\* The lock is granted; flush and compact may find nothing to do.
LEMMA LockRefines ==
    ASSUME TypeOK, ThreadsInv, StatsInv, NEW t \in Thread, Lock(t)
    PROVE  LM!End(t) \/ UNCHANGED LM!vars
<1>0. asked[t] # Nil /\ mode[t] = "none" /\ Answer(t) = Nil
    BY OutsideAnswer DEF Lock, LockShared, LockExclusive, Waits
<1>1. CASE LockShared(t)
    <2>1. UNCHANGED <<asked, vars>> /\ seen'[t] = <<>> /\ Len(sstables) \in Nat
        BY <1>1 DEF LockShared, Waits, StatsInv, TypeOK, ObjectTypes
    <2>2. mode'[t] = "shared"
        BY <1>1 DEF LockShared, ThreadsInv, ModeType
    <2>3. Answer(t)' = Nil
        BY <2>1, <2>2 DEF Answer, Decided, Hit, vars, object, tree
    <2>4. \A o \in Thread : Answer(o)' = Answer(o)
        BY <1>0, <1>1, <2>1, <2>3, SameAnswer, OthersKeep
    <2> QED
        BY <2>1, <2>4, SameStore DEF LM!vars
<1>2. CASE LockExclusive(t) /\ Begins(asked[t])
    <2>1. /\ UNCHANGED <<files, asked>> /\ mode' = [mode EXCEPT ![t] = "exclusive"]
          /\ call' = "write" => pc' = "sync"
        <3>1. pc' \notin {"idle", "down"} /\ pc = "idle"
            BY <1>2, BeginsFacts
        <3>2. UNCHANGED files /\ (call' = "write" => pc' = "sync")
            BY <1>2 DEF Begins, Write, FlushMemtable, Compact
        <3> QED
            BY <1>2, <3>1, <3>2 DEF LockExclusive, vars
    <2>2. mode'[t] = "exclusive" /\ asked[t].op # "get"
        BY <1>2, <2>1 DEF LockExclusive, Shared, ThreadsInv, ModeType
    <2>3. Answer(t)' = Nil
        BY <2>1, <2>2 DEF Answer
    <2>4. \A o \in Thread : mode[o] = "none" /\ (o # t => mode'[o] = "none")
        BY <1>2, <2>1 DEF LockExclusive, Free, ThreadsInv, ModeType
    <2>5. \A o \in Thread : Answer(o)' = Answer(o)
        BY <1>0, <2>3, <2>4, OutsideAnswer
    <2>6. Recoverable' = Recoverable
        BY <2>1 DEF files, meta, logs, Recoverable, Replayed, Committed, Visible
    <2> QED
        BY <2>1, <2>5, <2>6 DEF LM!vars
<1>3. CASE LockExclusive(t) /\ NothingToDo(asked[t]) /\ Leaves(t) /\ UNCHANGED vars
    <2>1. asked[t].op \notin {"get", "write"}
        BY <1>3 DEF NothingToDo
    <2>2. \A o \in Thread \ {t} : Answer(o)' = Answer(o)
        BY <1>3, SameAnswer, OthersKeep
    <2> QED
        BY <1>0, <1>3, <2>1, <2>2, SameStore, LeavesRefines
<1> QED
    BY <1>1, <1>2, <1>3 DEF Lock, LockExclusive

\* What holds of the store and of its callers together.
Everything ==
    /\ Inv /\ TablesInv /\ LogsInv /\ Clean /\ ServedInv
    /\ ThreadsInv /\ StatsInv /\ SyncInv /\ CallerInv /\ GetInv /\ AnsweredInv

LEMMA QuietRefines ==
    ASSUME Everything, Everything', [ThreadsNext]_allvars, Faults \subseteq Tolerated,
           pc # "sync", pc' # "apply"
    PROVE  Recoverable' = Recoverable
<1>1. [Next]_vars
    BY ThreadsStepIsStoreStep DEF Everything, ThreadsInv, Next
<1> QED
    BY <1>1, QuietStep DEF Everything

\* A write takes effect where its record is logged.
LEMMA SyncRefines ==
    ASSUME Everything, Everything', NEW t \in Thread, Run(t), SyncWal,
           Faults \subseteq Tolerated
    PROVE  LM!TakeEffect(t)
<1>1. /\ mode[t] = "exclusive" /\ asked[t].op = "write" /\ call = "write" /\ pc = "sync"
      /\ rec = [key |-> asked[t].key, entry |-> asked[t].entry]
    BY DEF Run, SyncWal, Everything, CallerInv
<1>2. UNCHANGED <<threads, call>> /\ pc' = "apply"
    BY DEF Run, Over, SyncWal, Goto
<1>3. asked[t] # Nil
    BY <1>1 DEF Everything, ThreadsInv, InsideAsked
<1>4. Answer(t) = Nil /\ Answer(t)' = "done"
    BY <1>1, <1>2, <1>3 DEF Answer, threads
<1>5. \A o \in Thread : o # t => mode[o] = "none" /\ mode'[o] = "none"
    BY <1>1, <1>2 DEF Everything, ThreadsInv, WriterInv, threads
<1>6. \A o \in Thread : Answer(o)' = IF o = t THEN "done" ELSE Answer(o)
    BY <1>4, <1>5, OutsideAnswer
<1>7. [o \in Thread |-> Answer(o)]' = [[o \in Thread |-> Answer(o)] EXCEPT ![t] = "done"]
    BY <1>6
<1>8. Recoverable' = DM!With(rec)
    BY SyncedStep DEF Everything
<1>9. Recoverable' = LM!With(asked[t])
    BY <1>1, <1>8 DEF DM!With, LM!With
<1> QED
    BY <1>1, <1>2, <1>3, <1>4, <1>7, <1>9 DEF LM!TakeEffect, threads

\* The other steps of a writer have no effect.
LEMMA RunRefines ==
    ASSUME Everything, Everything', NEW t \in Thread, Run(t), Faults \subseteq Tolerated
    PROVE  LM!TakeEffect(t) \/ LM!End(t) \/ UNCHANGED LM!vars
<1>0. /\ mode[t] = "exclusive" /\ Step /\ call \in Changing /\ asked[t].op = call
      /\ asked[t] # Nil
      /\ TypeOK /\ LocalsInv /\ SyncInv /\ BetweenCalls
    BY DEF Run, Everything, Inv, FilesInv, ThreadsInv, WriterInv, CallerInv, InsideAsked
<1>1. CASE SyncWal
    BY <1>1, SyncRefines
<1>2. CASE ~ SyncWal
    <2>1. pc # "sync" /\ pc' \notin {"sync", "apply"}
        BY <1>0, <1>2, SyncFacts
    <2>2. Recoverable' = Recoverable
        BY <2>1, QuietRefines DEF ThreadsNext, Inside
    <2>3. \A o \in Thread \ {t} : mode[o] = "none"
        BY <1>0 DEF Everything, ThreadsInv, WriterInv
    <2>4. CASE Over
        <3>1. Leaves(t)
            BY <2>4 DEF Run
        <3>2. \A o \in Thread \ {t} : mode'[o] = "none"
            BY <2>3, <3>1 DEF Leaves, Everything, ThreadsInv, ModeType
        <3>3. \A o \in Thread \ {t} : Answer(o)' = Answer(o)
            BY <2>3, <3>2, OutsideAnswer
        <3>4. asked[t].op \in {"get", "write"} => Answer(t) # Nil
            BY <1>0, <2>1, CallerAssumption DEF Answer, Changing
        <3> QED
            BY <1>0, <2>2, <3>1, <3>3, <3>4, LeavesRefines DEF Everything
    <2>5. CASE ~ Over
        <3>1. UNCHANGED threads /\ call' = call
            BY <1>0, <2>5, StepFacts DEF Run, Over, Changing
        <3>2. \A o \in Thread \ {t} : Answer(o)' = Answer(o)
            BY <2>3, <3>1, OutsideAnswer DEF threads
        <3>3. Answer(t)' = Answer(t)
            BY <1>0, <2>1, <3>1 DEF Answer, Changing, threads
        <3> QED
            BY <2>2, <3>1, <3>2, <3>3 DEF LM!vars, threads
    <2> QED
        BY <2>4, <2>5
<1> QED
    BY <1>1, <1>2

\* A get takes effect with the lookup that decides it.
LEMMA LookRefines ==
    ASSUME Everything, Everything', NEW t \in Thread, Look(t)
    PROVE  LM!TakeEffect(t) \/ UNCHANGED LM!vars
<1>1. /\ mode[t] = "shared" /\ ~ Decided(t) /\ UNCHANGED <<vars, asked, mode>>
      /\ asked[t] # Nil
    BY DEF Look, Everything, ThreadsInv, InsideAsked
<1>2. Recoverable' = Recoverable
    BY <1>1, SameStore
<1>3. Answer(t) = Nil
    BY <1>1 DEF Answer
<1>4. \A o \in Thread \ {t} : Answer(o)' = Answer(o)
    BY <1>1, SameAnswer, OthersKeep DEF Everything
<1>5. CASE asked[t].op = "get" /\ Decided(t)'
    <2>1. Answer(t)' = Recoverable[asked[t].key]
        <3>1. Found(t)' = Recoverable'[asked'[t].key]
            BY <1>1, <1>5 DEF Everything, AnsweredInv
        <3>2. Answer(t)' = Found(t)'
            BY <1>1, <1>5 DEF Answer
        <3> QED
            BY <1>1, <1>2, <3>1, <3>2
    <2>2. \A o \in Thread : Answer(o)' = IF o = t THEN Recoverable[asked[t].key] ELSE Answer(o)
        BY <1>4, <2>1
    <2>3. [o \in Thread |-> Answer(o)]' =
              [[o \in Thread |-> Answer(o)] EXCEPT ![t] = Recoverable[asked[t].key]]
        BY <2>2
    <2> QED
        BY <1>1, <1>2, <1>3, <1>5, <2>3 DEF LM!TakeEffect
<1>6. CASE ~ (asked[t].op = "get" /\ Decided(t)')
    <2>1. Answer(t)' = Nil
        BY <1>1, <1>6 DEF Answer
    <2> QED
        BY <1>1, <1>2, <1>3, <1>4, <2>1 DEF LM!vars
<1> QED
    BY <1>5, <1>6

LEMMA UnlockRefines ==
    ASSUME Everything, NEW t \in Thread, Unlock(t)
    PROVE  LM!End(t)
<1>1. Decided(t) /\ Leaves(t) /\ UNCHANGED vars /\ mode[t] = "shared" /\ asked[t] # Nil
    BY DEF Unlock, Decided, Everything, ThreadsInv, InsideAsked
<1>2. asked[t].op \in {"get", "write"} => Answer(t) # Nil
    BY <1>1 DEF Decided, Answer, Everything, AnsweredInv
<1>3. \A o \in Thread \ {t} : Answer(o)' = Answer(o)
    BY <1>1, SameAnswer, OthersKeep DEF Everything
<1> QED
    BY <1>1, <1>2, <1>3, SameStore, LeavesRefines DEF Everything

\* Opening and closing are nothing to the threads: none is in a call.
LEMMA OwnerRefines ==
    ASSUME Everything, Everything', Owner, Faults \subseteq Tolerated
    PROVE  UNCHANGED LM!vars
<1>1. UNCHANGED threads
    BY DEF Owner
<1>2. \A t \in Thread : asked[t] = Nil
    BY DEF Owner, Open, Everything, ThreadsInv, ObjectThere
<1>3. \A t \in Thread : Answer(t)' = Answer(t)
    BY <1>1, <1>2 DEF Answer, threads
<1>4. pc # "sync" /\ pc' # "apply"
    <2>1. CASE Open \/ Close
        BY <2>1 DEF Open, Close, Halt
    <2>2. CASE call \in {"open", "close"} /\ Step
        <3>1. TypeOK /\ LocalsInv /\ SyncInv
            BY DEF Everything, Inv, FilesInv
        <3>2. pc # "sync" /\ ~ SyncWal
            BY <2>2 DEF Everything, SyncInv, SyncWal
        <3> QED
            BY <2>2, <3>1, <3>2, SyncFacts
    <2> QED
        BY <2>1, <2>2 DEF Owner
<1>5. Recoverable' = Recoverable
    BY <1>4, QuietRefines DEF ThreadsNext
<1> QED
    BY <1>1, <1>3, <1>5 DEF LM!vars, threads

LEMMA ThreadsRefine ==
    ASSUME Everything, Everything', [ThreadsNext]_allvars, Faults \subseteq Tolerated
    PROVE  [LM!Next]_(LM!vars)
<1>1. CASE Owner
    BY <1>1, OwnerRefines
<1>2. ASSUME NEW t \in Thread, Ask(t) \/ Lock(t) \/ Inside(t)
      PROVE  [LM!Next]_(LM!vars)
    <2>1. TypeOK /\ ThreadsInv /\ StatsInv
        BY DEF Everything, Inv, FilesInv
    <2> QED
        BY <1>2, <2>1, AskRefines, LockRefines, RunRefines, LookRefines, UnlockRefines
        DEF Inside, LM!Next
<1>3. CASE UNCHANGED allvars
    <2>1. UNCHANGED <<vars, asked, mode, seen>>
        BY <1>3 DEF allvars, threads
    <2>2. \A t \in Thread : Answer(t)' = Answer(t)
        BY <2>1, SameAnswer
    <2> QED
        BY <2>1, <2>2, SameStore DEF LM!vars
<1> QED
    BY <1>1, <1>2, <1>3 DEF ThreadsNext

-----------------------------------------------------------------------------
(* The theorem.                                                            *)

LEMMA ThreadsRefineInit == ThreadsInit => LM!Init
<1> SUFFICES ASSUME ThreadsInit
             PROVE  LM!Init
    OBVIOUS
<1>1. Recoverable = [k \in Key |-> NoEntry]
    BY DurableInit DEF ThreadsInit, DM!Init
<1>2. \A t \in Thread : Answer(t) = Nil
    BY DEF ThreadsInit, Answer
<1> QED
    BY <1>1, <1>2 DEF ThreadsInit, LM!Init

\* What the threads need of the store and of each other, step by step.
Shares == ThreadsInv /\ StatsInv /\ SyncInv /\ CallerInv /\ GetInv /\ ClosesInv /\ EmptiedInv

LEMMA SharesStep ==
    ASSUME Faults \subseteq Benign
    PROVE  Inv /\ TablesInv /\ LogsInv /\ Shares /\ [ThreadsNext]_allvars => Shares'
<1> SUFFICES ASSUME Inv, TablesInv, LogsInv, Shares, [ThreadsNext]_allvars
             PROVE  Shares'
    OBVIOUS
<1>1. /\ FilesInv /\ TypeOK /\ LocalsInv /\ CallInv
      /\ ThreadsInv /\ StatsInv /\ SyncInv /\ CallerInv /\ GetInv /\ ClosesInv /\ EmptiedInv
    BY DEF Inv, FilesInv, TablesInv, Shares
<1>2. [Work]_vars /\ [Next]_vars
    BY <1>1, ThreadsStepIsStoreStep DEF ThreadsInv, Next
<1>3. ThreadsInv' /\ StatsInv' /\ SyncInv'
    BY <1>1, <1>2, ThreadsStep, StatsStep, SyncStep
<1>4. CallerInv' /\ GetInv' /\ ClosesInv'
    BY <1>1, CallerStep, GetInvStep, ClosesStep
<1>5. EmptiedInv'
    BY <1>1, <1>2, <1>4, EmptiedStep
<1> QED
    BY <1>3, <1>4, <1>5 DEF Shares

\* For any number of threads, whatever of the benign calls fails: the store is a
\* map that does one call at a time.  A get that looks at file after file, while
\* others wait to swap the list and to delete files, answers with what its key
\* had at one moment, and a write that returned is seen by every get that begins
\* later (db.h, "Thread safety").
THEOREM ThreadsSeeOneMap ==
    ASSUME Faults \subseteq Benign
    PROVE  ThreadsSpec => Linearizable
<1>1. Faults \subseteq Tolerated
    BY DEF Benign, Tolerated
<1> DEFINE Store == Inv /\ TablesInv /\ LogsInv
<1>2. ThreadsSpec => []Store
    BY <1>1, ThreadsImplementStore, StoreAlways, PTL
<1>3. ThreadsInit => Shares
    <2> SUFFICES ASSUME ThreadsInit
                 PROVE  Shares
        OBVIOUS
    <2>1. ThreadsInv /\ StatsInv
        BY ThreadsInvInit, StatsInit
    <2>2. SyncInv /\ CallerInv /\ GetInv /\ ClosesInv
        BY DEF ThreadsInit, Init, SyncInv, CallerInv, GetInv, ClosesInv
    <2>3. EmptiedInv
        BY EmptiedInit DEF ThreadsInit
    <2> QED
        BY <2>1, <2>2, <2>3 DEF Shares
<1>4. Store /\ Shares => Everything
    <2> SUFFICES ASSUME Store, Shares
                 PROVE  Everything
        OBVIOUS
    <2>1. TypeOK /\ FilesInv
        BY DEF Inv, FilesInv
    <2>2. Clean /\ ServedInv
        BY <2>1, EmptiedIsClean, ServedIsRecoverable DEF Shares
    <2> QED
        BY <2>1, <2>2, DecidedIsRecoverable DEF Shares, Everything
<1>5. Everything /\ Everything' /\ [ThreadsNext]_allvars => [LM!Next]_(LM!vars)
    BY <1>1, ThreadsRefine
<1>6. Store /\ Shares /\ [ThreadsNext]_allvars => Shares'
    BY SharesStep
<1> HIDE DEF Store
<1> QED
    BY <1>2, <1>3, <1>4, <1>5, <1>6, ThreadsRefineInit, PTL
    DEF ThreadsSpec, Linearizable, LM!Spec
=============================================================================
