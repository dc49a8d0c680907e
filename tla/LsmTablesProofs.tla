--------------------------- MODULE LsmTablesProofs ---------------------------
(***************************************************************************)
(* Lemmas about the data of the store, for every set of keys and values:   *)
(* what a replay makes of a log as the log grows, what a lookup finds in a *)
(* list of layers as the list grows, and what neither of them looks at.    *)
(***************************************************************************)
EXTENDS LsmTables, FiniteSetTheorems, TLAPS

-----------------------------------------------------------------------------
(* Tables.                                                                 *)

\* The tables an overlay, a write or a dropped tombstone makes are tables.
LEMMA TableOps ==
    ASSUME NEW a \in Table, NEW b \in Table, NEW k \in Key, NEW e \in Entry
    PROVE  /\ Overlay(a, b) \in Table
           /\ DropTombstones(a) \in Table
           /\ SetEntry(a, k, e) \in Table
           /\ EmptyTable \in Table
BY DEF Table, Overlay, DropTombstones, SetEntry, EmptyTable, Entry

\* The empty table adds nothing, above or below.
LEMMA OverlayEmpty ==
    ASSUME NEW a \in Table
    PROVE  Overlay(a, EmptyTable) = a /\ Overlay(EmptyTable, a) = a
BY DEF Overlay, EmptyTable, Table

-----------------------------------------------------------------------------
(* Replays.                                                                *)

\* The last record on a key decides its entry.
LEMMA ReplayAt ==
    ASSUME NEW log \in Log, NEW k \in Key, NEW i, IsLastFor(log, k, i)
    PROVE  Replay(log)[k] = log[i].entry
<1>1. i \in Whole(log)
    BY DEF IsLastFor
<1>2. ASSUME NEW j \in Whole(log), IsLastFor(log, k, j)
      PROVE  j = i
    BY <1>1, <1>2 DEF IsLastFor, Whole, Log
<1>3. (CHOOSE j \in Whole(log) : IsLastFor(log, k, j)) = i
    BY <1>1, <1>2
<1> QED
    BY <1>1, <1>3 DEF Replay

\* A key without a record stays unknown.
LEMMA ReplayMisses ==
    ASSUME NEW log, NEW k \in Key, ~ \E i \in Whole(log) : IsLastFor(log, k, i)
    PROVE  Replay(log)[k] = NoEntry
BY DEF Replay

\* A replay of a log yields a table.
LEMMA ReplayIsTable ==
    ASSUME NEW log \in Log
    PROVE  Replay(log) \in Table
<1> SUFFICES ASSUME NEW k \in Key
             PROVE  Replay(log)[k] \in Entry
    BY DEF Replay, Table
<1>1. ASSUME NEW i \in Whole(log), IsLastFor(log, k, i)
      PROVE  Replay(log)[k] \in Entry
    <2>1. log[i] \in Record
        BY <1>1 DEF Whole, Log
    <2>2. Replay(log)[k] = log[i].entry
        BY <1>1, ReplayAt
    <2> QED
        BY <2>1, <2>2 DEF Record, Entry
<1>2. CASE ~ \E i \in Whole(log) : IsLastFor(log, k, i)
    BY <1>2, ReplayMisses DEF Entry
<1> QED
    BY <1>1, <1>2

\* So does every outcome of a replay that meets a cut record.
LEMMA ReplaysAreTables ==
    ASSUME NEW log \in Log, NEW table \in Replays(log)
    PROVE  table \in Table
<1>1. CASE ~ BuriedTear(log)
    BY <1>1, ReplayIsTable DEF Replays
<1>2. CASE BuriedTear(log)
    <2>1. PICK garbled \in Table : table = Overlay(garbled, Replay(log))
        BY <1>2 DEF Replays
    <2> QED
        BY <2>1, ReplayIsTable DEF Overlay, Table
<1> QED
    BY <1>1, <1>2

\* An empty segment yields an empty table.
LEMMA ReplayOfNothing ==
    /\ <<>> \in Log
    /\ Replay(<<>>) = EmptyTable
    /\ ~ BuriedTear(<<>>)
<1>1. <<>> \in Log
    BY DEF Log
<1>2. Whole(<<>>) = {}
    BY DEF Whole
<1> QED
    BY <1>1, <1>2 DEF Replay, EmptyTable, BuriedTear

\* A log that can be appended to: no record in it was cut.
Untorn(log) == \A i \in DOMAIN log : log[i] # Torn

\* All of such a log is replayed.
LEMMA UntornIsWhole ==
    ASSUME NEW log \in Log, Untorn(log)
    PROVE  /\ Whole(log) = DOMAIN log
           /\ \A i \in DOMAIN log : log[i] \in Record
           /\ ~ BuriedTear(log)
<1>1. \A i \in DOMAIN log : 1..i \subseteq DOMAIN log
    BY DEF Log
<1>2. Whole(log) = DOMAIN log
    BY <1>1 DEF Whole, Untorn
<1>3. \A i \in DOMAIN log : log[i] \in Record
    BY DEF Untorn, Log
<1> QED
    BY <1>2, <1>3 DEF Untorn, BuriedTear

\* What a log looks like after an append.
LEMMA AppendFacts ==
    ASSUME NEW log \in Log, NEW x \in Record \cup {Torn}
    PROVE  /\ Append(log, x) \in Log
           /\ Len(Append(log, x)) = Len(log) + 1
           /\ DOMAIN Append(log, x) = DOMAIN log \cup {Len(log) + 1}
           /\ \A i \in DOMAIN log : Append(log, x)[i] = log[i]
           /\ Append(log, x)[Len(log) + 1] = x
           /\ DOMAIN log = 1..Len(log) /\ Len(log) \in Nat
BY DEF Log

\* A log that a record was appended to, with no cut record buried, had none.
LEMMA AppendedToUntorn ==
    ASSUME NEW log \in Log, NEW x \in Record \cup {Torn}, ~ BuriedTear(Append(log, x))
    PROVE  Untorn(log)
<1>1. ASSUME NEW i \in DOMAIN log, log[i] = Torn
      PROVE  FALSE
    <2>1. i \in DOMAIN Append(log, x) /\ Append(log, x)[i] = Torn
        BY <1>1, AppendFacts
    <2>2. i < Len(Append(log, x))
        BY <1>1, AppendFacts
    <2> QED
        BY <2>1, <2>2 DEF BuriedTear
<1> QED
    BY <1>1 DEF Untorn

\* A record at the end of a log decides the entry of its key and of no other.
LEMMA ReplayOfAppend ==
    ASSUME NEW log \in Log, NEW r \in Record, Untorn(log)
    PROVE  /\ Replay(Append(log, r)) = SetEntry(Replay(log), r.key, r.entry)
           /\ Untorn(Append(log, r))
<1> DEFINE longer == Append(log, r)
           n == Len(log) + 1
<1>1. /\ longer \in Log /\ DOMAIN longer = DOMAIN log \cup {n} /\ longer[n] = r
      /\ \A i \in DOMAIN log : longer[i] = log[i] /\ i < n /\ i \in Nat
      /\ n \in Nat
    BY AppendFacts
<1>2. r # Torn
    BY TornAssumption
<1> HIDE DEF longer, n
<1>3. Untorn(longer)
    BY <1>1, <1>2 DEF Untorn
<1>4. Whole(longer) = DOMAIN longer /\ Whole(log) = DOMAIN log
    BY <1>1, <1>3, UntornIsWhole
<1>5. ASSUME NEW k \in Key
      PROVE  Replay(longer)[k] = SetEntry(Replay(log), r.key, r.entry)[k]
    <2>1. r.key \in Key /\ SetEntry(Replay(log), r.key, r.entry)[k] =
              IF k = r.key THEN r.entry ELSE Replay(log)[k]
        BY DEF SetEntry, Replay, Record
    <2>2. CASE k = r.key
        <3>1. IsLastFor(longer, k, n)
            BY <1>1, <1>4, <2>2 DEF IsLastFor
        <3> QED
            BY <1>1, <2>1, <2>2, <3>1, ReplayAt
    <2>3. CASE k # r.key
        <3>1. ASSUME NEW i
              PROVE  IsLastFor(longer, k, i) <=> IsLastFor(log, k, i)
            BY <1>1, <1>4, <2>3 DEF IsLastFor
        <3>2. CASE \E i \in Whole(log) : IsLastFor(log, k, i)
            <4>1. PICK i \in DOMAIN log : IsLastFor(log, k, i)
                BY <1>4, <3>2
            <4>2. Replay(log)[k] = log[i].entry
                BY <4>1, ReplayAt
            <4>3. Replay(longer)[k] = longer[i].entry
                BY <1>1, <3>1, <4>1, ReplayAt
            <4> QED
                BY <1>1, <2>1, <2>3, <4>1, <4>2, <4>3
        <3>3. CASE ~ \E i \in Whole(log) : IsLastFor(log, k, i)
            <4>1. ~ \E i \in Whole(longer) : IsLastFor(longer, k, i)
                BY <3>1, <3>3 DEF IsLastFor
            <4> QED
                BY <2>1, <2>3, <3>3, <4>1, ReplayMisses
        <3> QED
            BY <3>2, <3>3
    <2> QED
        BY <2>2, <2>3
<1>6. Replay(longer) = SetEntry(Replay(log), r.key, r.entry)
    BY <1>5 DEF Replay, SetEntry
<1> QED
    BY <1>3, <1>6 DEF longer

\* A cut record at the end of a log is as good as none.
LEMMA ReplayOfTear ==
    ASSUME NEW log \in Log, Untorn(log)
    PROVE  Replay(Append(log, Torn)) = Replay(log)
<1> DEFINE longer == Append(log, Torn)
           n == Len(log) + 1
<1>1. /\ longer \in Log /\ DOMAIN longer = DOMAIN log \cup {n} /\ longer[n] = Torn
      /\ \A i \in DOMAIN log : longer[i] = log[i]
      /\ DOMAIN log = 1..Len(log) /\ Len(log) \in Nat
    BY AppendFacts
<1> HIDE DEF longer
<1>2. Whole(longer) = DOMAIN log
    <2>1. n \notin Whole(longer)
        BY <1>1 DEF Whole
    <2>2. ASSUME NEW i \in DOMAIN log
          PROVE  i \in Whole(longer)
        <3>1. \A j \in 1..i : j \in DOMAIN log
            BY <1>1
        <3> QED
            BY <1>1, <3>1 DEF Whole, Untorn
    <2> QED
        BY <1>1, <2>1, <2>2 DEF Whole
<1>3. Whole(log) = DOMAIN log
    BY UntornIsWhole
<1>4. \A k, i : IsLastFor(longer, k, i) <=> IsLastFor(log, k, i)
    BY <1>1, <1>2, <1>3 DEF IsLastFor
<1>5. ASSUME NEW k \in Key
      PROVE  Replay(longer)[k] = Replay(log)[k]
    <2>1. CASE \E i \in Whole(log) : IsLastFor(log, k, i)
        <3>1. PICK i \in DOMAIN log : IsLastFor(log, k, i)
            BY <1>3, <2>1
        <3> QED
            BY <1>1, <1>4, <3>1, ReplayAt
    <2>2. CASE ~ \E i \in Whole(log) : IsLastFor(log, k, i)
        BY <1>2, <1>3, <1>4, <2>2, ReplayMisses
    <2> QED
        BY <2>1, <2>2
<1>6. Replay(longer) = Replay(log)
    BY <1>5 DEF Replay
<1> QED
    BY <1>6 DEF longer

\* A log whose replay is empty, with no cut record, is empty.
LEMMA NothingToReplay ==
    ASSUME NEW log \in Log, Untorn(log), Replay(log) = EmptyTable
    PROVE  log = <<>>
<1> SUFFICES ASSUME log # <<>>
             PROVE  FALSE
    OBVIOUS
<1> DEFINE n == Len(log)
<1>1. n \in DOMAIN log /\ \A i \in DOMAIN log : i <= n
    BY DEF Log
<1>2. log[n] \in Record /\ Whole(log) = DOMAIN log
    BY <1>1, UntornIsWhole
<1>3. log[n].key \in Key /\ log[n].entry \in Written
    BY <1>2 DEF Record
<1>4. IsLastFor(log, log[n].key, n)
    BY <1>1, <1>2 DEF IsLastFor
<1>5. Replay(log)[log[n].key] = log[n].entry
    BY <1>3, <1>4, ReplayAt
<1> QED
    BY <1>3, <1>5, EntryAssumption DEF EmptyTable, Written

-----------------------------------------------------------------------------
(* Lookups.                                                                *)

\* A set of numbers that is not empty has a smallest one.
LEMMA SmallestNumber ==
    ASSUME NEW S \in SUBSET Nat, S # {}
    PROVE  \E i \in S : \A j \in S : i <= j
<1> PICK top \in S : TRUE
    OBVIOUS
<1> DEFINE below == {1..i : i \in {j \in S : j <= top}}
           bounds == 1..top
<1>1. below # {} /\ \A b \in below : b \subseteq bounds
    OBVIOUS
<1>2. IsFiniteSet(bounds)
    BY FS_Interval
<1>3. below \subseteq FiniteSubsetsOf(bounds)
    BY <1>1, <1>2, FS_Subset DEF FiniteSubsetsOf
<1> HIDE DEF bounds
<1>4. PICK least \in below : \A b \in below : <<b, least>> \notin StrictSubsetOrdering(bounds)
    <2> HIDE DEF below
    <2> QED
        BY <1>1, <1>3, FS_StrictSubsetOrderingWellFounded, WFMin
<1>5. PICK i \in S : i <= top /\ least = 1..i
    BY <1>4
<1>6. ASSUME NEW j \in S, j < i
      PROVE  FALSE
    <2>1. 1..j \in below
        BY <1>5, <1>6
    <2>2. 1..j \subseteq 1..i /\ i \in 1..i /\ i \notin 1..j
        BY <1>6
    <2>3. <<1..j, least>> \in StrictSubsetOrdering(bounds)
        BY <1>1, <1>4, <1>5, <2>1, <2>2 DEF StrictSubsetOrdering
    <2> QED
        BY <1>4, <2>1, <2>3
<1> QED
    BY <1>6

\* The first layer that knows a key decides.
LEMMA LookupAt ==
    ASSUME NEW dir, NEW ids, NEW n \in Nat, NEW k, NEW i, IsFirstHit(dir, ids, n, k, i)
    PROVE  LookupUpTo(dir, ids, n, k) = Content(dir, ids[i])[k]
<1>1. i \in 1..n
    BY DEF IsFirstHit
<1>2. ASSUME NEW j \in 1..n, IsFirstHit(dir, ids, n, k, j)
      PROVE  j = i
    BY <1>1, <1>2 DEF IsFirstHit
<1>3. (CHOOSE j \in 1..n : IsFirstHit(dir, ids, n, k, j)) = i
    BY <1>1, <1>2
<1> QED
    BY <1>1, <1>3 DEF LookupUpTo

\* When some layer knows a key, there is a first one.
LEMMA FirstHitExists ==
    ASSUME NEW dir, NEW ids, NEW n \in Nat, NEW k, NEW i \in 1..n, Knows(dir, ids, k, i)
    PROVE  \E j \in 1..n : IsFirstHit(dir, ids, n, k, j)
<1> DEFINE hits == {j \in 1..n : Knows(dir, ids, k, j)}
<1>1. hits \in SUBSET Nat /\ hits # {}
    OBVIOUS
<1>2. PICK j \in hits : \A other \in hits : j <= other
    <2> HIDE DEF hits
    <2> QED
        BY <1>1, SmallestNumber
<1>3. \A other \in 1..(j - 1) : ~ Knows(dir, ids, k, other)
    BY <1>2
<1> QED
    BY <1>2, <1>3 DEF IsFirstHit

\* When none does, nothing is found, and the other way round.
LEMMA LookupMisses ==
    ASSUME NEW dir, NEW ids, NEW n \in Nat, NEW k
    PROVE  (\A i \in 1..n : ~ Knows(dir, ids, k, i)) <=> LookupUpTo(dir, ids, n, k) = NoEntry
<1>1. CASE \A i \in 1..n : ~ Knows(dir, ids, k, i)
    BY <1>1 DEF IsFirstHit, LookupUpTo
<1>2. ASSUME NEW i \in 1..n, Knows(dir, ids, k, i)
      PROVE  LookupUpTo(dir, ids, n, k) # NoEntry
    <2>1. PICK j \in 1..n : IsFirstHit(dir, ids, n, k, j)
        BY <1>2, FirstHitExists
    <2> QED
        BY <2>1, LookupAt DEF IsFirstHit, Knows
<1> QED
    BY <1>1, <1>2

\* One more layer at the back matters where the layers in front know nothing.
LEMMA LookupOneMore ==
    ASSUME NEW dir, NEW ids, NEW n \in Nat, NEW k
    PROVE  LookupUpTo(dir, ids, n + 1, k) =
             IF LookupUpTo(dir, ids, n, k) # NoEntry THEN LookupUpTo(dir, ids, n, k)
             ELSE Content(dir, ids[n + 1])[k]
<1>1. CASE \E i \in 1..n : Knows(dir, ids, k, i)
    <2>1. PICK i \in 1..n : IsFirstHit(dir, ids, n, k, i)
        BY <1>1, FirstHitExists
    <2>2. IsFirstHit(dir, ids, n + 1, k, i)
        BY <2>1 DEF IsFirstHit
    <2> QED
        BY <1>1, <2>1, <2>2, LookupAt, LookupMisses
<1>2. CASE \A i \in 1..n : ~ Knows(dir, ids, k, i)
    <2>1. LookupUpTo(dir, ids, n, k) = NoEntry
        BY <1>2, LookupMisses
    <2>2. CASE Knows(dir, ids, k, n + 1)
        <3>1. IsFirstHit(dir, ids, n + 1, k, n + 1)
            BY <1>2, <2>2 DEF IsFirstHit
        <3> QED
            BY <2>1, <3>1, LookupAt
    <2>3. CASE ~ Knows(dir, ids, k, n + 1)
        <3>1. \A i \in 1..(n + 1) : ~ Knows(dir, ids, k, i)
            BY <1>2, <2>3
        <3>2. LookupUpTo(dir, ids, n + 1, k) = NoEntry
            BY <3>1, LookupMisses
        <3> QED
            BY <2>1, <2>3, <3>2 DEF Knows
    <2> QED
        BY <2>2, <2>3
<1> QED
    BY <1>1, <1>2

\* A lookup depends on the tables that the list names and on nothing else.
LEMMA LookupFrame ==
    ASSUME NEW dir, NEW ids, NEW dir2, NEW ids2, NEW n \in Nat, NEW k,
           \A i \in 1..n : Content(dir2, ids2[i])[k] = Content(dir, ids[i])[k]
    PROVE  LookupUpTo(dir2, ids2, n, k) = LookupUpTo(dir, ids, n, k)
<1>1. \A i \in 1..n : Knows(dir2, ids2, k, i) <=> Knows(dir, ids, k, i)
    BY DEF Knows
<1>2. CASE \E i \in 1..n : Knows(dir, ids, k, i)
    <2>1. PICK i \in 1..n : IsFirstHit(dir, ids, n, k, i)
        BY <1>2, FirstHitExists
    <2>2. IsFirstHit(dir2, ids2, n, k, i)
        BY <1>1, <2>1 DEF IsFirstHit
    <2> QED
        BY <2>1, <2>2, LookupAt
<1>3. CASE \A i \in 1..n : ~ Knows(dir, ids, k, i)
    BY <1>1, <1>3, LookupMisses
<1> QED
    BY <1>2, <1>3

\* A layer in front hides those behind it where it knows the key.
LEMMA LookupInFront ==
    ASSUME NEW dir, NEW ids \in Seq(Nat), NEW top \in Nat, NEW k
    PROVE  Lookup(dir, <<top>> \o ids, k) =
             IF Content(dir, top)[k] # NoEntry THEN Content(dir, top)[k]
             ELSE Lookup(dir, ids, k)
<1> DEFINE longer == <<top>> \o ids
           n == Len(ids)
<1>1. /\ Len(longer) = n + 1 /\ longer[1] = top
      /\ \A i \in 1..n : longer[i + 1] = ids[i]
      /\ n \in Nat
    OBVIOUS
<1>2. \A i \in 2..(n + 1) : i - 1 \in 1..n /\ longer[i] = ids[i - 1]
    BY <1>1
<1> HIDE DEF longer, n
<1>3. CASE Content(dir, top)[k] # NoEntry
    <2>1. IsFirstHit(dir, longer, n + 1, k, 1)
        BY <1>1, <1>3 DEF IsFirstHit, Knows
    <2>2. LookupUpTo(dir, longer, n + 1, k) = Content(dir, top)[k]
        BY <1>1, <2>1, LookupAt
    <2> QED
        BY <1>1, <1>3, <2>2 DEF Lookup, longer
<1>4. CASE Content(dir, top)[k] = NoEntry
    <2>1. CASE \E i \in 1..n : Knows(dir, ids, k, i)
        <3>1. PICK i \in 1..n : IsFirstHit(dir, ids, n, k, i)
            BY <1>1, <2>1, FirstHitExists
        <3>2. IsFirstHit(dir, longer, n + 1, k, i + 1)
            <4>1. Knows(dir, longer, k, i + 1)
                BY <1>1, <3>1 DEF IsFirstHit, Knows
            <4>2. ASSUME NEW j \in 1..i
                  PROVE  ~ Knows(dir, longer, k, j)
                <5>1. CASE j = 1
                    BY <1>1, <1>4, <5>1 DEF Knows
                <5>2. CASE j # 1
                    <6>1. j \in 2..(n + 1) /\ j - 1 \in 1..(i - 1)
                        BY <1>1, <5>2
                    <6> QED
                        BY <1>2, <3>1, <6>1 DEF IsFirstHit, Knows
                <5> QED
                    BY <5>1, <5>2
            <4> QED
                BY <1>1, <4>1, <4>2 DEF IsFirstHit
        <3>3. LookupUpTo(dir, longer, n + 1, k) = Content(dir, longer[i + 1])[k]
            BY <1>1, <3>2, LookupAt
        <3>4. LookupUpTo(dir, ids, n, k) = Content(dir, ids[i])[k]
            BY <1>1, <3>1, LookupAt
        <3> QED
            BY <1>1, <1>4, <3>3, <3>4 DEF Lookup, longer, n
    <2>2. CASE \A i \in 1..n : ~ Knows(dir, ids, k, i)
        <3>1. \A i \in 1..(n + 1) : ~ Knows(dir, longer, k, i)
            <4> SUFFICES ASSUME NEW i \in 1..(n + 1)
                         PROVE  ~ Knows(dir, longer, k, i)
                OBVIOUS
            <4>1. CASE i = 1
                BY <1>1, <1>4, <4>1 DEF Knows
            <4>2. CASE i # 1
                <5>1. i \in 2..(n + 1)
                    BY <1>1, <4>2
                <5> QED
                    BY <1>2, <2>2, <5>1 DEF Knows
            <4> QED
                BY <4>1, <4>2
        <3>2. LookupUpTo(dir, longer, n + 1, k) = NoEntry
            BY <1>1, <3>1, LookupMisses
        <3>3. LookupUpTo(dir, ids, n, k) = NoEntry
            BY <1>1, <2>2, LookupMisses
        <3> QED
            BY <1>1, <1>4, <3>2, <3>3 DEF Lookup, longer, n
    <2> QED
        BY <2>1, <2>2
<1> QED
    BY <1>3, <1>4

\* No layer, no entry; one layer, its entry.
LEMMA LookupShort ==
    ASSUME NEW dir, NEW id \in Nat, NEW k
    PROVE  /\ \A ids : LookupUpTo(dir, ids, 0, k) = NoEntry
           /\ Lookup(dir, <<>>, k) = NoEntry
           /\ Lookup(dir, <<id>>, k) = Content(dir, id)[k]
<1>1. \A ids : LookupUpTo(dir, ids, 0, k) = NoEntry
    BY LookupMisses
<1>2. <<id>>[1] = id /\ Len(<<id>>) = 0 + 1 /\ Len(<<>>) = 0
    OBVIOUS
<1>3. LookupUpTo(dir, <<id>>, 0 + 1, k) = Content(dir, id)[k]
    BY <1>1, <1>2, LookupOneMore
<1> QED
    BY <1>1, <1>2, <1>3 DEF Lookup

\* Where one table at most knows a key, that one decides.
LEMMA NewestOfOne ==
    ASSUME NEW tables, NEW u \in Nat, NEW k,
           \A i \in DOMAIN tables : i # u => tables[i][k] = NoEntry
    PROVE  /\ u \in DOMAIN tables => Newest(tables, k) = tables[u][k]
           /\ u \notin DOMAIN tables => Newest(tables, k) = NoEntry
<1> DEFINE knowing == {i \in DOMAIN tables : tables[i][k] # NoEntry}
<1>1. CASE knowing = {}
    BY <1>1 DEF Newest
<1>2. CASE knowing # {}
    <2>1. u \in DOMAIN tables /\ knowing = {u}
        BY <1>2
    <2>2. \A i \in knowing : (\A j \in knowing : j <= i) <=> i = u
        BY <2>1
    <2>3. (CHOOSE i \in knowing : \A j \in knowing : j <= i) = u
        BY <2>1, <2>2
    <2> QED
        BY <1>2, <2>1, <2>3 DEF Newest
<1> QED
    BY <1>1, <1>2
=============================================================================
