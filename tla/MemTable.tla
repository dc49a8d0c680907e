------------------------------ MODULE MemTable ------------------------------
(***************************************************************************)
(* MemTable: the entries of the keys written last, and bytes_, the size    *)
(* that decides when to flush, kept up to date write by write.  Keys and   *)
(* values are strings of bytes, any string a log may yield.                *)
(***************************************************************************)
EXTENDS Integers, Sequences, FiniteSets, Functions

\* data_ (from keys to MemEntry) and bytes_.
Cleared == [data |-> [k \in {} |-> <<>>], bytes |-> 0]

\* raw() finds an entry.
Knows(m, k) == k \in DOMAIN m.data

With(m, k, e) ==
    [i \in DOMAIN m.data \cup {k} |-> IF i = k THEN e ELSE m.data[i]]

\* Mutant: the value that is replaced stays in the sum.
GrowthKeeping(m, k, e) ==
    IF Knows(m, k) THEN Len(e.value) ELSE Len(k) + Len(e.value)

\* What bytes_ gains: a known key is counted already, its old value leaves.
Growth(m, k, e) ==
    IF Knows(m, k) THEN Len(e.value) - Len(m.data[k].value)
    ELSE Len(k) + Len(e.value)

Set(m, k, e) == [data |-> With(m, k, e), bytes |-> m.bytes + Growth(m, k, e)]

Put(m, k, v) == Set(m, k, [value |-> v, tombstone |-> FALSE])
Del(m, k)    == Set(m, k, [value |-> <<>>, tombstone |-> TRUE])

\* The size of what is in the table.
Size(m) == SumFunction([k \in DOMAIN m.data |-> Len(k) + Len(m.data[k].value)])
=============================================================================
