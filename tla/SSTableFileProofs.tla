-------------------------- MODULE SSTableFileProofs --------------------------
(***************************************************************************)
(* Proofs about SSTableFile and BloomFilter, for every table, every hash   *)
(* function, every stride and every size of filter: what lookup() and      *)
(* scan_all() return, and that the filter comes back from the file.        *)
(*                                                                         *)
(* The provers know no law of powers and none of sorting.  Both come from  *)
(* the smallest element of a set of numbers and from counting.             *)
(***************************************************************************)
EXTENDS SSTableFile, FiniteSetTheorems, SequenceTheorems, TLAPS

-----------------------------------------------------------------------------
(* Powers of two.                                                          *)

\* A set of numbers that is not empty has a smallest one: the intervals up to
\* its elements have one that contains no other.
LEMMA SmallestNumber ==
    ASSUME NEW S \in SUBSET Nat, S # {}
    PROVE  \E i \in S : \A j \in S : i <= j
<1> PICK top \in S : TRUE
    OBVIOUS
<1> DEFINE below == {1..i : i \in {j \in S : j <= top}}
           bounds == 1..top
<1>1. below # {} /\ \A b \in below : b \subseteq bounds
    OBVIOUS
<1>2. below \subseteq FiniteSubsetsOf(bounds)
    <2>1. IsFiniteSet(bounds)
        BY FS_Interval
    <2> QED
        BY <1>1, <2>1, FS_Subset DEF FiniteSubsetsOf
<1> HIDE DEF bounds
<1>3. PICK least \in below : \A b \in below : <<b, least>> \notin StrictSubsetOrdering(bounds)
    <2> HIDE DEF below
    <2> QED
        BY <1>1, <1>2, FS_StrictSubsetOrderingWellFounded, WFMin
<1>4. PICK i \in S : i <= top /\ least = 1..i
    BY <1>3
<1>5. ASSUME NEW j \in S, j < i
      PROVE  FALSE
    <2>1. 1..j \in below /\ 1..j \subseteq 1..i /\ i \in 1..i /\ i \notin 1..j
        BY <1>4, <1>5
    <2> QED
        BY <1>1, <1>3, <1>4, <2>1 DEF StrictSubsetOrdering
<1> QED
    BY <1>5

\* Division with remainder.
LEMMA Remainder ==
    ASSUME NEW n \in Nat, NEW d \in Nat \ {0}
    PROVE  /\ n % d \in 0..(d - 1) /\ n \div d \in Nat
           /\ n = d * (n \div d) + (n % d)
<1>1. n % d \in 0..(d - 1) /\ n = d * (n \div d) + (n % d)
    OBVIOUS
<1>2. n \div d \in Int
    OBVIOUS
<1>3. ASSUME n \div d < 0
      PROVE  FALSE
    <2>1. d * (n \div d) <= - d
        BY <1>2, <1>3
    <2> QED
        BY <1>1, <2>1
<1> QED
    BY <1>1, <1>2, <1>3

\* What is divided without a remainder is a multiple.
LEMMA Multiples ==
    ASSUME NEW d \in Nat \ {0}, NEW q \in Nat
    PROVE  (d * q) % d = 0
<1> DEFINE n == d * q
           m == q - n \div d
<1>0. n \in Nat
    OBVIOUS
<1>1. n % d \in 0..(d - 1) /\ n \div d \in Nat /\ n = d * (n \div d) + (n % d)
    BY <1>0, Remainder
<1>2. m \in Int /\ n % d = d * m
    BY <1>1
<1>3. m < 1
    BY <1>1, <1>2
<1>4. m >= 0
    BY <1>1, <1>2
<1> QED
    BY <1>2, <1>3, <1>4

LEMMA MultipleOf ==
    ASSUME NEW n \in Nat, NEW d \in Nat \ {0}, n % d = 0
    PROVE  \E q \in Nat : n = d * q
<1>1. n \div d \in Nat /\ n = d * (n \div d)
    BY Remainder
<1> QED
    BY <1>1

\* Twice a power of two is one ...
LEMMA DoublePow2 ==
    ASSUME NEW p, IsPow2(p)
    PROVE  IsPow2(2 * p)
<1> SUFFICES ASSUME NEW d \in 2..(2 * p), (2 * p) % d = 0, d % 2 # 0
             PROVE  FALSE
    BY DEF IsPow2
<1>1. PICK q \in Nat : 2 * p = d * q
    BY MultipleOf DEF IsPow2
<1>2. PICK a \in Nat : d = 2 * a + 1
    OBVIOUS
<1>3. q = 2 * (p - a * q)
    BY <1>1, <1>2 DEF IsPow2
<1>4. PICK r \in Nat : q = 2 * r
    <2>1. p - a * q \in Int
        BY DEF IsPow2
    <2> QED
        BY <1>3, <2>1
<1>5. p = d * r
    BY <1>1, <1>4 DEF IsPow2
<1>6. p % d = 0
    BY <1>5, Multiples
<1>7. d <= p
    BY <1>5 DEF IsPow2
<1> QED
    BY <1>6, <1>7 DEF IsPow2

\* ... and so is half of one.
LEMMA HalfPow2 ==
    ASSUME NEW p, IsPow2(p), p # 1
    PROVE  \E h \in Nat : p = 2 * h /\ IsPow2(h)
<1>1. p \in 2..p /\ p % p = 0
    BY DEF IsPow2
<1>2. PICK h \in Nat : p = 2 * h
    BY <1>1, MultipleOf DEF IsPow2
<1>3. ASSUME NEW d \in 2..h, h % d = 0
      PROVE  d % 2 = 0
    <2>1. PICK q \in Nat : h = d * q
        BY <1>3, MultipleOf
    <2>2. p = d * (2 * q) /\ d \in 2..p
        BY <1>2, <2>1
    <2>3. p % d = 0
        BY <2>2, Multiples
    <2> QED
        BY <2>2, <2>3 DEF IsPow2
<1> QED
    BY <1>2, <1>3 DEF IsPow2

\* A power of two divides all above it.
LEMMA Pow2Divides ==
    ASSUME NEW a, NEW b, IsPow2(a), IsPow2(b), a <= b
    PROVE  b % a = 0
<1> DEFINE S == {n \in Nat : IsPow2(n) /\ \E m \in Nat : IsPow2(m) /\ n <= m /\ m % n # 0}
<1> SUFFICES S = {}
    BY DEF IsPow2
<1> SUFFICES ASSUME S # {}
             PROVE  FALSE
    OBVIOUS
<1>1. PICK n \in S : \A i \in S : n <= i
    BY SmallestNumber
<1>2. PICK m \in Nat : IsPow2(m) /\ n <= m /\ m % n # 0
    OBVIOUS
<1>3. n # 1 /\ m # 1
    BY <1>2 DEF IsPow2
<1>4. PICK h \in Nat : n = 2 * h /\ IsPow2(h)
    BY <1>3, HalfPow2
<1>5. PICK g \in Nat : m = 2 * g /\ IsPow2(g)
    BY <1>2, <1>3, HalfPow2
<1>6. g % h = 0
    <2>1. h < n /\ h <= g
        BY <1>2, <1>4, <1>5 DEF IsPow2
    <2>2. h \notin S
        BY <1>1, <2>1
    <2> QED
        BY <1>4, <1>5, <2>1, <2>2
<1>7. PICK q \in Nat : g = h * q
    BY <1>4, <1>6, MultipleOf DEF IsPow2
<1>8. m = n * q
    BY <1>4, <1>5, <1>7
<1> QED
    BY <1>2, <1>8, Multiples DEF IsPow2

\* From any number on, below its double, there is a power of two.
LEMMA Pow2From ==
    ASSUME NEW v \in Nat \ {0}
    PROVE  \E p \in v..(2 * v - 1) : IsPow2(p)
<1> DEFINE S == {n \in Nat \ {0} : ~ \E p \in n..(2 * n - 1) : IsPow2(p)}
<1> SUFFICES ASSUME S # {}
             PROVE  FALSE
    OBVIOUS
<1>1. PICK n \in S : \A i \in S : n <= i
    BY SmallestNumber
<1>2. n # 1
    <2>1. IsPow2(1)
        BY DEF IsPow2
    <2> QED
        BY <2>1
<1>3. PICK p \in (n - 1)..(2 * (n - 1) - 1) : IsPow2(p)
    <2>1. n - 1 \in Nat \ {0} /\ n - 1 \notin S
        BY <1>1, <1>2
    <2> QED
        BY <2>1
<1>4. CASE p = n - 1
    <2>1. IsPow2(2 * p) /\ 2 * p \in n..(2 * n - 1)
        BY <1>2, <1>3, <1>4, DoublePow2
    <2> QED
        BY <2>1
<1>5. CASE p # n - 1
    BY <1>3, <1>5
<1> QED
    BY <1>4, <1>5

-----------------------------------------------------------------------------
(* The filter.                                                             *)

\* next_pow2 rounds up to a power of two, ...
LEMMA NextPow2Facts ==
    ASSUME NEW v \in Nat
    PROVE  IsPow2(NextPow2(v)) /\ v <= NextPow2(v)
<1>1. CASE v = 0
    BY <1>1 DEF NextPow2, IsPow2
<1>2. CASE v # 0
    BY <1>2, Pow2From DEF NextPow2
<1> QED
    BY <1>1, <1>2

\* ... and leaves one as it is.
LEMMA NextPow2OfOne ==
    ASSUME NEW p, IsPow2(p)
    PROVE  NextPow2(p) = p
<1>1. p \in Nat \ {0}
    BY DEF IsPow2
<1>2. NextPow2(p) \in p..(2 * p - 1) /\ IsPow2(NextPow2(p))
    BY <1>1, Pow2From DEF NextPow2
<1>3. NextPow2(p) % p = 0
    BY <1>1, <1>2, Pow2Divides
<1>4. PICK q \in Nat : NextPow2(p) = p * q
    <2>1. NextPow2(p) \in Nat
        BY <1>2 DEF IsPow2
    <2> QED
        BY <1>1, <1>3, <2>1, MultipleOf
<1>5. q = 1
    <2>1. CASE q = 0
        BY <1>1, <1>2, <1>4, <2>1
    <2>2. CASE q >= 2
        <3>1. p * q >= 2 * p
            BY <1>1, <2>2
        <3> QED
            BY <1>1, <1>2, <1>4, <3>1
    <2> QED
        BY <2>1, <2>2
<1> QED
    BY <1>1, <1>4, <1>5

\* m_ is a power of two.
LEMMA SizeIsPow2 ==
    ASSUME NEW n \in Nat
    PROVE  IsPow2(SizeFor(n))
<1>1. BitsPerKey * n \in Nat /\ IsPow2(MinBits)
    BY BloomAssumption
<1> QED
    BY <1>1, NextPow2Facts DEF SizeFor, AtLeast

\* A size that is cut to the width of its field is 0; others are not changed.
LEMMA SizeInFile ==
    ASSUME NEW m, IsPow2(m)
    PROVE  m % WordValues = IF m < WordValues THEN m ELSE 0
<1>1. m \in Nat \ {0} /\ WordValues \in Nat \ {0} /\ IsPow2(WordValues)
    BY BloomAssumption DEF IsPow2
<1>2. CASE m < WordValues
    BY <1>1, <1>2
<1>3. CASE m >= WordValues
    BY <1>1, <1>3, Pow2Divides
<1> QED
    BY <1>1, <1>2, <1>3

\* The probes of a key are bits of the filter.
LEMMA ProbesFacts ==
    ASSUME NEW h \in Nat, NEW m \in Nat \ {0}
    PROVE  Probes(h, m) \subseteq 0..(m - 1)
<1> SUFFICES ASSUME NEW i \in 0..(K - 1)
             PROVE  (h + i * Odd(h)) % m \in 0..(m - 1)
    BY DEF Probes
<1>1. Odd(h) \in Nat /\ K \in Nat
    BY BloomAssumption DEF Odd
<1>2. h + i * Odd(h) \in Nat
    BY <1>1
<1> QED
    BY <1>2, Remainder

\* The bytes hold the bits.
LEMMA BytesFacts ==
    ASSUME NEW m \in Nat
    PROVE  /\ Bytes(m) \in Nat /\ m <= ByteBits * Bytes(m)
           /\ Bytes(0) = 0 /\ Bytes(1) = 1
<1>1. ByteBits \in Nat \ {0}
    BY BloomAssumption
<1> DEFINE n == m + ByteBits - 1
<1>2. n \in Nat
    BY <1>1
<1>3. n % ByteBits \in 0..(ByteBits - 1) /\ n \div ByteBits \in Nat
      /\ n = ByteBits * (n \div ByteBits) + (n % ByteBits)
    BY <1>1, <1>2, Remainder
<1>4. m <= ByteBits * (n \div ByteBits)
    BY <1>1, <1>3
<1>5. (0 + ByteBits - 1) \div ByteBits = 0
    BY <1>1
<1>6. (1 + ByteBits - 1) \div ByteBits = 1
    BY <1>1
<1> QED
    BY <1>3, <1>4, <1>5, <1>6 DEF Bytes

\* The filter of some keys knows them, whatever their hashes.
LEMMA FilterFacts ==
    ASSUME NEW n \in Nat, NEW hashes \in SUBSET Nat
    PROVE  LET filter == AddAll(NewFilter(n), hashes)
           IN  /\ filter.m = SizeFor(n)
               /\ filter.bits \subseteq 0..(filter.m - 1)
               /\ \A h \in hashes : MayContain(filter, h)
<1> DEFINE filter == AddAll(NewFilter(n), hashes)
<1>1. SizeFor(n) \in Nat \ {0}
    BY SizeIsPow2 DEF IsPow2
<1>2. filter.m = SizeFor(n) /\ filter.bits = UNION {Probes(h, SizeFor(n)) : h \in hashes}
    BY DEF AddAll, NewFilter
<1>3. \A h \in hashes : Probes(h, SizeFor(n)) \subseteq 0..(SizeFor(n) - 1)
    BY <1>1, ProbesFacts
<1> QED
    BY <1>2, <1>3 DEF MayContain

\* The filter that is written is the filter that is read, or the constructor
\* that reads it throws.
LEMMA FilterWrittenAndRead ==
    ASSUME NEW n \in Nat, NEW hashes \in SUBSET Nat
    PROVE  LET filter == AddAll(NewFilter(n), hashes)
           IN  /\ Refuses(Section(filter)) <=> SizeFor(n) >= WordValues
               /\ ~ Refuses(Section(filter)) => ReadFilter(Section(filter)) = filter
<1> DEFINE filter == AddAll(NewFilter(n), hashes)
           m == SizeFor(n)
<1>0. IsPow2(m) /\ m \in Nat \ {0} /\ WordValues \in Nat \ {0}
    BY SizeIsPow2, BloomAssumption DEF IsPow2
<1>1. filter = [m |-> m, bits |-> filter.bits] /\ filter.bits \subseteq 0..(m - 1)
    <2>1. NewFilter(n) = [m |-> m, bits |-> {}]
        BY DEF NewFilter
    <2>2. filter = [m |-> m, bits |-> UNION {Probes(h, m) : h \in hashes}]
        BY <2>1 DEF AddAll
    <2> QED
        BY <2>2, FilterFacts
<1> HIDE DEF filter
<1>2. Section(filter) = [num_bits |-> IF m < WordValues THEN m ELSE 0, bits |-> filter.bits]
    BY <1>0, <1>1, SizeInFile DEF Section, NumBits
<1>3. CASE m < WordValues
    <2>1. Section(filter).num_bits = m /\ Section(filter).bits = filter.bits
        BY <1>2, <1>3
    <2>2. ReadSize(Section(filter)) = m
        BY <1>0, <2>1, NextPow2OfOne DEF ReadSize
    <2>3. Bytes(m) \in Nat /\ m <= ByteBits * Bytes(m)
        BY <1>0, BytesFacts
    <2>4. ~ Refuses(Section(filter))
        BY <2>1, <2>2, <2>3 DEF Refuses
    <2>5. filter.bits \cap 0..(ByteBits * Bytes(m) - 1) = filter.bits
        BY <1>0, <1>1, <2>3, BloomAssumption
    <2>6. ReadFilter(Section(filter)) = filter
        BY <1>1, <2>1, <2>2, <2>5 DEF ReadFilter
    <2> QED
        BY <1>0, <1>3, <2>4, <2>6 DEF filter
<1>4. CASE m >= WordValues
    <2>1. Section(filter).num_bits = 0
        BY <1>0, <1>2, <1>4
    <2>2. ReadSize(Section(filter)) = 1
        BY <2>1 DEF ReadSize, NextPow2
    <2>3. Refuses(Section(filter))
        BY <2>1, <2>2, BytesFacts DEF Refuses
    <2> QED
        BY <1>4, <2>3 DEF filter
<1> QED
    BY <1>0, <1>3, <1>4

-----------------------------------------------------------------------------
(* Sorted sets.                                                            *)

\* The keys in increasing order, each once: a key has a place for each number of
\* keys below it.
LEMMA SortedFacts ==
    ASSUME NEW keys \in SUBSET Int, IsFiniteSet(keys)
    PROVE  LET sorted == Sorted(keys)
               n      == Cardinality(keys)
           IN  /\ n \in Nat
               /\ sorted \in [1..n -> keys]
               /\ \A i, j \in 1..n : i < j => sorted[i] < sorted[j]
               /\ \A k \in keys : \E i \in 1..n : sorted[i] = k
<1> DEFINE n        == Cardinality(keys)
           below(k) == {other \in keys : other < k}
           rank(k)  == Cardinality(below(k))
           r        == [k \in keys |-> rank(k)]
<1>1. n \in Nat
    BY FS_CardinalityType
<1>2. ASSUME NEW k \in keys
      PROVE  IsFiniteSet(below(k)) /\ rank(k) \in 0..(n - 1)
    <2>1. IsFiniteSet(keys \ {k}) /\ Cardinality(keys \ {k}) = n - 1
        BY FS_RemoveElement
    <2>2. below(k) \in SUBSET (keys \ {k})
        OBVIOUS
    <2>3. IsFiniteSet(below(k)) /\ rank(k) <= n - 1
        BY <2>1, <2>2, FS_Subset
    <2> QED
        BY <1>1, <2>3, FS_CardinalityType
<1>3. ASSUME NEW k \in keys, NEW l \in keys, k < l
      PROVE  rank(k) < rank(l)
    <2>1. below(k) \cup {k} \in SUBSET below(l) /\ k \notin below(k)
        <3>1. \A other \in keys : other \in Int
            OBVIOUS
        <3>2. k \in below(l) /\ k \notin below(k)
            BY <1>3, <3>1
        <3>3. \A other \in below(k) : other \in below(l)
            BY <1>3, <3>1
        <3> QED
            BY <3>2, <3>3
    <2>2. Cardinality(below(k) \cup {k}) = rank(k) + 1
        BY <1>2, <2>1, FS_AddElement
    <2>3. rank(k) + 1 <= rank(l)
        BY <1>2, <2>1, <2>2, FS_Subset
    <2> QED
        BY <1>1, <1>2, <2>3
<1> HIDE DEF rank
<1>4. r \in Injection(keys, 0..(n - 1))
    <2>1. r \in [keys -> 0..(n - 1)]
        BY <1>2
    <2>2. ASSUME NEW k \in keys, NEW l \in keys, r[k] = r[l]
          PROVE  k = l
        <3>1. rank(k) = rank(l)
            BY <2>2
        <3>2. rank(k) \in 0..(n - 1) /\ rank(l) \in 0..(n - 1)
            BY <1>2
        <3>3. ~ k < l
            BY <1>1, <1>3, <3>1, <3>2
        <3>4. ~ l < k
            BY <1>1, <1>3, <3>1, <3>2
        <3> QED
            BY <3>3, <3>4
    <2> QED
        BY <2>1, <2>2 DEF Injection, IsInjective
<1>5. r \in Surjection(keys, 0..(n - 1))
    <2>1. IsFiniteSet(0..(n - 1)) /\ Cardinality(0..(n - 1)) = n
        BY <1>1, FS_Interval
    <2> QED
        BY <1>4, <2>1, FS_Injection
<1>6. ASSUME NEW i \in 1..n
      PROVE  Sorted(keys)[i] \in keys /\ rank(Sorted(keys)[i]) = i - 1
    <2>1. \E k \in keys : r[k] = i - 1
        <3>1. i - 1 \in 0..(n - 1)
            BY <1>1
        <3> QED
            BY <1>5, <3>1 DEF Surjection
    <2>2. \E k \in keys : rank(k) = i - 1
        BY <2>1
    <2>3. Sorted(keys)[i] = CHOOSE k \in keys : rank(k) = i - 1
        BY DEF Sorted, rank
    <2> QED
        BY <2>2, <2>3
<1>7. Sorted(keys) \in [1..n -> keys]
    BY <1>6 DEF Sorted
<1>8. ASSUME NEW i \in 1..n, NEW j \in 1..n, i < j
      PROVE  Sorted(keys)[i] < Sorted(keys)[j]
    <2> DEFINE k == Sorted(keys)[i]
               l == Sorted(keys)[j]
    <2>1. k \in keys /\ l \in keys /\ rank(k) = i - 1 /\ rank(l) = j - 1
        BY <1>6
    <2> HIDE DEF k, l
    <2>2. ~ l < k /\ k # l
        BY <1>1, <1>3, <1>8, <2>1
    <2>3. k < l
        BY <2>1, <2>2
    <2> QED
        BY <2>3 DEF k, l
<1>9. ASSUME NEW k \in keys
      PROVE  \E i \in 1..n : Sorted(keys)[i] = k
    <2> DEFINE i == rank(k) + 1
    <2>1. i \in 1..n /\ i - 1 = rank(k)
        <3>1. rank(k) \in 0..(n - 1)
            BY <1>2
        <3> QED
            BY <1>1, <3>1
    <2> HIDE DEF i
    <2>2. Sorted(keys)[i] \in keys /\ r[Sorted(keys)[i]] = r[k]
        BY <1>6, <2>1
    <2> HIDE DEF r
    <2>3. Sorted(keys)[i] = k
        BY <1>4, <2>2 DEF Injection, IsInjective
    <2> QED
        BY <2>1, <2>3
<1> QED
    BY <1>1, <1>7, <1>8, <1>9

-----------------------------------------------------------------------------
(* The file.                                                               *)

\* The keys of the table in the order of the file.
Keys == Sorted(KeysOf(table))

Count == Cardinality(KeysOf(table))

\* They are in the file, each at the cell of its number.
KeysSorted ==
    /\ Count \in Nat
    /\ Keys \in [1..Count -> Key]
    /\ \A i, j \in 1..Count : i < j => Keys[i] < Keys[j]
    /\ \A i \in 1..Count : table[Keys[i]] # NoEntry
    /\ \A k \in Key : table[k] # NoEntry => \E i \in 1..Count : Keys[i] = k

LEMMA KeysFacts == KeysSorted
<1>1. KeysOf(table) \in SUBSET Key /\ Key \subseteq Int /\ IsFiniteSet(Key)
    BY FileAssumption DEF KeysOf
<1>2. KeysOf(table) \in SUBSET Int /\ IsFiniteSet(KeysOf(table))
    BY <1>1, FS_Subset
<1>3. /\ Count \in Nat
      /\ Keys \in [1..Count -> KeysOf(table)]
      /\ \A i, j \in 1..Count : i < j => Keys[i] < Keys[j]
      /\ \A k \in KeysOf(table) : \E i \in 1..Count : Keys[i] = k
    BY <1>2, SortedFacts DEF Keys, Count
<1> QED
    BY <1>3 DEF KeysSorted, KeysOf

\* An entry comes back as it was written.
LEMMA EntryFacts ==
    ASSUME NEW k
    PROVE  EntryCell(k).key = k /\ EntryIn(EntryCell(k)) = table[k]
<1>1. CASE table[k] = Tombstone
    BY <1>1 DEF EntryCell, EntryIn
<1>2. CASE table[k] # Tombstone
    BY <1>2 DEF EntryCell, EntryIn
<1> QED
    BY <1>1, <1>2

\* What is where in a file.
LEMMA LayoutFacts ==
    /\ Layout # <<>>
    /\ \A i \in 1..Count : Layout[i] = EntryCell(Keys[i])
    /\ Layout[Count + 1] = Section(Filter(KeysOf(table)))
    /\ Layout[Count + 2] = Sparse(Keys)
    /\ Layout[Len(Layout)] = [bloom_offset |-> Count, index_offset |-> Count + 1]
<1> DEFINE data == [i \in 1..Count |-> EntryCell(Keys[i])]
           tail == << Section(Filter(KeysOf(table))), Sparse(Keys),
                      [bloom_offset |-> Count, index_offset |-> Count + 1] >>
           Cells == {data[i] : i \in 1..Count} \cup {tail[i] : i \in 1..3}
<1>1. Count \in Nat /\ DOMAIN Keys = 1..Count
    BY KeysFacts DEF KeysSorted
<1>2. data \in Seq(Cells) /\ Len(data) = Count
    BY <1>1
<1>3. tail \in Seq(Cells) /\ Len(tail) = 3
    OBVIOUS
<1>4. Layout = data \o tail
    BY <1>1, <1>2 DEF Layout, Keys
<1> HIDE DEF data, tail, Cells
<1>5. /\ Len(data \o tail) = Count + 3
      /\ \A i \in 1..Count : (data \o tail)[i] = data[i]
      /\ \A i \in 1..3 : (data \o tail)[Count + i] = tail[i]
    <2>1. /\ Len(data \o tail) = Len(data) + Len(tail)
          /\ \A i \in 1..(Len(data) + Len(tail)) :
                (data \o tail)[i] = IF i <= Len(data) THEN data[i] ELSE tail[i - Len(data)]
        BY <1>2, <1>3, ConcatProperties
    <2>2. \A i \in 1..3 : (data \o tail)[Count + i] = tail[i]
        <3> SUFFICES ASSUME NEW i \in 1..3
                     PROVE  (data \o tail)[Count + i] = tail[i]
            OBVIOUS
        <3>1. Count + i \in 1..(Count + 3) /\ ~ Count + i <= Count /\ Count + i - Count = i
            BY <1>1
        <3> QED
            BY <1>2, <1>3, <2>1, <3>1
    <2>3. \A i \in 1..Count : i \in 1..(Count + 3) /\ i <= Count
        BY <1>1
    <2> QED
        BY <1>2, <1>3, <2>1, <2>2, <2>3
<1>6. Len(Layout) = Count + 3 /\ Layout[Count + 1] = tail[1] /\ Layout[Count + 2] = tail[2]
      /\ Layout[Count + 3] = tail[3]
    <2>1. 1 \in 1..3 /\ 2 \in 1..3 /\ 3 \in 1..3
        OBVIOUS
    <2> QED
        BY <1>4, <1>5, <2>1
<1>7. Layout # <<>>
    BY <1>1, <1>6
<1>8. \A i \in 1..Count : Layout[i] = EntryCell(Keys[i])
    BY <1>4, <1>5 DEF data
<1> QED
    BY <1>6, <1>7, <1>8 DEF tail

\* The points of the index, by the numbers of their entries.
PointsSorted ==
    /\ \E n \in Nat : DOMAIN Sparse(Keys) = 1..n
    /\ \A i \in DOMAIN Sparse(Keys) :
          /\ Sparse(Keys)[i].offset \in 0..(Count - 1)
          /\ Indexed(Sparse(Keys)[i].offset)
          /\ Sparse(Keys)[i].key = Keys[Sparse(Keys)[i].offset + 1]
    /\ \A i, j \in DOMAIN Sparse(Keys) : i < j => Sparse(Keys)[i].offset < Sparse(Keys)[j].offset
    /\ \A n \in 0..(Count - 1) :
          Indexed(n) => \E i \in DOMAIN Sparse(Keys) : Sparse(Keys)[i].offset = n

LEMMA SparseFacts == PointsSorted
<1> DEFINE numbers == {n \in 0..(Count - 1) : Indexed(n)}
           points  == Sorted(numbers)
           sparse  == [i \in DOMAIN points |-> [key |-> Keys[points[i] + 1], offset |-> points[i]]]
<1>1. Count \in Nat /\ Len(Keys) = Count
    BY KeysFacts DEF KeysSorted
<1>2. IsFiniteSet(0..(Count - 1))
    BY <1>1, FS_Interval
<1>3. numbers \in SUBSET Int /\ IsFiniteSet(numbers)
    <2>1. numbers \in SUBSET (0..(Count - 1)) /\ 0..(Count - 1) \subseteq Int
        BY <1>1
    <2> HIDE DEF numbers
    <2>2. IsFiniteSet(numbers)
        BY <1>2, <2>1, FS_Subset
    <2> QED
        BY <2>1, <2>2
<1>4. PICK n \in Nat :
          /\ points \in [1..n -> numbers]
          /\ \A i, j \in 1..n : i < j => points[i] < points[j]
          /\ \A m \in numbers : \E i \in 1..n : points[i] = m
    <2> HIDE DEF numbers
    <2> QED
        BY <1>3, SortedFacts
<1>5. Sparse(Keys) = sparse
    BY <1>1 DEF Sparse
<1> HIDE DEF points
<1>6. DOMAIN sparse = 1..n /\ \A i \in 1..n : sparse[i].offset = points[i] /\ sparse[i].key = Keys[points[i] + 1]
    BY <1>4
<1>7. \A i \in 1..n : points[i] \in 0..(Count - 1) /\ Indexed(points[i])
    BY <1>4
<1> HIDE DEF sparse
<1>8. \A m \in 0..(Count - 1) : Indexed(m) => \E i \in 1..n : sparse[i].offset = m
    <2>1. \A m \in 0..(Count - 1) : Indexed(m) => m \in numbers
        OBVIOUS
    <2> HIDE DEF numbers
    <2> QED
        BY <1>4, <1>6, <2>1
<1>9. \A i \in 1..n : /\ sparse[i].offset \in 0..(Count - 1) /\ Indexed(sparse[i].offset)
                      /\ sparse[i].key = Keys[sparse[i].offset + 1]
    BY <1>6, <1>7
<1>10. \A i, j \in 1..n : i < j => sparse[i].offset < sparse[j].offset
    BY <1>4, <1>6
<1> QED
    BY <1>5, <1>6, <1>8, <1>9, <1>10 DEF PointsSorted

\* The filter of a table hides none of its keys.
LEMMA NoKeyIsHidden ==
    ASSUME hash \in Hashes, NEW k \in Key, table[k] # NoEntry
    PROVE  MayContain(Filter(KeysOf(table)), hash[k])
<1> DEFINE hashes == {hash[l] : l \in KeysOf(table)}
<1>1. hash \in [Key -> Nat] /\ Count \in Nat
    BY FileAssumption, KeysFacts DEF KeysSorted
<1>2. hashes \in SUBSET Nat /\ hash[k] \in hashes
    BY <1>1 DEF KeysOf
<1> HIDE DEF hashes
<1>3. MayContain(AddAll(NewFilter(Count), hashes), hash[k])
    BY <1>1, <1>2, FilterFacts
<1> QED
    BY <1>3 DEF Filter, Count, hashes

\* It is read as it was written, or not at all.
LEMMA FilterReads ==
    ASSUME hash \in Hashes
    PROVE  /\ Refuses(Section(Filter(KeysOf(table)))) => SizeFor(Count) >= WordValues
           /\ ~ Refuses(Section(Filter(KeysOf(table))))
                => ReadFilter(Section(Filter(KeysOf(table)))) = Filter(KeysOf(table))
<1> DEFINE hashes == {hash[l] : l \in KeysOf(table)}
<1>1. hash \in [Key -> Nat] /\ Count \in Nat
    BY FileAssumption, KeysFacts DEF KeysSorted
<1>2. hashes \in SUBSET Nat
    BY <1>1 DEF KeysOf
<1> HIDE DEF hashes
<1>3. Filter(KeysOf(table)) = AddAll(NewFilter(Count), hashes)
    BY DEF Filter, Count, hashes
<1> QED
    BY <1>1, <1>2, <1>3, FilterWrittenAndRead

-----------------------------------------------------------------------------
(* The object and its calls.                                               *)

States == {"build", "load", "open", "search", "scan", "refused"}

\* Nothing has been read, and nothing been asked.
Fresh ==
    /\ index = <<>> /\ bloom = NoFilter /\ bloom_offset = 0
    /\ result = Unset /\ scanned = <<>>

\* What has been read is what was written.
Loaded ==
    IF file = <<>> THEN index = <<>> /\ bloom = NoFilter /\ bloom_offset = 0
    ELSE index = Sparse(Keys) /\ bloom = Filter(KeysOf(table)) /\ bloom_offset = Count

FileInv ==
    /\ hash \in Hashes /\ table \in [Key -> Entry] /\ pc \in States
    /\ pc # "build" => file \in {Layout, <<>>}
    /\ pc \in {"build", "load", "refused"} => Fresh
    /\ pc \in {"open", "search", "scan"} => Loaded
    /\ pc = "refused" => SizeFor(Count) >= WordValues

\* The last point that is not above the key.
LastPoint(k, i) == i \in PointsUpTo(k) /\ \A j \in PointsUpTo(k) : j <= i

\* The entries that a lookup has passed, or left in front, are below the key, and
\* it has not passed more than a stride.
SearchInv ==
    pc = "search" =>
        /\ file # <<>> /\ key \in Key /\ at \in Nat
        /\ \A i \in 1..Count : i <= at => Keys[i] < key
        /\ \E i \in DOMAIN index :
              /\ LastPoint(key, i)
              /\ index[i].offset <= at
              /\ at <= index[i].offset + INDEX_STRIDE

AnswerInv ==
    /\ pc = "open" => result = Unset \/ (key \in Key /\ result = Stored[key])
    /\ pc = "scan" => result = Unset

\* The entries that a scan has read are the first of the file.
ScanInv ==
    /\ \E n \in 0..Count :
          /\ scanned = [i \in 1..n |-> [key |-> Keys[i], entry |-> table[Keys[i]]]]
          /\ pc = "scan" => at = n /\ n <= bloom_offset
    /\ scanned # <<>> => file # <<>>

LookupInv == FileInv /\ SearchInv /\ AnswerInv /\ ScanInv

\* A table to be built, and an object that has read nothing, satisfy it.
LEMMA LookupInvInit == Init => LookupInv
<1> SUFFICES ASSUME Init
             PROVE  LookupInv
    OBVIOUS
<1>1. FileInv
    BY DEF Init, FileInv, States, Fresh
<1>2. SearchInv /\ AnswerInv
    BY DEF Init, SearchInv, AnswerInv
<1>3. ScanInv
    <2>1. 0 \in 0..Count
        BY KeysFacts DEF KeysSorted
    <2>2. scanned = [i \in 1..0 |-> [key |-> Keys[i], entry |-> table[Keys[i]]]]
        BY DEF Init
    <2>3. pc = "build" /\ scanned = <<>>
        BY DEF Init
    <2> QED
        BY <2>1, <2>2, <2>3 DEF ScanInv
<1> QED
    BY <1>1, <1>2, <1>3 DEF LookupInv

\* The cell at an offset in the data is the entry of that number.
LEMMA CellFacts ==
    ASSUME file = Layout, NEW n \in 0..(Count - 1)
    PROVE  Cell(n).key = Keys[n + 1] /\ EntryIn(Cell(n)) = table[Keys[n + 1]]
<1>1. n + 1 \in 1..Count
    BY KeysFacts DEF KeysSorted
<1>2. Cell(n) = EntryCell(Keys[n + 1])
    BY <1>1, LayoutFacts DEF Cell
<1> QED
    BY <1>2, EntryFacts

\* load_meta() reads what build() wrote, or refuses it.
LEMMA FileStep ==
    ASSUME FileInv, [Next]_vars
    PROVE  FileInv'
<1> USE DEF object, call
<1>1. CASE Build
    <2>1. UNCHANGED <<hash, table>>
        BY <1>1 DEF Build
    <2>2. UNCHANGED Layout
        BY <2>1 DEF Layout, KeysOf, Filter, NewFilter, AddAll, EntryCell, Sparse, Sorted
    <2> QED
        BY <1>1, <2>2 DEF Build, FileInv, Fresh, States
<1>2. CASE ~ Build
    <2>1. UNCHANGED <<hash, table, file>>
        BY <1>2
        DEF Next, vars, LoadNothing, LoadRefused, LoadMeta, Lookup, Search, ScanAll, ScanNext,
            ScanEnd
    <2>2. UNCHANGED <<Layout, Keys, Count, KeysOf(table), Filter(KeysOf(table)), Sparse(Keys)>>
        BY <2>1
        DEF Layout, Keys, Count, KeysOf, Filter, NewFilter, AddAll, EntryCell, Sparse, Sorted
    <2>3. CASE LoadNothing
        BY <2>1, <2>2, <2>3 DEF LoadNothing, FileInv, Fresh, Loaded, States
    <2>4. CASE LoadRefused
        <3>1. file = Layout
            BY <2>4 DEF LoadRefused, FileInv
        <3>2. Footer.bloom_offset = Count
            BY <3>1, LayoutFacts DEF Footer
        <3>3. Cell(Footer.bloom_offset) = Section(Filter(KeysOf(table)))
            BY <3>1, <3>2, LayoutFacts DEF Cell
        <3>4. SizeFor(Count) >= WordValues
            BY <2>4, <3>3, FilterReads DEF LoadRefused, FileInv
        <3> QED
            BY <2>1, <2>2, <2>4, <3>4 DEF LoadRefused, FileInv, Fresh, States
    <2>5. CASE LoadMeta
        <3>1. file = Layout
            BY <2>5 DEF LoadMeta, FileInv
        <3>2. Footer.bloom_offset = Count /\ Footer.index_offset = Count + 1
            BY <3>1, LayoutFacts DEF Footer
        <3>3. Cell(Footer.bloom_offset) = Section(Filter(KeysOf(table)))
            BY <3>1, <3>2, LayoutFacts DEF Cell
        <3>4. Cell(Footer.index_offset) = Sparse(Keys)
            <4>1. Count + 1 + 1 = Count + 2
                BY KeysFacts DEF KeysSorted
            <4> QED
                BY <3>1, <3>2, <4>1, LayoutFacts DEF Cell
        <3>5. ReadFilter(Cell(Footer.bloom_offset)) = Filter(KeysOf(table))
            BY <2>5, <3>3, FilterReads DEF LoadMeta, FileInv
        <3>6. Loaded'
            BY <2>1, <2>2, <2>5, <3>2, <3>4, <3>5 DEF LoadMeta, Loaded
        <3> QED
            BY <2>1, <2>2, <2>5, <3>6 DEF LoadMeta, FileInv, States
    <2>6. CASE UNCHANGED vars
        BY <2>2, <2>6 DEF vars, FileInv, Fresh, Loaded
    <2>7. CASE (\E k \in Key : Lookup(k)) \/ Search \/ ScanAll \/ ScanNext \/ ScanEnd
        <3>1. /\ UNCHANGED <<index, bloom, bloom_offset>>
              /\ pc \in {"open", "search", "scan"} /\ pc' \in {"open", "search", "scan"}
            BY <2>7 DEF Lookup, Search, Answer, ScanAll, ScanNext, ScanEnd
        <3>2. Loaded'
            BY <2>1, <2>2, <3>1 DEF FileInv, Loaded
        <3> QED
            BY <2>1, <2>2, <3>1, <3>2 DEF FileInv, States
    <2> QED
        BY <1>2, <2>3, <2>4, <2>5, <2>6, <2>7 DEF Next
<1> QED
    BY <1>1, <1>2

\* What a lookup finds in the index.
LEMMA LastPointExists ==
    ASSUME FileInv, Loaded, file # <<>>, NEW k \in Key, PointsUpTo(k) # {}
    PROVE  \E i \in PointsUpTo(k) : \A j \in PointsUpTo(k) : j <= i
<1>1. index = Sparse(Keys)
    BY DEF Loaded
<1>2. PICK n \in Nat : DOMAIN index = 1..n
    BY <1>1, SparseFacts DEF PointsSorted
<1>3. PointsUpTo(k) \subseteq 1..n
    BY <1>2 DEF PointsUpTo
<1> DEFINE S == {n - i : i \in PointsUpTo(k)}
<1>4. S \in SUBSET Nat /\ S # {}
    BY <1>3
<1> HIDE DEF S
<1>5. PICK least \in S : \A m \in S : least <= m
    BY <1>4, SmallestNumber
<1>6. PICK i \in PointsUpTo(k) : least = n - i
    BY <1>5 DEF S
<1>7. ASSUME NEW j \in PointsUpTo(k)
      PROVE  j <= i
    <2>1. n - j \in S
        BY DEF S
    <2>2. n - i <= n - j
        BY <1>5, <1>6, <2>1
    <2> QED
        BY <1>2, <1>3, <2>2
<1> QED
    BY <1>7

\* A key in front of the first point is not in the table.
LEMMA NoPointNoKey ==
    ASSUME FileInv, Loaded, file # <<>>, NEW k \in Key, PointsUpTo(k) = {}
    PROVE  table[k] = NoEntry
<1> SUFFICES ASSUME table[k] # NoEntry
             PROVE  FALSE
    OBVIOUS
<1>1. index = Sparse(Keys)
    BY DEF Loaded
<1>2. PICK p \in 1..Count : Keys[p] = k
    BY KeysFacts DEF KeysSorted
<1>3. Count \in Nat /\ 0 \in 0..(Count - 1) /\ Indexed(0) /\ 1 \in 1..Count
    BY <1>2, KeysFacts, FileAssumption DEF KeysSorted, Indexed
<1>4. PICK i \in DOMAIN index : index[i].offset = 0
    BY <1>1, <1>3, SparseFacts DEF PointsSorted
<1>5. index[i].key = Keys[1]
    BY <1>1, <1>4, SparseFacts DEF PointsSorted
<1>6. Keys[1] <= k
    <2>1. Keys[1] \in Int /\ Keys[p] \in Int
        BY <1>2, <1>3, KeysFacts, FileAssumption DEF KeysSorted
    <2>2. p = 1 \/ Keys[1] < Keys[p]
        BY <1>2, <1>3, KeysFacts DEF KeysSorted
    <2> QED
        BY <1>2, <2>1, <2>2
<1> QED
    BY <1>4, <1>5, <1>6 DEF PointsUpTo

\* The search begins at a point: all in front of it is below the key.
LEMMA SearchBegins ==
    ASSUME FileInv, NEW k \in Key, Lookup(k)
    PROVE  SearchInv' /\ AnswerInv'
<1>0. pc = "open" /\ key' = k /\ UNCHANGED <<hash, table, file, index, bloom, bloom_offset>>
    BY DEF Lookup, object
<1>1. Loaded
    BY <1>0 DEF FileInv
<1>2. CASE MayContain(bloom, hash[k]) /\ PointsUpTo(k) # {}
    <2>1. pc' = "search"
        BY <1>2 DEF Lookup
    <2>2. file # <<>>
        BY <1>1, <1>2 DEF Loaded, PointsUpTo
    <2>3. PICK i : LastPoint(k, i) /\ at' = index[i].offset
        BY <1>1, <1>2, <2>2, LastPointExists DEF LastPoint, Lookup
    <2>4. i \in DOMAIN index /\ index[i].key <= k /\ index = Sparse(Keys)
        BY <1>1, <2>2, <2>3 DEF LastPoint, PointsUpTo, Loaded
    <2>5. index[i].offset \in 0..(Count - 1) /\ index[i].key = Keys[index[i].offset + 1]
        BY <2>4, SparseFacts DEF PointsSorted
    <2>6. ASSUME NEW n \in 1..Count, n <= index[i].offset
          PROVE  Keys[n] < k
        <3>1. index[i].offset + 1 \in 1..Count /\ n < index[i].offset + 1
            BY <2>5, <2>6, KeysFacts DEF KeysSorted
        <3>2. Keys[n] < Keys[index[i].offset + 1]
            BY <3>1, KeysFacts DEF KeysSorted
        <3>3. Keys[n] \in Int /\ Keys[index[i].offset + 1] \in Int /\ k \in Int
            BY <3>1, KeysFacts, FileAssumption DEF KeysSorted
        <3> QED
            BY <2>4, <2>5, <3>2, <3>3
    <2>7. UNCHANGED <<Keys, Count>>
        BY <1>0 DEF Keys, Count, KeysOf, Sorted
    <2>8. LastPoint(k, i)'
        BY <1>0, <2>3 DEF LastPoint, PointsUpTo
    <2>9. index[i].offset \in Nat /\ index[i].offset <= index[i].offset + INDEX_STRIDE
        BY <2>5, FileAssumption
    <2>10. SearchInv'
        BY <1>0, <2>1, <2>2, <2>3, <2>4, <2>6, <2>7, <2>8, <2>9 DEF SearchInv
    <2> QED
        BY <2>1, <2>10 DEF AnswerInv
<1>3. CASE ~ (MayContain(bloom, hash[k]) /\ PointsUpTo(k) # {})
    <2>1. pc' = "open" /\ result' = NoEntry
        BY <1>3 DEF Lookup, Answer
    <2>2. Stored[k] = NoEntry
        <3>1. CASE file = <<>>
            BY <3>1 DEF Stored
        <3>2. CASE file # <<>>
            <4>1. bloom = Filter(KeysOf(table)) /\ hash \in Hashes
                BY <1>1, <3>2 DEF Loaded, FileInv
            <4>2. table[k] = NoEntry
                BY <1>1, <1>3, <3>2, <4>1, NoKeyIsHidden, NoPointNoKey
            <4> QED
                BY <3>2, <4>2 DEF Stored
        <3> QED
            BY <3>1, <3>2
    <2>3. UNCHANGED Stored
        BY <1>0 DEF Stored
    <2> QED
        BY <1>0, <2>1, <2>2, <2>3 DEF SearchInv, AnswerInv
<1> QED
    BY <1>2, <1>3

\* The entry that a stride leads to from a point has a point too.
LEMMA NextPoint ==
    ASSUME NEW n \in Nat, Indexed(n)
    PROVE  Indexed(n + INDEX_STRIDE)
<1>1. INDEX_STRIDE \in Nat \ {0}
    BY FileAssumption
<1>2. PICK q \in Nat : n = INDEX_STRIDE * q
    BY <1>1, MultipleOf DEF Indexed
<1>3. n + INDEX_STRIDE = INDEX_STRIDE * (q + 1)
    BY <1>1, <1>2
<1>4. (INDEX_STRIDE * (q + 1)) % INDEX_STRIDE = 0
    <2>1. q + 1 \in Nat
        OBVIOUS
    <2> QED
        BY <1>1, <2>1, Multiples
<1> QED
    BY <1>3, <1>4 DEF Indexed

\* One entry of the search: the answer is that of the table, and a search that
\* goes on does so within the stride of its point.
LEMMA SearchStep ==
    ASSUME FileInv, SearchInv, Search
    PROVE  SearchInv' /\ AnswerInv'
<1>0. /\ pc = "search" /\ at' = at + 1
      /\ UNCHANGED <<hash, table, file, index, bloom, bloom_offset, key, scanned>>
    BY DEF Search, object
<1>1. /\ file = Layout /\ file # <<>> /\ key \in Key /\ at \in Nat
      /\ index = Sparse(Keys) /\ bloom_offset = Count
      /\ \A i \in 1..Count : i <= at => Keys[i] < key
    BY <1>0 DEF FileInv, Loaded, SearchInv
<1>2. PICK i \in DOMAIN index :
          /\ LastPoint(key, i)
          /\ index[i].offset <= at
          /\ at <= index[i].offset + INDEX_STRIDE
    BY <1>0 DEF SearchInv
<1>3. Count \in Nat /\ key \in Int /\ \A n \in 1..Count : Keys[n] \in Int
    BY <1>1, KeysFacts, FileAssumption DEF KeysSorted
<1>4. UNCHANGED <<Keys, Count, Stored>>
    BY <1>0 DEF Keys, Count, KeysOf, Sorted, Stored
<1>5. Stored[key] = table[key]
    BY <1>1 DEF Stored
<1>6. ASSUME \A n \in 1..Count : Keys[n] # key
      PROVE  table[key] = NoEntry
    BY <1>1, <1>6, KeysFacts DEF KeysSorted
<1>7. CASE at >= bloom_offset
    <2>1. pc' = "open" /\ result' = NoEntry
        BY <1>7 DEF Search, Answer
    <2>2. \A n \in 1..Count : Keys[n] < key
        BY <1>1, <1>3, <1>7
    <2>3. table[key] = NoEntry
        BY <1>3, <1>6, <2>2
    <2> QED
        BY <1>0, <1>1, <1>4, <1>5, <2>1, <2>3 DEF SearchInv, AnswerInv
<1>8. CASE ~ at >= bloom_offset
    <2>1. at \in 0..(Count - 1) /\ at + 1 \in 1..Count
        BY <1>1, <1>3, <1>8
    <2>2. Cell(at).key = Keys[at + 1] /\ EntryIn(Cell(at)) = table[Keys[at + 1]]
        BY <1>1, <2>1, CellFacts
    <2>3. CASE Cell(at).key = key
        <3>1. pc' = "open" /\ result' = EntryIn(Cell(at))
            BY <1>8, <2>3 DEF Search, Answer
        <3> QED
            BY <1>0, <1>1, <1>4, <1>5, <2>2, <2>3, <3>1 DEF SearchInv, AnswerInv
    <2>4. CASE Cell(at).key # key /\ Overshot(Cell(at))
        <3>1. pc' = "open" /\ result' = NoEntry
            BY <1>8, <2>4 DEF Search, Answer
        <3>2. Keys[at + 1] > key
            BY <2>2, <2>4 DEF Overshot
        <3>3. ASSUME NEW n \in 1..Count
              PROVE  Keys[n] # key
            <4>1. n <= at \/ n = at + 1 \/ at + 1 < n
                BY <1>1
            <4>2. at + 1 < n => Keys[at + 1] < Keys[n]
                BY <2>1, KeysFacts DEF KeysSorted
            <4> QED
                BY <1>1, <1>3, <2>1, <3>2, <4>1, <4>2
        <3>4. table[key] = NoEntry
            BY <1>6, <3>3
        <3> QED
            BY <1>0, <1>1, <1>4, <1>5, <3>1, <3>4 DEF SearchInv, AnswerInv
    <2>5. CASE Cell(at).key # key /\ ~ Overshot(Cell(at))
        <3>1. pc' = "search" /\ UNCHANGED result
            BY <1>0, <1>8, <2>5 DEF Search
        <3>2. Keys[at + 1] < key
            BY <1>3, <2>1, <2>2, <2>5 DEF Overshot
        <3>3. \A n \in 1..Count : n <= at + 1 => Keys[n] < key
            BY <1>1, <1>3, <3>2
        <3>4. index[i].offset \in Nat /\ INDEX_STRIDE \in Nat \ {0}
            BY <1>1, <1>3, SparseFacts, FileAssumption DEF PointsSorted
        <3>5. at # index[i].offset + INDEX_STRIDE
            <4> SUFFICES ASSUME at = index[i].offset + INDEX_STRIDE
                         PROVE  FALSE
                OBVIOUS
            <4>1. Indexed(at)
                BY <1>1, <3>4, SparseFacts, NextPoint DEF PointsSorted
            <4>2. PICK j \in DOMAIN index : index[j].offset = at
                BY <1>1, <2>1, <4>1, SparseFacts DEF PointsSorted
            <4>3. index[j].key = Keys[at + 1]
                BY <1>1, <4>2, SparseFacts DEF PointsSorted
            <4>4. j \in PointsUpTo(key)
                BY <1>3, <2>1, <3>2, <4>3 DEF PointsUpTo
            <4>5. j <= i
                BY <1>2, <4>4 DEF LastPoint
            <4>6. i \in Int /\ j \in Int
                BY <1>1, SparseFacts DEF PointsSorted
            <4>7. index[j].offset <= index[i].offset
                <5>1. j < i => index[j].offset < index[i].offset
                    BY <1>1, <4>2, SparseFacts DEF PointsSorted
                <5>2. index[j].offset \in Nat
                    BY <1>1, <4>2, SparseFacts DEF PointsSorted
                <5>3. j < i \/ j = i
                    BY <4>5, <4>6
                <5> QED
                    BY <3>4, <5>1, <5>2, <5>3
            <4> QED
                BY <3>4, <4>2, <4>7
        <3>6. /\ index[i].offset <= at + 1
              /\ at + 1 <= index[i].offset + INDEX_STRIDE
            BY <1>1, <1>2, <3>4, <3>5
        <3>7. LastPoint(key, i)'
            BY <1>0, <1>2 DEF LastPoint, PointsUpTo
        <3>8. SearchInv'
            BY <1>0, <1>1, <1>2, <1>4, <3>3, <3>6, <3>7 DEF SearchInv
        <3> QED
            BY <3>1, <3>8 DEF AnswerInv
    <2> QED
        BY <2>3, <2>4, <2>5
<1> QED
    BY <1>7, <1>8

\* The other steps answer nothing.
LEMMA SearchInvStep ==
    ASSUME FileInv, SearchInv, AnswerInv, [Next]_vars
    PROVE  SearchInv' /\ AnswerInv'
<1> USE DEF object, call
<1>1. CASE \E k \in Key : Lookup(k)
    BY <1>1, SearchBegins
<1>2. CASE Search
    BY <1>2, SearchStep
<1>3. CASE Build \/ LoadNothing \/ LoadRefused \/ LoadMeta \/ ScanAll \/ ScanNext \/ ScanEnd
    <2>1. pc' # "search" /\ (pc' \in {"open", "scan"} => result' = Unset)
        BY <1>3
        DEF FileInv, Fresh, AnswerInv, Build, LoadNothing, LoadRefused, LoadMeta, ScanAll, ScanNext,
            ScanEnd
    <2> QED
        BY <2>1 DEF SearchInv, AnswerInv
<1>4. CASE UNCHANGED vars
    <2>1. UNCHANGED <<Keys, Count, Stored>>
        BY <1>4 DEF vars, Keys, Count, KeysOf, Sorted, Stored
    <2> QED
        BY <1>4, <2>1 DEF vars, SearchInv, AnswerInv, LastPoint, PointsUpTo
<1> QED
    BY <1>1, <1>2, <1>3, <1>4 DEF Next

\* A scan reads the next entry of the file.
LEMMA ScanInvStep ==
    ASSUME FileInv, AnswerInv, ScanInv, [Next]_vars
    PROVE  ScanInv'
<1> USE DEF object, call
<1> DEFINE First(n) == [i \in 1..n |-> [key |-> Keys[i], entry |-> table[Keys[i]]]]
<1>1. PICK n \in 0..Count :
          /\ scanned = First(n)
          /\ pc = "scan" => at = n /\ n <= bloom_offset
    BY DEF ScanInv
<1>2. Count \in Nat
    BY KeysFacts DEF KeysSorted
<1>3. UNCHANGED <<hash, table>>
    BY DEF Next, vars, Build, LoadNothing, LoadRefused, LoadMeta, Lookup, Search, ScanAll,
           ScanNext, ScanEnd
<1>4. UNCHANGED <<Keys, Count>>
    BY <1>3 DEF Keys, Count, KeysOf, Sorted
<1>5. ASSUME NEW m \in 0..Count, scanned' = First(m), scanned' # <<>> => file' # <<>>,
             pc' = "scan" => at' = m /\ m <= bloom_offset'
      PROVE  ScanInv'
    BY <1>3, <1>4, <1>5 DEF ScanInv
<1>6. First(0) = <<>> /\ 0 \in 0..Count
    BY <1>2
<1>7. CASE Build \/ LoadNothing \/ LoadRefused \/ LoadMeta
    <2>1. scanned' = <<>> /\ pc' \in {"load", "open", "refused"}
        BY <1>7 DEF FileInv, Fresh, Build, LoadNothing, LoadRefused, LoadMeta
    <2> QED
        BY <1>5, <1>6, <2>1
<1>8. CASE ScanAll
    <2>1. /\ pc = "open" /\ pc' = "scan" /\ at' = 0 /\ scanned' = <<>>
          /\ bloom_offset' = bloom_offset
        BY <1>8 DEF ScanAll
    <2>2. 0 <= bloom_offset
        BY <1>2, <2>1 DEF FileInv, Loaded
    <2> QED
        BY <1>5, <1>6, <2>1, <2>2
<1>9. CASE ScanNext
    <2>1. /\ pc = "scan" /\ pc' = "scan" /\ at = n /\ at' = n + 1 /\ n < bloom_offset
          /\ UNCHANGED <<file, bloom_offset>>
          /\ scanned' = Append(scanned, [key |-> Cell(at).key, entry |-> EntryIn(Cell(at))])
        BY <1>1, <1>9 DEF ScanNext
    <2>2. file = Layout /\ file # <<>> /\ bloom_offset = Count
        BY <1>2, <2>1 DEF FileInv, Loaded
    <2>3. n \in 0..(Count - 1) /\ n + 1 \in 0..Count
        BY <1>2, <2>1, <2>2
    <2>4. scanned' = Append(First(n), [key |-> Keys[n + 1], entry |-> table[Keys[n + 1]]])
        BY <1>1, <2>1, <2>2, <2>3, CellFacts
    <2>5. Append(First(n), [key |-> Keys[n + 1], entry |-> table[Keys[n + 1]]]) = First(n + 1)
        BY <2>3
    <2>6. n + 1 <= bloom_offset'
        BY <2>1, <2>2, <2>3
    <2> QED
        BY <1>5, <2>1, <2>2, <2>3, <2>4, <2>5, <2>6
<1>10. CASE ScanEnd
    BY <1>1, <1>5, <1>10 DEF ScanEnd, ScanInv
<1>11. CASE (\E k \in Key : Lookup(k)) \/ Search
    <2>1. pc' \in {"open", "search"} /\ UNCHANGED <<file, scanned>>
        BY <1>11 DEF Lookup, Search, Answer
    <2> QED
        BY <1>1, <1>5, <2>1 DEF ScanInv
<1>12. CASE UNCHANGED vars
    BY <1>1, <1>5, <1>12 DEF vars, ScanInv
<1> QED
    BY <1>7, <1>8, <1>9, <1>10, <1>11, <1>12 DEF Next

-----------------------------------------------------------------------------
(* What the engine relies on.                                              *)

LEMMA LookupInvAlways == Spec => []LookupInv
<1>1. LookupInv /\ [Next]_vars => LookupInv'
    BY FileStep, SearchInvStep, ScanInvStep DEF LookupInv
<1> QED
    BY LookupInvInit, <1>1, PTL DEF Spec

\* lookup() answers as the map that build() was given, for all tables, whatever
\* the hash function, the size of the filter and the stride of the index
\* (sstable.cpp): the filter hides no key, and the search passes none.
THEOREM LookupsAgree == Spec => []LookupAgrees
<1>1. LookupInv => LookupAgrees
    BY DEF LookupInv, AnswerInv, LookupAgrees
<1> QED
    BY LookupInvAlways, <1>1, PTL

\* A scan that is over has read the file to its end.
LEMMA ScanReachesEnd ==
    ASSUME FileInv, ScanInv, ScanEnd
    PROVE  /\ Stored' = Stored /\ scanned' = scanned
           /\ KeysOf(Stored) = {Keys[i] : i \in 1..Len(scanned)}
           /\ Len(scanned) \in 0..Count
           /\ scanned = [i \in 1..Len(scanned) |-> [key |-> Keys[i], entry |-> Stored[Keys[i]]]]
<1>1. PICK n \in 0..Count :
          /\ scanned = [i \in 1..n |-> [key |-> Keys[i], entry |-> table[Keys[i]]]]
          /\ pc = "scan" => at = n /\ n <= bloom_offset
    BY DEF ScanInv
<1>2. Count \in Nat /\ KeysOf(table) = {Keys[i] : i \in 1..Count}
    BY KeysFacts DEF KeysSorted, KeysOf
<1>3. Len(scanned) = n
    BY <1>1, <1>2
<1>4. UNCHANGED <<table, file, scanned>> /\ Loaded /\ n >= bloom_offset
    BY <1>1 DEF ScanEnd, FileInv, object, call
<1>5. Stored' = Stored
    BY <1>4 DEF Stored
<1>6. CASE file = <<>>
    <2>1. n = 0
        BY <1>1, <1>6 DEF ScanInv
    <2>2. KeysOf(Stored) = {}
        BY <1>6 DEF Stored, KeysOf
    <2>3. scanned = [i \in 1..n |-> [key |-> Keys[i], entry |-> Stored[Keys[i]]]]
        BY <1>1, <2>1
    <2> QED
        BY <1>3, <1>4, <1>5, <2>1, <2>2, <2>3
<1>7. CASE file # <<>>
    <2>1. n = Count /\ Stored = table
        BY <1>2, <1>4, <1>7 DEF Loaded, Stored
    <2> QED
        BY <1>1, <1>2, <1>3, <1>4, <1>5, <2>1
<1> QED
    BY <1>6, <1>7

\* A scan_all() that returns has read every entry of the map, each once and in key
\* order, and nothing only when there was nothing (sstable.cpp, scan_all): a
\* compaction deletes the files it has scanned.
THEOREM ScansAgree == Spec => ScanAgrees
<1>1. LookupInv /\ [Next]_vars => [(pc = "scan" /\ pc' # "scan") => IsScanOf(scanned', Stored')]_vars
    <2> SUFFICES ASSUME LookupInv, Next, pc = "scan", pc' # "scan"
                 PROVE  IsScanOf(scanned', Stored')
        OBVIOUS
    <2>1. ScanEnd
        BY DEF Next, Build, LoadNothing, LoadRefused, LoadMeta, Lookup, Search, ScanAll, ScanNext
    <2>2. IsScanOf(scanned, Stored)
        <3> DEFINE n == Len(scanned)
        <3>1. /\ KeysOf(Stored) = {Keys[i] : i \in 1..n} /\ n \in 0..Count
              /\ scanned = [i \in 1..n |-> [key |-> Keys[i], entry |-> Stored[Keys[i]]]]
            BY <2>1, ScanReachesEnd DEF LookupInv
        <3> HIDE DEF n
        <3>2. /\ DOMAIN scanned = 1..n
              /\ \A i \in 1..n : scanned[i].key = Keys[i] /\ scanned[i].entry = Stored[Keys[i]]
            BY <3>1
        <3>3. \A i, j \in DOMAIN scanned : i < j => scanned[i].key < scanned[j].key
            BY <3>1, <3>2, KeysFacts DEF KeysSorted
        <3>4. {scanned[i].key : i \in DOMAIN scanned} = KeysOf(Stored)
            BY <3>1, <3>2
        <3> QED
            BY <3>2, <3>3, <3>4 DEF IsScanOf
    <2> QED
        BY <2>1, <2>2, ScanReachesEnd DEF LookupInv
<1> QED
    BY LookupInvAlways, <1>1, PTL DEF Spec, ScanAgrees

\* The filter comes back from the file as it was written: only a size that does
\* not fit into its field is refused (bloom.cpp, num_bits in 32 bits).
THEOREM FiltersReadBack == Spec => []FilterReadsBack
<1>1. LookupInv => FilterReadsBack
    BY DEF LookupInv, FileInv, Loaded, Count, FilterReadsBack
<1> QED
    BY LookupInvAlways, <1>1, PTL

\* A lookup reads the entries of one stride and at most one more.
THEOREM LookupsAreShort == Spec => []LookupIsShort
<1>1. LookupInv => LookupIsShort
    <2> SUFFICES ASSUME LookupInv, pc = "search"
                 PROVE  \E i \in PointsUpTo(key) : at - index[i].offset <= INDEX_STRIDE
        BY DEF LookupIsShort
    <2>1. index = Sparse(Keys) /\ at \in Nat
        BY DEF LookupInv, SearchInv, FileInv, Loaded
    <2>2. PICK i \in DOMAIN index :
              LastPoint(key, i) /\ at <= index[i].offset + INDEX_STRIDE
        BY DEF LookupInv, SearchInv
    <2>3. index[i].offset \in Int /\ INDEX_STRIDE \in Nat
        BY <2>1, <2>2, SparseFacts, FileAssumption DEF PointsSorted
    <2> QED
        BY <2>1, <2>2, <2>3 DEF LastPoint
<1> QED
    BY LookupInvAlways, <1>1, PTL
=============================================================================
