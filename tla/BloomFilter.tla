---------------------------- MODULE BloomFilter ----------------------------
(***************************************************************************)
(* The filter inside an SSTable: a set of bits, K probes per key, a size   *)
(* that is a power of two and is written to the file in 32 bits.  A key is *)
(* given by its hash, a natural number.                                    *)
(***************************************************************************)
EXTENDS Integers

CONSTANTS
    K,              \* probes per key
    BitsPerKey,     \* what FPR asks for: ln(1 / FPR) / (ln 2)^2, rounded up
    MinBits,        \* the smallest size (64)
    ByteBits,       \* 8
    WordValues      \* the sizes that the file can tell apart (2^32)

\* Nothing divides a power of two but 1 and even numbers.
IsPow2(p) == p \in Nat \ {0} /\ \A d \in 2..p : p % d = 0 => d % 2 = 0

ASSUME BloomAssumption ==
    /\ {K, BitsPerKey, MinBits, ByteBits, WordValues} \subseteq Nat \ {0}
    /\ IsPow2(MinBits) /\ IsPow2(WordValues)

AtLeast(n, m) == IF n >= m THEN n ELSE m

\* The smallest power of two that is not below v: the only one below 2 * v.
NextPow2(v) == IF v = 0 THEN 1 ELSE CHOOSE p \in v..(2 * v - 1) : IsPow2(p)

\* Mutant: the size is not rounded up.
SizeForExact(n) == AtLeast(BitsPerKey * n, MinBits)

\* m_ for n keys.
SizeFor(n) == AtLeast(NextPow2(BitsPerKey * n), MinBits)

NewFilter(n) == [m |-> SizeFor(n), bits |-> {}]

\* fnv1a_b is fnv1a_a with the lowest bit set: it has the same constants.
Odd(h) == IF h % 2 = 0 THEN h + 1 ELSE h

\* m_ divides 2^64, so that the wrapping of the sum makes no difference.
Probes(h, m) == {(h + i * Odd(h)) % m : i \in 0..(K - 1)}

\* add(), for each of the hashes.
AddAll(filter, hashes) ==
    [filter EXCEPT !.bits = @ \cup UNION {Probes(h, filter.m) : h \in hashes}]

MayContain(filter, h) == Probes(h, filter.m) \subseteq filter.bits

-----------------------------------------------------------------------------
(* The section of the file: [num_bits:4][bytes].                           *)

Bytes(bits) == (bits + ByteBits - 1) \div ByteBits

\* num_bits() casts to uint32_t.
NumBits(filter) == filter.m % WordValues

Section(filter) == [num_bits |-> NumBits(filter), bits |-> filter.bits]

ReadSize(section) == NextPow2(section.num_bits)

\* The constructor that reads throws: the bytes do not reach up to the size.
Refuses(section) == Bytes(ReadSize(section)) > Bytes(section.num_bits)

ReadFilter(section) ==
    [m    |-> ReadSize(section),
     bits |-> section.bits \cap 0..(ByteBits * Bytes(ReadSize(section)) - 1)]
=============================================================================
