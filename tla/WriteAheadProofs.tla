--------------------------- MODULE WriteAheadProofs ---------------------------
(***************************************************************************)
(* Proofs about WriteAhead and MemTable, for every width of a length, all  *)
(* strings that fit one and a log of any number of records and crashes:    *)
(* bytes_ is the size of the table, and the reader of wal.cpp finds in the *)
(* bytes what LsmTables says a replay may find.                            *)
(*                                                                         *)
(* The provers know no law of sums, powers or digits; the first sections   *)
(* have those that are needed, from smallest counterexamples.              *)
(***************************************************************************)
EXTENDS WriteAhead, FiniteSetTheorems, SequenceTheorems, TLAPS

-----------------------------------------------------------------------------
(* Smallest elements, for induction.                                       *)

\* Of some subsets of a finite set one contains no other.
LEMMA SmallestSubset ==
    ASSUME NEW S, IsFiniteSet(S), NEW C \in SUBSET SUBSET S, C # {}
    PROVE  \E m \in C : \A c \in C : c \subseteq m => c = m
<1>1. C \subseteq FiniteSubsetsOf(S)
    BY FS_Subset DEF FiniteSubsetsOf
<1>2. PICK m \in C : \A c \in C : <<c, m>> \notin StrictSubsetOrdering(S)
    BY <1>1, FS_StrictSubsetOrderingWellFounded, WFMin
<1> QED
    BY <1>2 DEF StrictSubsetOrdering

\* Of some numbers one is the smallest.
LEMMA SmallestNumber ==
    ASSUME NEW S \in SUBSET Nat, S # {}
    PROVE  \E i \in S : \A j \in S : i <= j
<1> PICK top \in S : TRUE
    OBVIOUS
<1> DEFINE bounds == 1..top
           below == {1..i : i \in {j \in S : j <= top}}
<1>1. IsFiniteSet(bounds)
    BY FS_Interval
<1>2. below \in SUBSET SUBSET bounds /\ below # {}
    OBVIOUS
<1> HIDE DEF bounds, below
<1>3. PICK least \in below : \A b \in below : b \subseteq least => b = least
    BY <1>1, <1>2, SmallestSubset
<1> USE DEF below
<1>4. PICK i \in S : i <= top /\ least = 1..i
    OBVIOUS
<1>5. ASSUME NEW j \in S, j < i
      PROVE  FALSE
    <2>1. 1..j \in below /\ 1..j \subseteq 1..i /\ i \in 1..i /\ i \notin 1..j
        BY <1>4, <1>5
    <2> QED
        BY <1>3, <1>4, <2>1
<1> QED
    BY <1>5

-----------------------------------------------------------------------------
(* Sums over finite sets.                                                  *)

\* The element that a fold takes out of a set.
Taken(s) == CHOOSE x \in s : TRUE

\* g has the sums of f over some sets, one from the other as a fold has them.
Sums(f, sets, g) ==
    g = [s \in sets |-> IF s = {} THEN 0 ELSE f[Taken(s)] + g[s \ {Taken(s)}]]

\* A fold is defined by the function that has all of them.
LEMMA SumIsFold ==
    ASSUME NEW S, NEW f
    PROVE  SumFunctionOnSet(f, S) = (CHOOSE g : Sums(f, SUBSET S, g))[S]
BY DEF SumFunctionOnSet, FoldFunctionOnSet, MapThenFoldSet, Sums, Taken

\* Every finite set has such sums, for all its subsets at once.
LEMMA SumsExist ==
    ASSUME NEW S, IsFiniteSet(S), NEW f
    PROVE  \E g : Sums(f, SUBSET S, g)
<1> DEFINE UpTo(n) == {s \in SUBSET S : Cardinality(s) <= n}
           bad == {n \in Nat : ~ \E g : Sums(f, UpTo(n), g)}
<1>1. \A s \in SUBSET S : /\ IsFiniteSet(s) /\ Cardinality(s) \in Nat
                          /\ Cardinality(s) <= Cardinality(S)
    BY FS_Subset, FS_CardinalityType
<1>2. \A s \in SUBSET S : s # {} =>
          /\ Taken(s) \in s
          /\ s \ {Taken(s)} \in SUBSET S
          /\ Cardinality(s \ {Taken(s)}) = Cardinality(s) - 1
    BY <1>1, FS_RemoveElement DEF Taken
<1>3. ASSUME NEW n \in bad, \A m \in bad : n <= m
      PROVE  FALSE
    <2>1. CASE n = 0
        <3>1. UpTo(0) = {{}}
            BY <1>1, FS_EmptySet
        <3>2. Sums(f, UpTo(0), [s \in UpTo(0) |-> 0])
            BY <3>1 DEF Sums
        <3> QED
            BY <2>1, <3>2
    <2>2. CASE n # 0
        <3>1. n - 1 \in Nat /\ n - 1 \notin bad
            <4> n \in Nat
                OBVIOUS
            <4> HIDE DEF bad
            <4> QED
                BY <1>3, <2>2
        <3>2. PICK g : Sums(f, UpTo(n - 1), g)
            BY <3>1
        <3> DEFINE h == [s \in UpTo(n) |->
                            IF s = {} THEN 0 ELSE f[Taken(s)] + g[s \ {Taken(s)}]]
        <3>3. \A s \in UpTo(n - 1) : s \in UpTo(n) /\ g[s] = h[s]
            <4>1. \A s \in UpTo(n - 1) : s \in UpTo(n)
                BY <1>1, <3>1
            <4> HIDE DEF UpTo
            <4> QED
                BY <3>2, <4>1 DEF Sums
        <3>4. \A s \in UpTo(n) : s # {} => s \ {Taken(s)} \in UpTo(n - 1)
            BY <1>1, <1>2, <3>1
        <3> HIDE DEF UpTo
        <3>5. Sums(f, UpTo(n), h)
            BY <3>3, <3>4 DEF Sums
        <3> QED
            BY <3>5
    <2> QED
        BY <2>1, <2>2
<1>4. bad = {}
    <2> HIDE DEF bad
    <2>1. bad \in SUBSET Nat
        BY DEF bad
    <2> QED
        BY <1>3, <2>1, SmallestNumber
<1>5. UpTo(Cardinality(S)) = SUBSET S /\ Cardinality(S) \in Nat
    BY <1>1, FS_CardinalityType
<1> QED
    BY <1>4, <1>5

\* How a fold comes by its sum.
LEMMA SumUnfold ==
    ASSUME NEW S, IsFiniteSet(S), NEW f
    PROVE  /\ SumFunctionOnSet(f, {}) = 0
           /\ S # {} =>
                /\ Taken(S) \in S
                /\ SumFunctionOnSet(f, S) =
                      f[Taken(S)] + SumFunctionOnSet(f, S \ {Taken(S)})
<1> DEFINE all(T) == CHOOSE g : Sums(f, SUBSET T, g)
           T == S \ {Taken(S)}
<1>1. IsFiniteSet({}) /\ IsFiniteSet(T)
    BY FS_EmptySet, FS_Subset
<1>2. Sums(f, SUBSET {}, all({})) /\ Sums(f, SUBSET S, all(S)) /\ Sums(f, SUBSET T, all(T))
    BY <1>1, SumsExist
<1>3. SumFunctionOnSet(f, {}) = 0
    <2>1. all({})[{}] = 0
        BY <1>2 DEF Sums
    <2> QED
        BY <2>1, SumIsFold
<1>4. ASSUME S # {}
      PROVE  SumFunctionOnSet(f, S) = f[Taken(S)] + SumFunctionOnSet(f, T)
    <2>1. all(S)[S] = f[Taken(S)] + all(S)[T]
        <3> HIDE DEF all
        <3> QED
            BY <1>2, <1>4 DEF Sums
    <2>2. all(S)[T] = all(T)[T]
        <3> DEFINE bad == {s \in SUBSET T : all(S)[s] # all(T)[s]}
        <3>1. bad \in SUBSET SUBSET T
            OBVIOUS
        <3> HIDE DEF all
        <3>2. ASSUME NEW s \in bad, \A t \in bad : t \subseteq s => t = s
              PROVE  FALSE
            <4>1. s # {}
                BY <1>2 DEF Sums
            <4>2. Taken(s) \in s
                BY <4>1 DEF Taken
            <4>3. s \ {Taken(s)} \in SUBSET T /\ s \ {Taken(s)} \notin bad
                BY <3>2, <4>2
            <4>4. all(S)[s] = f[Taken(s)] + all(S)[s \ {Taken(s)}]
                BY <1>2, <4>1 DEF Sums
            <4>5. all(T)[s] = f[Taken(s)] + all(T)[s \ {Taken(s)}]
                BY <1>2, <4>1 DEF Sums
            <4> QED
                BY <4>3, <4>4, <4>5
        <3>3. bad = {}
            <4> HIDE DEF bad
            <4> QED
                BY <1>1, <3>1, <3>2, SmallestSubset
        <3> QED
            BY <3>3
    <2> QED
        BY <2>1, <2>2, SumIsFold
<1> QED
    BY <1>3, <1>4 DEF Taken

\* The sum of numbers is a number.
LEMMA SumType ==
    ASSUME NEW S, IsFiniteSet(S), NEW f
    PROVE  /\ (\A x \in S : f[x] \in Int) => SumFunctionOnSet(f, S) \in Int
           /\ (\A x \in S : f[x] \in Nat) => SumFunctionOnSet(f, S) \in Nat
<1>1. ASSUME NEW R, R \in {Nat, Int}, \A x \in S : f[x] \in R
      PROVE  SumFunctionOnSet(f, S) \in R
    <2> DEFINE bad == {T \in SUBSET S : SumFunctionOnSet(f, T) \notin R}
    <2>1. ASSUME NEW T \in bad, \A t \in bad : t \subseteq T => t = T
          PROVE  FALSE
        <3>1. IsFiniteSet(T)
            BY FS_Subset
        <3>2. T # {}
            BY <1>1, <3>1, SumUnfold
        <3>3. Taken(T) \in T /\ SumFunctionOnSet(f, T) =
                  f[Taken(T)] + SumFunctionOnSet(f, T \ {Taken(T)})
            BY <3>1, <3>2, SumUnfold
        <3>4. SumFunctionOnSet(f, T \ {Taken(T)}) \in R
            BY <2>1, <3>3
        <3> QED
            BY <1>1, <3>3, <3>4
    <2>2. bad \in SUBSET SUBSET S
        OBVIOUS
    <2>3. bad = {}
        <3> HIDE DEF bad
        <3> QED
            BY <2>1, <2>2, SmallestSubset
    <2> QED
        BY <2>3
<1> QED
    BY <1>1

\* A sum depends on what it adds and on nothing else.
LEMMA SumOfSame ==
    ASSUME NEW S, IsFiniteSet(S), NEW f, NEW h, \A x \in S : f[x] = h[x]
    PROVE  SumFunctionOnSet(f, S) = SumFunctionOnSet(h, S)
<1> DEFINE bad == {T \in SUBSET S : SumFunctionOnSet(f, T) # SumFunctionOnSet(h, T)}
<1>1. ASSUME NEW T \in bad, \A t \in bad : t \subseteq T => t = T
      PROVE  FALSE
    <2>1. IsFiniteSet(T)
        BY FS_Subset
    <2>2. T # {}
        BY <2>1, SumUnfold
    <2>3. Taken(T) \in T /\ T \ {Taken(T)} \notin bad
        BY <1>1, <2>1, <2>2, SumUnfold
    <2>4. SumFunctionOnSet(f, T) = f[Taken(T)] + SumFunctionOnSet(f, T \ {Taken(T)})
        BY <2>1, <2>2, SumUnfold
    <2>5. SumFunctionOnSet(h, T) = h[Taken(T)] + SumFunctionOnSet(h, T \ {Taken(T)})
        BY <2>1, <2>2, SumUnfold
    <2> QED
        BY <2>3, <2>4, <2>5
<1>2. bad \in SUBSET SUBSET S
    OBVIOUS
<1>3. bad = {}
    <2> HIDE DEF bad
    <2> QED
        BY <1>1, <1>2, SmallestSubset
<1> QED
    BY <1>3

\* Any element may be added last.
LEMMA SumWithout ==
    ASSUME NEW S, IsFiniteSet(S), NEW f, \A x \in S : f[x] \in Int, NEW y \in S
    PROVE  SumFunctionOnSet(f, S) = f[y] + SumFunctionOnSet(f, S \ {y})
<1> DEFINE Sum(T) == SumFunctionOnSet(f, T)
           bad == {T \in SUBSET S : \E x \in T : Sum(T) # f[x] + Sum(T \ {x})}
<1>0. \A T \in SUBSET S : IsFiniteSet(T) /\ Sum(T) \in Int
    BY FS_Subset, SumType
<1>1. ASSUME NEW T \in bad, \A t \in bad : t \subseteq T => t = T
      PROVE  FALSE
    <2>1. PICK x \in T : Sum(T) # f[x] + Sum(T \ {x})
        OBVIOUS
    <2> DEFINE z == Taken(T)
    <2>2. z \in T /\ Sum(T) = f[z] + Sum(T \ {z})
        BY <1>0, <2>1, SumUnfold
    <2> HIDE DEF Sum, z
    <2>3. x # z
        BY <2>1, <2>2
    <2>4. Sum(T \ {z}) = f[x] + Sum((T \ {z}) \ {x})
        BY <1>1, <2>2, <2>3
    <2>5. Sum(T \ {x}) = f[z] + Sum((T \ {z}) \ {x})
        <3>1. Sum(T \ {x}) = f[z] + Sum((T \ {x}) \ {z})
            BY <1>1, <2>1, <2>2, <2>3
        <3>2. (T \ {x}) \ {z} = (T \ {z}) \ {x}
            OBVIOUS
        <3> QED
            BY <3>1, <3>2
    <2>6. f[x] \in Int /\ f[z] \in Int /\ Sum((T \ {z}) \ {x}) \in Int
        BY <1>0, <2>1, <2>2
    <2>7. ASSUME NEW a \in Int, NEW b \in Int, NEW r \in Int
          PROVE  b + (a + r) = a + (b + r)
        OBVIOUS
    <2>8. Sum(T) = f[z] + (f[x] + Sum((T \ {z}) \ {x}))
        BY <2>2, <2>4
    <2>9. Sum(T) = f[x] + (f[z] + Sum((T \ {z}) \ {x}))
        BY <2>6, <2>7, <2>8
    <2> QED
        BY <2>1, <2>5, <2>9
<1>2. bad \in SUBSET SUBSET S
    OBVIOUS
<1>3. bad = {}
    <2> HIDE DEF bad
    <2> QED
        BY <1>1, <1>2, SmallestSubset
<1> QED
    BY <1>3

-----------------------------------------------------------------------------
(* Powers and digits.                                                      *)

\* Division with remainder.
LEMMA Remainder ==
    ASSUME NEW n \in Nat, NEW d \in Nat \ {0}
    PROVE  /\ n % d \in 0..(d - 1) /\ n \div d \in Nat
           /\ n = d * (n \div d) + (n % d)
<1>1. n % d \in 0..(d - 1) /\ n = d * (n \div d) + (n % d)
    OBVIOUS
<1>2. n \div d \in Int
    OBVIOUS
<1>3. ASSUME n \div d < 0
      PROVE  FALSE
    <2>1. d * (n \div d) <= - d
        BY <1>2, <1>3
    <2> QED
        BY <1>1, <2>1
<1> QED
    BY <1>1, <1>2, <1>3

\* Two multiples of a number that are less than it apart are one.
LEMMA OneMultiple ==
    ASSUME NEW d \in Nat \ {0}, NEW a \in Int, NEW b \in Int,
           d * a - d * b < d, d * b - d * a < d
    PROVE  a = b
<1>1. ASSUME NEW x \in Int, NEW y \in Int, x < y
      PROVE  d * y - d * x >= d
    <2>1. d * (y - x) = d * y - d * x
        OBVIOUS
    <2>2. y - x >= 1
        BY <1>1
    <2>3. PICK z \in Nat : y - x = z + 1
        BY <2>2
    <2>4. d * (z + 1) = d * z + d /\ d * z \in Nat
        BY <2>3
    <2> QED
        BY <2>1, <2>3, <2>4
<1> QED
    BY <1>1

\* There is no other remainder.
LEMMA OneRemainder ==
    ASSUME NEW n \in Nat, NEW d \in Nat \ {0}, NEW q \in Int, NEW r \in 0..(d - 1),
           n = d * q + r
    PROVE  n % d = r
<1>1. n % d \in 0..(d - 1) /\ n \div d \in Nat /\ n = d * (n \div d) + (n % d)
    BY Remainder
<1> DEFINE p == n \div d
           s == n % d
<1>2. s \in 0..(d - 1) /\ p \in Nat /\ n = d * p + s
    BY <1>1
<1> HIDE DEF p, s
<1>3. d * p \in Int /\ d * q \in Int
    BY <1>2
<1>4. p = q
    BY <1>2, <1>3, OneMultiple
<1>5. s = r
    BY <1>2, <1>3, <1>4
<1> QED
    BY <1>5 DEF s

\* A remainder has one digit more than the remainder of the next smaller weight.
LEMMA NextDigit ==
    ASSUME NEW n \in Nat, NEW w \in Nat \ {0}, NEW b \in Nat \ {0}
    PROVE  n % (b * w) = (n % w) + ((n \div w) % b) * w
<1>1. n % w \in 0..(w - 1) /\ n \div w \in Nat /\ n = w * (n \div w) + (n % w)
    BY Remainder
<1>2. PICK q \in Nat, r \in 0..(w - 1) :
          q = n \div w /\ r = n % w /\ n = w * q + r
    BY <1>1
<1>3. q % b \in 0..(b - 1) /\ q \div b \in Nat /\ q = b * (q \div b) + (q % b)
    BY <1>2, Remainder
<1>4. PICK t \in Nat, d \in 0..(b - 1) : d = q % b /\ q = b * t + d
    BY <1>3
<1>5. n = (b * w) * t + (w * d + r)
    <2>1. w * q = (b * w) * t + w * d
        BY <1>4
    <2> QED
        BY <1>2, <2>1
<1>6. w * d + r \in 0..(b * w - 1)
    <2>1. w * d <= w * (b - 1)
        BY <1>4
    <2>2. w * (b - 1) = b * w - w /\ w * d \in Nat
        BY <1>4
    <2> QED
        BY <1>2, <2>1, <2>2
<1>7. b * w \in Nat \ {0} /\ t \in Int
    BY <1>4
<1>8. n % (b * w) = w * d + r
    BY <1>5, <1>6, <1>7, OneRemainder
<1>9. w * d + r = r + d * w
    BY <1>2, <1>4
<1> QED
    BY <1>2, <1>4, <1>8, <1>9

\* The powers of Base up to the n-th.
Powers(n, w) == w = [i \in 0..n |-> IF i = 0 THEN 1 ELSE Base * w[i - 1]]

\* Some function has them.
LEMMA PowersExist ==
    ASSUME NEW n \in Nat
    PROVE  \E w : Powers(n, w)
<1> DEFINE bad == {i \in Nat : ~ \E w : Powers(i, w)}
<1>1. ASSUME NEW i \in bad, \A j \in bad : i <= j
      PROVE  FALSE
    <2>1. CASE i = 0
        <3>1. Powers(0, [j \in 0..0 |-> 1])
            BY DEF Powers
        <3> QED
            BY <2>1, <3>1
    <2>2. CASE i # 0
        <3>1. i \in Nat /\ i - 1 \in Nat /\ i - 1 \notin bad
            <4> i \in Nat
                OBVIOUS
            <4> HIDE DEF bad
            <4> QED
                BY <1>1, <2>2
        <3>2. PICK w : Powers(i - 1, w)
            BY <3>1
        <3> DEFINE v == [j \in 0..i |-> IF j = 0 THEN 1 ELSE Base * w[j - 1]]
        <3>3. \A j \in 0..(i - 1) : v[j] = w[j]
            BY <3>1, <3>2 DEF Powers
        <3>4. v = [j \in 0..i |-> IF j = 0 THEN 1 ELSE Base * v[j - 1]]
            <4>1. \A j \in 0..i : j # 0 => j - 1 \in 0..(i - 1)
                BY <3>1
            <4>2. \A j \in 0..i :
                      v[j] = IF j = 0 THEN 1 ELSE Base * v[j - 1]
                BY <3>3, <4>1
            <4> QED
                BY <4>2
        <3>5. Powers(i, v)
            BY <3>4 DEF Powers
        <3> QED
            BY <3>5
    <2> QED
        BY <2>1, <2>2
<1>2. bad \in SUBSET Nat
    OBVIOUS
<1>3. bad = {}
    <2> HIDE DEF bad
    <2> QED
        BY <1>1, <1>2, SmallestNumber
<1> QED
    BY <1>3

\* The weight of a byte is Base times that of the one below.
LEMMA WeightFacts ==
    /\ Weight[0] = 1
    /\ \A i \in 0..LenBytes : Weight[i] \in Nat \ {0}
    /\ \A i \in 1..LenBytes : Weight[i] = Base * Weight[i - 1]
<1>1. Powers(LenBytes, Weight)
    <2>1. Weight = CHOOSE w : Powers(LenBytes, w)
        BY DEF Weight, Powers
    <2> QED
        BY <2>1, PowersExist, BytesAssumption
<1>2. Weight[0] = 1 /\ \A i \in 1..LenBytes : Weight[i] = Base * Weight[i - 1]
    BY <1>1, BytesAssumption DEF Powers
<1> DEFINE bad == {i \in 0..LenBytes : Weight[i] \notin Nat \ {0}}
<1>3. ASSUME NEW i \in bad, \A j \in bad : i <= j
      PROVE  FALSE
    <2>1. i \in 1..LenBytes
        BY <1>2, BytesAssumption
    <2>2. i - 1 \in 0..LenBytes /\ i - 1 \notin bad
        <3> HIDE DEF bad
        <3> QED
            BY <1>3, <2>1, BytesAssumption
    <2>3. Weight[i - 1] \in Nat \ {0}
        BY <2>2
    <2>4. Base * Weight[i - 1] \in Nat \ {0}
        BY <2>3, BytesAssumption
    <2> QED
        BY <1>2, <2>1, <2>4
<1>4. bad \in SUBSET Nat
    BY BytesAssumption
<1>5. bad = {}
    <2> HIDE DEF bad
    <2> QED
        BY <1>3, <1>4, SmallestNumber
<1> QED
    BY <1>2, <1>5

\* The number that some bytes stand for.
Addends(b) == [i \in 1..LenBytes |-> b[i] * Weight[i - 1]]

\* What a byte adds to the lower ones.
LEMMA OneByteMore ==
    ASSUME NEW b \in [1..LenBytes -> Byte], NEW i \in 1..LenBytes
    PROVE  /\ SumFunctionOnSet(Addends(b), 1..0) = 0
           /\ SumFunctionOnSet(Addends(b), 1..i) =
                b[i] * Weight[i - 1] + SumFunctionOnSet(Addends(b), 1..(i - 1))
           /\ SumFunctionOnSet(Addends(b), 1..(i - 1)) \in Nat
           /\ SumFunctionOnSet(Addends(b), 1..i) \in Nat
<1>1. \A j \in 1..LenBytes : Addends(b)[j] \in Nat /\ Addends(b)[j] = b[j] * Weight[j - 1]
    <2>1. ASSUME NEW j \in 1..LenBytes
          PROVE  b[j] \in Nat /\ Weight[j - 1] \in Nat
        BY WeightFacts, BytesAssumption DEF Byte
    <2> QED
        BY <2>1 DEF Addends
<1>2. 1..i \subseteq 1..LenBytes /\ 1..(i - 1) \subseteq 1..LenBytes
    BY BytesAssumption
<1> DEFINE upto == 1..i
           below == 1..(i - 1)
<1>3. IsFiniteSet(upto) /\ IsFiniteSet(below)
    BY BytesAssumption, FS_Interval
<1>4. i \in upto /\ upto \ {i} = below
    BY BytesAssumption
<1>5. \A j \in upto \cup below : Addends(b)[j] \in Int /\ Addends(b)[j] \in Nat
    BY <1>1, <1>2
<1> HIDE DEF upto, below
<1>6. SumFunctionOnSet(Addends(b), upto) = Addends(b)[i] + SumFunctionOnSet(Addends(b), below)
    BY <1>3, <1>4, <1>5, SumWithout
<1>7. SumFunctionOnSet(Addends(b), upto) \in Nat /\ SumFunctionOnSet(Addends(b), below) \in Nat
    BY <1>3, <1>5, SumType
<1>8. SumFunctionOnSet(Addends(b), 1..0) = 0
    <2>1. 1..0 = {} /\ IsFiniteSet({})
        BY FS_EmptySet
    <2> QED
        BY <2>1, SumUnfold
<1> QED
    BY <1>1, <1>6, <1>7, <1>8 DEF upto, below

\* Some bytes make a number below the weight of the next one.
LEMMA BytesBelow ==
    ASSUME NEW b \in [1..LenBytes -> Byte]
    PROVE  SumFunctionOnSet(Addends(b), 1..LenBytes) \in 0..(Weight[LenBytes] - 1)
<1> DEFINE Low(i) == SumFunctionOnSet(Addends(b), 1..i)
           bad == {i \in 0..LenBytes : Low(i) \notin 0..(Weight[i] - 1)}
<1>1. ASSUME NEW i \in bad, \A j \in bad : i <= j
      PROVE  FALSE
    <2>1. i \in 1..LenBytes
        <3>1. Low(0) = 0
            BY OneByteMore, BytesAssumption
        <3> QED
            BY <3>1, WeightFacts, BytesAssumption
    <2>2. i - 1 \in 0..LenBytes /\ i - 1 \notin bad
        <3> HIDE DEF bad
        <3> QED
            BY <1>1, <2>1, BytesAssumption
    <2>3. PICK w \in Nat \ {0} : w = Weight[i - 1] /\ Weight[i] = Base * w
        BY <2>1, <2>2, WeightFacts
    <2>4. Low(i) = b[i] * w + Low(i - 1) /\ Low(i - 1) \in Nat
        BY <2>1, <2>3, OneByteMore
    <2>5. Low(i - 1) <= w - 1
        BY <2>2, <2>3
    <2>6. b[i] \in Nat /\ b[i] <= Base - 1
        BY <2>1, BytesAssumption DEF Byte
    <2>7. b[i] * w <= (Base - 1) * w /\ b[i] * w \in Nat
        BY <2>6, BytesAssumption
    <2>8. (Base - 1) * w = Base * w - w /\ Base * w \in Nat
        BY BytesAssumption
    <2> HIDE DEF Low
    <2>9. Low(i) \in 0..(Base * w - 1)
        BY <2>4, <2>5, <2>7, <2>8
    <2> QED
        BY <2>3, <2>9
<1>2. bad \in SUBSET Nat
    BY BytesAssumption
<1>3. bad = {}
    <2> HIDE DEF bad
    <2> QED
        BY <1>1, <1>2, SmallestNumber
<1> QED
    BY <1>3, BytesAssumption

\* The bytes of a length stand for it.
LEMMA LengthFromBytes ==
    ASSUME NEW n \in Nat, n < Weight[LenBytes]
    PROVE  /\ LenField(n) \in [1..LenBytes -> Byte]
           /\ SumFunctionOnSet(Addends(LenField(n)), 1..LenBytes) = n
<1> DEFINE b == LenField(n)
           Low(i) == SumFunctionOnSet(Addends(b), 1..i)
           bad == {i \in 0..LenBytes : Low(i) # n % Weight[i]}
<1>0. \A i \in 1..LenBytes : /\ (n \div Weight[i - 1]) % Base \in 0..(Base - 1)
                             /\ b[i] = (n \div Weight[i - 1]) % Base
    <2>1. ASSUME NEW i \in 1..LenBytes
          PROVE  (n \div Weight[i - 1]) % Base \in 0..(Base - 1)
        <3>1. Weight[i - 1] \in Nat \ {0}
            BY WeightFacts, BytesAssumption
        <3>2. n \div Weight[i - 1] \in Nat
            BY <3>1, Remainder
        <3> QED
            BY <3>2, Remainder, BytesAssumption
    <2> QED
        BY <2>1 DEF LenField
<1>1. b \in [1..LenBytes -> Byte]
    BY <1>0 DEF LenField, Byte
<1>2. ASSUME NEW i \in bad, \A j \in bad : i <= j
      PROVE  FALSE
    <2>1. i \in 1..LenBytes
        <3>1. n % 1 = 0
            OBVIOUS
        <3>2. Low(0) = 0
            BY <1>1, OneByteMore, BytesAssumption
        <3> QED
            BY <3>1, <3>2, WeightFacts, BytesAssumption
    <2>2. i - 1 \in 0..LenBytes /\ i - 1 \notin bad
        <3> HIDE DEF bad
        <3> QED
            BY <1>2, <2>1, BytesAssumption
    <2>3. PICK w \in Nat \ {0} : w = Weight[i - 1] /\ Weight[i] = Base * w
        BY <2>1, <2>2, WeightFacts
    <2>4. Low(i) = b[i] * w + Low(i - 1) /\ Low(i - 1) \in Nat
        BY <1>1, <2>1, <2>3, OneByteMore
    <2>5. Low(i - 1) = n % w
        BY <2>2, <2>3
    <2>6. b[i] = (n \div w) % Base /\ b[i] \in Nat
        BY <1>0, <2>1, <2>3, BytesAssumption
    <2>7. n % (Base * w) = (n % w) + ((n \div w) % Base) * w
        BY NextDigit, BytesAssumption
    <2> HIDE DEF Low, b
    <2>8. b[i] * w \in Nat
        BY <2>6
    <2>9. Low(i) = n % (Base * w)
        BY <2>4, <2>5, <2>6, <2>7, <2>8
    <2> QED
        BY <2>3, <2>9
<1>3. bad \in SUBSET Nat
    BY BytesAssumption
<1>4. bad = {}
    <2> HIDE DEF bad
    <2> QED
        BY <1>2, <1>3, SmallestNumber
<1>5. Low(LenBytes) = n % Weight[LenBytes]
    BY <1>4, BytesAssumption
<1>6. n % Weight[LenBytes] = n
    <2>1. Weight[LenBytes] \in Nat \ {0}
        BY WeightFacts, BytesAssumption
    <2>2. n = Weight[LenBytes] * 0 + n /\ n \in 0..(Weight[LenBytes] - 1)
        BY <2>1
    <2> QED
        BY <2>1, <2>2, OneRemainder
<1> QED
    BY <1>1, <1>5, <1>6

-----------------------------------------------------------------------------
(* bytes_.                                                                 *)

\* A string is any sequence of bytes whose length fits a length field.
LEMMA StringFacts ==
    \A s : s \in Strings <=> s \in Seq(Byte) /\ Len(s) < Weight[LenBytes]
<1>1. Weight[LenBytes] \in Nat \ {0}
    BY WeightFacts, BytesAssumption
<1>2. ASSUME NEW s \in Strings
      PROVE  s \in Seq(Byte) /\ Len(s) < Weight[LenBytes]
    <2>1. PICK n \in 0..(Weight[LenBytes] - 1) : s \in [1..n -> Byte]
        BY DEF Strings
    <2> QED
        BY <1>1, <2>1
<1>3. ASSUME NEW s \in Seq(Byte), Len(s) < Weight[LenBytes]
      PROVE  s \in Strings
    <2>1. Len(s) \in 0..(Weight[LenBytes] - 1) /\ s \in [1..Len(s) -> Byte]
        BY <1>1, <1>3
    <2> QED
        BY <2>1 DEF Strings
<1> QED
    BY <1>2, <1>3

\* The value of a tombstone is one.
LEMMA EmptyIsString == <<>> \in Strings
<1>1. <<>> \in Seq(Byte) /\ Len(<<>>) = 0
    OBVIOUS
<1>2. Weight[LenBytes] \in Nat \ {0}
    BY WeightFacts, BytesAssumption
<1>3. Len(<<>>) < Weight[LenBytes]
    BY <1>1, <1>2
<1> QED
    BY <1>1, <1>3, StringFacts

\* MemEntry.
MemEntries == [value : Strings, tombstone : BOOLEAN]

\* A MemTable in which bytes_ is right.
Exact(m) ==
    /\ IsFiniteSet(DOMAIN m.data) /\ DOMAIN m.data \subseteq Seq(Byte)
    /\ m.data \in [DOMAIN m.data -> MemEntries]
    /\ m.bytes = Size(m)

\* MemTable::clear sets bytes_ to 0.
LEMMA ClearedIsExact == Exact(Cleared)
<1>1. DOMAIN Cleared.data = {} /\ Cleared.data \in [{} -> MemEntries] /\ Cleared.bytes = 0
    BY DEF Cleared
<1>2. IsFiniteSet({})
    BY FS_EmptySet
<1> DEFINE f == [k \in DOMAIN Cleared.data |-> Len(k) + Len(Cleared.data[k].value)]
<1>3. SumFunctionOnSet(f, {}) = 0
    BY <1>2, SumUnfold
<1>4. Size(Cleared) = SumFunctionOnSet(f, DOMAIN f) /\ DOMAIN f = {}
    BY <1>1 DEF Size, SumFunction
<1> QED
    BY <1>1, <1>2, <1>3, <1>4 DEF Exact

\* What is set under a key changes the size as it changes bytes_.
LEMMA SetIsExact ==
    ASSUME NEW m, Exact(m), NEW k \in Seq(Byte), NEW e \in MemEntries
    PROVE  Exact(Set(m, k, e))
<1> DEFINE old == DOMAIN m.data
           new == old \cup {k}
           rest == new \ {k}
           n == Set(m, k, e)
           f == [i \in old |-> Len(i) + Len(m.data[i].value)]
           g == [i \in new |-> Len(i) + Len(n.data[i].value)]
<1>1. n.data = With(m, k, e) /\ n.bytes = m.bytes + Growth(m, k, e)
    BY DEF Set
<1>2. DOMAIN n.data = new /\ \A i \in new : n.data[i] = IF i = k THEN e ELSE m.data[i]
    BY <1>1 DEF With
<1>3. IsFiniteSet(old) /\ IsFiniteSet(new) /\ IsFiniteSet(rest)
    <2>1. IsFiniteSet(old)
        BY DEF Exact
    <2> QED
        BY <2>1, FS_AddElement, FS_RemoveElement
<1>4. n.data \in [new -> MemEntries] /\ new \subseteq Seq(Byte)
    BY <1>1, <1>2 DEF Exact, With
<1>5. \A x \in MemEntries : Len(x.value) \in Nat
    BY StringFacts DEF MemEntries
<1>6. \A i \in old : f[i] \in Int /\ f[i] = Len(i) + Len(m.data[i].value)
    <2>1. ASSUME NEW i \in old
          PROVE  Len(i) \in Nat /\ Len(m.data[i].value) \in Nat
        BY <1>5 DEF Exact
    <2> QED
        BY <2>1
<1>7. \A i \in new : g[i] \in Int /\ g[i] = Len(i) + Len(n.data[i].value)
    <2>1. ASSUME NEW i \in new
          PROVE  Len(i) \in Nat /\ Len(n.data[i].value) \in Nat
        <3>1. i \in Seq(Byte) /\ n.data[i] \in MemEntries
            BY <1>4
        <3> QED
            BY <1>5, <3>1
    <2> QED
        BY <2>1
<1>8. Size(m) = SumFunctionOnSet(f, old) /\ Size(n) = SumFunctionOnSet(g, new)
    BY <1>2 DEF Size, SumFunction
<1> HIDE DEF n, f, g
<1>9. SumFunctionOnSet(g, rest) = SumFunctionOnSet(f, rest)
    <2>1. \A i \in rest : g[i] = f[i]
        BY <1>2, <1>6, <1>7
    <2> HIDE DEF rest
    <2> QED
        BY <1>3, <2>1, SumOfSame
<1>10. SumFunctionOnSet(f, rest) \in Int
    <2>1. \A i \in rest : f[i] \in Int
        BY <1>6
    <2> HIDE DEF rest
    <2> QED
        BY <1>3, <2>1, SumType
<1>11. SumFunctionOnSet(g, new) = g[k] + SumFunctionOnSet(g, rest)
    <2>1. k \in new
        OBVIOUS
    <2> HIDE DEF new
    <2> QED
        BY <1>3, <1>7, <2>1, SumWithout
<1>12. g[k] = Len(k) + Len(e.value) /\ Len(k) \in Nat /\ Len(e.value) \in Nat
    <2>1. k \in new
        OBVIOUS
    <2>2. n.data[k] = e
        BY <1>2, <2>1
    <2>3. Len(k) \in Nat /\ Len(e.value) \in Nat
        BY <1>5
    <2> QED
        BY <1>7, <2>1, <2>2, <2>3
<1>13. n.bytes = Size(n)
    <2>1. CASE k \in old
        <3>1. new = old
            BY <2>1
        <3>2. SumFunctionOnSet(f, old) = f[k] + SumFunctionOnSet(f, rest)
            <4>1. rest = old \ {k}
                BY <3>1
            <4> HIDE DEF old, rest
            <4> QED
                BY <1>3, <1>6, <2>1, <4>1, SumWithout
        <3>3. f[k] = Len(k) + Len(m.data[k].value) /\ Len(m.data[k].value) \in Nat
            BY <1>5, <1>6, <2>1 DEF Exact
        <3>4. Growth(m, k, e) = Len(e.value) - Len(m.data[k].value)
            BY <2>1 DEF Growth, Knows
        <3>5. m.bytes = SumFunctionOnSet(f, old)
            BY <1>8 DEF Exact
        <3> HIDE DEF old, new, rest
        <3>6. m.bytes = (Len(k) + Len(m.data[k].value)) + SumFunctionOnSet(f, rest)
            BY <3>2, <3>3, <3>5
        <3>7. Size(n) = (Len(k) + Len(e.value)) + SumFunctionOnSet(f, rest)
            BY <1>8, <1>9, <1>11, <1>12
        <3>8. n.bytes = m.bytes + (Len(e.value) - Len(m.data[k].value))
            BY <1>1, <3>4
        <3>9. PICK a \in Int : a = Len(k)
            BY <1>12
        <3>10. PICK b \in Int : b = Len(m.data[k].value)
            BY <3>3
        <3>11. PICK c \in Int : c = Len(e.value)
            BY <1>12
        <3>12. PICK r \in Int : r = SumFunctionOnSet(f, rest)
            BY <1>10
        <3>13. m.bytes = (a + b) + r
            BY <3>6, <3>9, <3>10, <3>12
        <3>14. Size(n) = (a + c) + r
            BY <3>7, <3>9, <3>11, <3>12
        <3>15. n.bytes = ((a + b) + r) + (c - b)
            BY <3>8, <3>10, <3>11, <3>13
        <3>16. ((a + b) + r) + (c - b) = (a + c) + r
            OBVIOUS
        <3> QED
            BY <3>14, <3>15, <3>16
    <2>2. CASE k \notin old
        <3>1. rest = old
            BY <2>2
        <3>2. Growth(m, k, e) = Len(k) + Len(e.value)
            BY <2>2 DEF Growth, Knows
        <3>3. m.bytes = SumFunctionOnSet(f, rest)
            BY <1>8, <3>1 DEF Exact
        <3> HIDE DEF old, new, rest
        <3> QED
            BY <1>1, <1>8, <1>9, <1>10, <1>11, <1>12, <3>2, <3>3
    <2> QED
        BY <2>1, <2>2
<1>14. Exact(n)
    BY <1>2, <1>3, <1>4, <1>13 DEF Exact
<1> QED
    BY <1>14 DEF n

\* What a record is replayed to, and what a write leaves.
LEMMA ReplayedIsExact ==
    ASSUME NEW m, Exact(m), NEW k \in Seq(Byte), NEW v \in Strings
    PROVE  Exact(Put(m, k, v)) /\ Exact(Del(m, k))
<1>1. <<>> \in Strings
    BY EmptyIsString
<1>2. /\ [value |-> v, tombstone |-> FALSE] \in MemEntries
      /\ [value |-> <<>>, tombstone |-> TRUE] \in MemEntries
    BY <1>1 DEF MemEntries
<1> QED
    BY <1>2, SetIsExact DEF Put, Del

-----------------------------------------------------------------------------
(* What the reader makes of bytes that were written, and of any others.    *)

\* The file holds s behind its first p bytes, up to the e-th.
Holds(p, e, s) == \A i \in 1..(e - p) : file[p + i] = s[i]

\* A length field is read as the number that was written, any other bytes as some
\* number that a field can hold.
LEMMA LengthRead ==
    ASSUME file \in Seq(Byte), NEW p \in Nat, p + LenBytes <= Len(file)
    PROVE  /\ LenAt(p) \in 0..(Weight[LenBytes] - 1)
           /\ \A n \in Nat : n < Weight[LenBytes] /\ Holds(p, p + LenBytes, LenField(n))
                 => LenAt(p) = n
<1> DEFINE b == [i \in 1..LenBytes |-> file[p + i]]
<1>1. b \in [1..LenBytes -> Byte]
    BY BytesAssumption
<1>2. Addends(b) = [i \in 1..LenBytes |-> file[p + i] * Weight[i - 1]]
    BY DEF Addends
<1>3. LenAt(p) = SumFunctionOnSet(Addends(b), 1..LenBytes)
    BY <1>2 DEF LenAt, SumFunction
<1>4. LenAt(p) \in 0..(Weight[LenBytes] - 1)
    BY <1>1, <1>3, BytesBelow
<1>5. ASSUME NEW n \in Nat, n < Weight[LenBytes], Holds(p, p + LenBytes, LenField(n))
      PROVE  LenAt(p) = n
    <2>1. \A i \in 1..LenBytes : file[p + i] = LenField(n)[i]
        BY <1>5, BytesAssumption DEF Holds
    <2>2. b = LenField(n)
        BY <2>1 DEF LenField
    <2> QED
        BY <1>3, <1>5, <2>2, LengthFromBytes
<1> QED
    BY <1>4, <1>5

\* Whatever rstr reads is a string that could have been written.
LEMMA AnyStringRead ==
    ASSUME file \in Seq(Byte), NEW p \in Nat, HasStr(p)
    PROVE  /\ StrAt(p) \in Strings
           /\ StrEnd(p) \in Nat /\ p + LenBytes <= StrEnd(p) /\ StrEnd(p) <= Len(file)
<1>1. p + LenBytes <= Len(file) /\ StrEnd(p) <= Len(file)
    BY DEF HasStr
<1>2. LenAt(p) \in 0..(Weight[LenBytes] - 1) /\ Weight[LenBytes] \in Nat \ {0}
    BY <1>1, LengthRead, WeightFacts, BytesAssumption
<1> DEFINE a == p + LenBytes + 1
           e == StrEnd(p)
<1>3. a \in Nat /\ e \in Nat /\ a >= 1 /\ e = a - 1 + LenAt(p) /\ e <= Len(file)
    BY <1>1, <1>2, BytesAssumption DEF StrEnd
<1>4. \A i \in a..e : file[i] \in Byte
    BY <1>3
<1> HIDE DEF a, e
<1>5. /\ SubSeq(file, a, e) \in Seq(Byte)
      /\ Len(SubSeq(file, a, e)) = IF a <= e THEN e - a + 1 ELSE 0
    BY <1>3, <1>4, SubSeqProperties
<1>6. Len(SubSeq(file, a, e)) = LenAt(p)
    BY <1>2, <1>3, <1>5
<1>7. SubSeq(file, a, e) \in Strings
    <2>1. Len(SubSeq(file, a, e)) < Weight[LenBytes]
        BY <1>2, <1>6
    <2> QED
        BY <1>5, <2>1, StringFacts
<1> QED
    BY <1>2, <1>3, <1>7, BytesAssumption DEF StrAt, a, e

\* rstr reads what wstr wrote.
LEMMA StringRead ==
    ASSUME file \in Seq(Byte), NEW p \in Nat, NEW s \in Strings,
           p + LenBytes + Len(s) <= Len(file),
           Holds(p, p + LenBytes, LenField(Len(s))),
           Holds(p + LenBytes, p + LenBytes + Len(s), s)
    PROVE  HasStr(p) /\ StrEnd(p) = p + LenBytes + Len(s) /\ StrAt(p) = s
<1>1. s \in Seq(Byte) /\ Len(s) \in Nat /\ Len(s) < Weight[LenBytes]
    BY StringFacts
<1>2. p + LenBytes <= Len(file)
    BY <1>1, BytesAssumption
<1>3. LenAt(p) = Len(s)
    BY <1>1, <1>2, LengthRead
<1>4. StrEnd(p) = p + LenBytes + Len(s) /\ HasStr(p)
    BY <1>2, <1>3 DEF StrEnd, HasStr
<1> DEFINE a == p + LenBytes + 1
           e == p + LenBytes + Len(s)
<1>5. a \in Nat /\ e \in Nat /\ a >= 1 /\ e - a + 1 = Len(s) /\ e <= Len(file)
    BY <1>1, BytesAssumption
<1>6. \A i \in a..e : file[i] \in Byte
    BY <1>5
<1>7. \A i \in 1..Len(s) : file[a + i - 1] = s[i]
    <2>1. ASSUME NEW i \in 1..Len(s)
          PROVE  file[(p + LenBytes) + i] = s[i]
        BY <1>1, BytesAssumption DEF Holds
    <2>2. \A i \in 1..Len(s) : (p + LenBytes) + i = a + i - 1
        BY <1>1, BytesAssumption
    <2> QED
        BY <2>1, <2>2
<1> HIDE DEF a, e
<1>8. /\ SubSeq(file, a, e) \in Seq(Byte)
      /\ Len(SubSeq(file, a, e)) = Len(s)
      /\ \A i \in 1..Len(s) : SubSeq(file, a, e)[i] = file[a + i - 1]
    <2>1. /\ SubSeq(file, a, e) \in Seq(Byte)
          /\ Len(SubSeq(file, a, e)) = IF a <= e THEN e - a + 1 ELSE 0
          /\ \A i \in 1..(e - a + 1) : SubSeq(file, a, e)[i] = file[a + i - 1]
        BY <1>5, <1>6, SubSeqProperties
    <2> QED
        BY <1>1, <1>5, <2>1
<1>9. SubSeq(file, a, e) = s
    BY <1>1, <1>7, <1>8, SeqEqual
<1> QED
    BY <1>4, <1>9 DEF StrAt, a, e

\* The parts of a record, and that none is taken for Torn.
LEMMA RecordFacts ==
    ASSUME NEW r \in Records
    PROVE  /\ r.op \in Byte /\ r.op \in {PutOp, DelOp}
           /\ r.key \in Keys /\ r.key \in Strings /\ r.value \in Strings
           /\ r # Torn
<1>1. \A s \in Keys \cup Values : s \in Strings
    BY StringFacts, StringsAssumption, LengthsAssumption
<1>2. <<>> \in Strings
    BY EmptyIsString
<1>3. 0 \in Byte /\ 1 \in Byte
    BY BytesAssumption DEF Byte
<1> QED
    BY <1>1, <1>2, <1>3, SentinelsAssumption DEF Records, PutOp, DelOp

\* Two strings one behind the other ...
LEMMA Joined ==
    ASSUME NEW s \in Seq(Byte), NEW n \in Nat, Len(s) = n,
           NEW t \in Seq(Byte), NEW m \in Nat, Len(t) = m
    PROVE  /\ s \o t \in Seq(Byte) /\ Len(s \o t) = n + m
           /\ \A i \in 1..n : (s \o t)[i] = s[i]
           /\ \A i \in 1..m : (s \o t)[n + i] = t[i]
<1> DEFINE st == s \o t
<1>1. /\ st \in Seq(Byte) /\ Len(st) = n + m
      /\ \A i \in 1..(n + m) : st[i] = IF i <= n THEN s[i] ELSE t[i - n]
    BY ConcatProperties
<1> HIDE DEF st
<1>2. \A i \in 1..n : st[i] = s[i]
    BY <1>1
<1>3. \A i \in 1..m : st[n + i] = t[i]
    BY <1>1
<1> QED
    BY <1>1, <1>2, <1>3 DEF st

\* ... and a byte in front of one.
LEMMA Preceded ==
    ASSUME NEW o \in Byte, NEW t \in Seq(Byte), NEW m \in Nat, Len(t) = m
    PROVE  /\ <<o>> \o t \in Seq(Byte) /\ Len(<<o>> \o t) = 1 + m
           /\ (<<o>> \o t)[1] = o
           /\ \A i \in 1..m : (<<o>> \o t)[1 + i] = t[i]
<1> DEFINE os == <<o>>
           st == os \o t
<1>1. os \in Seq(Byte) /\ Len(os) = 1 /\ os[1] = o
    OBVIOUS
<1> HIDE DEF os
<1>2. /\ st \in Seq(Byte) /\ Len(st) = 1 + m
      /\ \A i \in 1..(1 + m) : st[i] = IF i <= 1 THEN os[i] ELSE t[i - 1]
    <2>1. /\ st \in Seq(Byte) /\ Len(st) = Len(os) + Len(t)
          /\ \A i \in 1..(Len(os) + Len(t)) :
                st[i] = IF i <= Len(os) THEN os[i] ELSE t[i - Len(os)]
        BY <1>1, ConcatProperties
    <2> HIDE DEF st
    <2> QED
        BY <1>1, <2>1
<1> HIDE DEF st
<1>3. st[1] = o
    BY <1>1, <1>2
<1>4. \A i \in 1..m : st[1 + i] = t[i]
    BY <1>2
<1> QED
    BY <1>2, <1>3, <1>4 DEF st, os

\* wstr: the length, then the bytes.
LEMMA FieldFacts ==
    ASSUME NEW s \in Strings, NEW n \in Nat, Len(s) = n
    PROVE  /\ StrField(s) \in Seq(Byte) /\ Len(StrField(s)) = LenBytes + n
           /\ \A i \in 1..LenBytes : StrField(s)[i] = LenField(n)[i]
           /\ \A i \in 1..n : StrField(s)[LenBytes + i] = s[i]
<1> DEFINE lf == LenField(n)
<1>1. s \in Seq(Byte) /\ n < Weight[LenBytes] /\ LenBytes \in Nat
    BY StringFacts, BytesAssumption
<1>2. lf \in [1..LenBytes -> Byte]
    BY <1>1, LengthFromBytes
<1>3. StrField(s) = lf \o s
    BY DEF StrField
<1> HIDE DEF lf
<1>4. lf \in Seq(Byte) /\ Len(lf) = LenBytes
    BY <1>1, <1>2
<1>5. /\ lf \o s \in Seq(Byte) /\ Len(lf \o s) = LenBytes + n
      /\ \A i \in 1..LenBytes : (lf \o s)[i] = lf[i]
      /\ \A i \in 1..n : (lf \o s)[LenBytes + i] = s[i]
    BY <1>1, <1>4, Joined
<1> QED
    BY <1>3, <1>5 DEF lf

\* What append() writes, and where the parts of it are.
RecordBytes(o, k, v) == <<o>> \o StrField(k) \o StrField(v)

LaidOut(e, o, k, v, n, m) ==
    /\ e \in Seq(Byte) /\ Len(e) = (1 + LenBytes + n) + (LenBytes + m)
    /\ e[1] = o
    /\ \A i \in 1..LenBytes : e[1 + i] = LenField(n)[i]
    /\ \A i \in 1..n : e[1 + LenBytes + i] = k[i]
    /\ \A i \in 1..LenBytes : e[1 + LenBytes + n + i] = LenField(m)[i]
    /\ \A i \in 1..m : e[1 + LenBytes + n + LenBytes + i] = v[i]

\* The op byte, the key and the value of a record, each at its place.
LEMMA Layout ==
    ASSUME NEW o \in Byte, NEW k \in Strings, NEW v \in Strings
    PROVE  LaidOut(RecordBytes(o, k, v), o, k, v, Len(k), Len(v))
<1> DEFINE e == RecordBytes(o, k, v)
<1>1. PICK n \in Nat : Len(k) = n
    BY StringFacts
<1>2. PICK m \in Nat : Len(v) = m
    BY StringFacts
<1> DEFINE kf == StrField(k)
           vf == StrField(v)
           f  == <<o>> \o kf
<1>3. LenBytes \in Nat
    BY BytesAssumption
<1>5. /\ kf \in Seq(Byte) /\ Len(kf) = LenBytes + n
      /\ \A i \in 1..LenBytes : kf[i] = LenField(n)[i]
      /\ \A i \in 1..n : kf[LenBytes + i] = k[i]
    BY <1>1, FieldFacts
<1>6. /\ vf \in Seq(Byte) /\ Len(vf) = LenBytes + m
      /\ \A i \in 1..LenBytes : vf[i] = LenField(m)[i]
      /\ \A i \in 1..m : vf[LenBytes + i] = v[i]
    BY <1>2, FieldFacts
<1> HIDE DEF kf, vf
<1>7. /\ f \in Seq(Byte) /\ Len(f) = 1 + (LenBytes + n)
      /\ f[1] = o
      /\ \A i \in 1..(LenBytes + n) : f[1 + i] = kf[i]
    <2> DEFINE a == LenBytes + n
    <2>1. a \in Nat /\ kf \in Seq(Byte) /\ Len(kf) = a
        BY <1>3, <1>5
    <2> HIDE DEF a
    <2> QED
        BY <2>1, Preceded DEF a
<1>8. e = f \o vf
    BY DEF f, kf, vf, RecordBytes
<1> HIDE DEF e, f
<1>9. /\ e \in Seq(Byte) /\ Len(e) = (1 + (LenBytes + n)) + (LenBytes + m)
      /\ \A i \in 1..(1 + (LenBytes + n)) : e[i] = f[i]
      /\ \A i \in 1..(LenBytes + m) : e[(1 + (LenBytes + n)) + i] = vf[i]
    <2> DEFINE a == 1 + (LenBytes + n)
               b == LenBytes + m
    <2>1. a \in Nat /\ b \in Nat /\ Len(f) = a /\ Len(vf) = b
        BY <1>3, <1>6, <1>7
    <2> HIDE DEF a, b
    <2>2. f \in Seq(Byte) /\ vf \in Seq(Byte)
        BY <1>6, <1>7
    <2>3. f \o vf \in Seq(Byte) /\ Len(f \o vf) = a + b
        BY <2>1, <2>2, Joined
    <2>4. \A i \in 1..a : (f \o vf)[i] = f[i]
        BY <2>1, <2>2, Joined
    <2>5. ASSUME NEW i \in 1..b
          PROVE  (f \o vf)[a + i] = vf[i]
        BY <2>1, <2>2, Joined
    <2> QED
        BY <1>8, <2>3, <2>4, <2>5 DEF a, b
<1>10. e[1] = o
    BY <1>3, <1>7, <1>9
<1>11. ASSUME NEW i \in 1..LenBytes
      PROVE  e[1 + i] = LenField(n)[i]
    <2>1. i \in 1..(LenBytes + n) /\ 1 + i \in 1..(1 + (LenBytes + n))
        BY <1>3
    <2> QED
        BY <1>5, <1>7, <1>9, <2>1
<1>12. ASSUME NEW i \in 1..n
       PROVE  e[1 + LenBytes + i] = k[i]
    <2>1. /\ LenBytes + i \in 1..(LenBytes + n)
          /\ 1 + (LenBytes + i) \in 1..(1 + (LenBytes + n))
          /\ 1 + (LenBytes + i) = 1 + LenBytes + i
        BY <1>3
    <2>2. e[1 + (LenBytes + i)] = k[i]
        BY <1>5, <1>7, <1>9, <2>1
    <2> QED
        BY <2>1, <2>2
<1>13. ASSUME NEW i \in 1..LenBytes
       PROVE  e[1 + LenBytes + n + i] = LenField(m)[i]
    <2>1. /\ i \in 1..(LenBytes + m)
          /\ (1 + (LenBytes + n)) + i = 1 + LenBytes + n + i
        BY <1>3
    <2>2. e[(1 + (LenBytes + n)) + i] = LenField(m)[i]
        BY <1>6, <1>9, <2>1
    <2> QED
        BY <2>1, <2>2
<1>14. ASSUME NEW i \in 1..m
       PROVE  e[1 + LenBytes + n + LenBytes + i] = v[i]
    <2>1. /\ LenBytes + i \in 1..(LenBytes + m)
          /\ (1 + (LenBytes + n)) + (LenBytes + i) = 1 + LenBytes + n + LenBytes + i
        BY <1>3
    <2>2. e[(1 + (LenBytes + n)) + (LenBytes + i)] = v[i]
        BY <1>6, <1>9, <2>1
    <2> QED
        BY <2>1, <2>2
<1>15. (1 + (LenBytes + n)) + (LenBytes + m) = (1 + LenBytes + n) + (LenBytes + m)
    BY <1>3
<1>16. LaidOut(e, o, k, v, n, m)
    BY <1>9, <1>10, <1>11, <1>12, <1>13, <1>14, <1>15 DEF LaidOut
<1> QED
    BY <1>1, <1>2, <1>16 DEF e

\* The reader takes a whole record for what it is ...
LEMMA PartsRead ==
    ASSUME file \in Seq(Byte), pos \in Nat,
           NEW o \in Byte, NEW k \in Strings, NEW v \in Strings,
           NEW e, e = RecordBytes(o, k, v),
           pos + Len(e) <= Len(file), Holds(pos, pos + Len(e), e)
    PROVE  /\ pos < Len(file) /\ Whole
           /\ file[pos + 1] = o /\ StrAt(pos + 1) = k
           /\ StrAt(StrEnd(pos + 1)) = v
           /\ StrEnd(StrEnd(pos + 1)) = pos + Len(e)
<1>1. PICK n \in Nat : Len(k) = n /\ n < Weight[LenBytes]
    BY StringFacts
<1>2. PICK m \in Nat : Len(v) = m /\ m < Weight[LenBytes]
    BY StringFacts
<1>0. LaidOut(e, o, k, v, n, m)
    BY <1>1, <1>2, Layout
<1>3. /\ Len(e) = (1 + LenBytes + n) + (LenBytes + m)
      /\ e[1] = o
      /\ \A i \in 1..LenBytes : e[1 + i] = LenField(n)[i]
      /\ \A i \in 1..n : e[1 + LenBytes + i] = k[i]
      /\ \A i \in 1..LenBytes : e[1 + LenBytes + n + i] = LenField(m)[i]
      /\ \A i \in 1..m : e[1 + LenBytes + n + LenBytes + i] = v[i]
    BY <1>0 DEF LaidOut
<1>4. LenBytes \in Nat /\ Len(file) \in Nat
    BY BytesAssumption
<1>5. \A i \in 1..Len(e) : file[pos + i] = e[i]
    <2>1. (pos + Len(e)) - pos = Len(e)
        BY <1>3, <1>4
    <2> QED
        BY <2>1 DEF Holds
<1> DEFINE p == pos + 1
           q == pos + 1 + LenBytes + n
<1>6. p \in Nat /\ q \in Nat /\ q = p + LenBytes + n
    BY <1>4
<1>7. Holds(p, p + LenBytes, LenField(n))
    <2>1. ASSUME NEW i \in 1..LenBytes
          PROVE  file[p + i] = LenField(n)[i]
        <3>1. 1 + i \in 1..Len(e) /\ pos + (1 + i) = p + i
            BY <1>3, <1>4
        <3> QED
            BY <1>3, <1>5, <3>1
    <2>2. (p + LenBytes) - p = LenBytes
        BY <1>4, <1>6
    <2> HIDE DEF p
    <2> QED
        BY <2>1, <2>2 DEF Holds
<1>8. Holds(p + LenBytes, p + LenBytes + n, k)
    <2>1. ASSUME NEW i \in 1..n
          PROVE  file[(p + LenBytes) + i] = k[i]
        <3>1. /\ 1 + LenBytes + i \in 1..Len(e)
              /\ pos + (1 + LenBytes + i) = (p + LenBytes) + i
            BY <1>3, <1>4
        <3>2. file[pos + (1 + LenBytes + i)] = k[i]
            BY <1>3, <1>5, <3>1
        <3> QED
            BY <3>1, <3>2
    <2>2. (p + LenBytes + n) - (p + LenBytes) = n
        BY <1>4, <1>6
    <2> HIDE DEF p
    <2> QED
        BY <2>1, <2>2 DEF Holds
<1>9. Holds(q, q + LenBytes, LenField(m))
    <2>1. ASSUME NEW i \in 1..LenBytes
          PROVE  file[q + i] = LenField(m)[i]
        <3>1. /\ 1 + LenBytes + n + i \in 1..Len(e)
              /\ pos + (1 + LenBytes + n + i) = q + i
            BY <1>3, <1>4
        <3>2. file[pos + (1 + LenBytes + n + i)] = LenField(m)[i]
            BY <1>3, <1>5, <3>1
        <3> QED
            BY <3>1, <3>2
    <2>2. (q + LenBytes) - q = LenBytes
        BY <1>4, <1>6
    <2> HIDE DEF q
    <2> QED
        BY <2>1, <2>2 DEF Holds
<1>10. Holds(q + LenBytes, q + LenBytes + m, v)
    <2>1. ASSUME NEW i \in 1..m
          PROVE  file[(q + LenBytes) + i] = v[i]
        <3>1. /\ 1 + LenBytes + n + LenBytes + i \in 1..Len(e)
              /\ pos + (1 + LenBytes + n + LenBytes + i) = (q + LenBytes) + i
            BY <1>3, <1>4
        <3>2. file[pos + (1 + LenBytes + n + LenBytes + i)] = v[i]
            BY <1>3, <1>5, <3>1
        <3> QED
            BY <3>1, <3>2
    <2>2. (q + LenBytes + m) - (q + LenBytes) = m
        BY <1>4, <1>6
    <2> HIDE DEF q
    <2> QED
        BY <2>1, <2>2 DEF Holds
<1>11. /\ p + LenBytes + n <= Len(file) /\ q + LenBytes + m <= Len(file)
       /\ q + LenBytes + m = pos + Len(e) /\ pos < Len(file)
    BY <1>3, <1>4
<1>12. file[p] = o
    <2>1. 1 \in 1..Len(e)
        BY <1>3, <1>4
    <2> QED
        BY <1>3, <1>5, <2>1
<1> HIDE DEF p, q
<1>13. HasStr(p) /\ StrEnd(p) = q /\ StrAt(p) = k
    BY <1>1, <1>6, <1>7, <1>8, <1>11, StringRead
<1>14. HasStr(q) /\ StrEnd(q) = q + LenBytes + m /\ StrAt(q) = v
    BY <1>2, <1>6, <1>9, <1>10, <1>11, StringRead
<1>15. /\ HasStr(p) /\ HasStr(StrEnd(p)) /\ StrAt(StrEnd(p)) = v
       /\ StrEnd(StrEnd(p)) = pos + Len(e)
    BY <1>11, <1>13, <1>14
<1> QED
    BY <1>11, <1>12, <1>13, <1>15 DEF p, Whole

\* ... and finds that one which was cut is not whole, wherever it was cut.
LEMMA PartsCut ==
    ASSUME file \in Seq(Byte), pos \in Nat,
           NEW o \in Byte, NEW k \in Strings, NEW v \in Strings,
           NEW e, e = RecordBytes(o, k, v),
           pos < Len(file), Len(file) < pos + Len(e), Holds(pos, Len(file), e)
    PROVE  ~ Whole
<1>1. PICK n \in Nat : Len(k) = n /\ n < Weight[LenBytes]
    BY StringFacts
<1>2. PICK m \in Nat : Len(v) = m /\ m < Weight[LenBytes]
    BY StringFacts
<1>0. LaidOut(e, o, k, v, n, m)
    BY <1>1, <1>2, Layout
<1>3. /\ Len(e) = (1 + LenBytes + n) + (LenBytes + m)
      /\ \A i \in 1..LenBytes : e[1 + i] = LenField(n)[i]
      /\ \A i \in 1..LenBytes : e[1 + LenBytes + n + i] = LenField(m)[i]
    BY <1>0 DEF LaidOut
<1>4. LenBytes \in Nat /\ Len(file) \in Nat
    BY BytesAssumption
<1>5. \A i \in 1..(Len(file) - pos) : file[pos + i] = e[i]
    BY DEF Holds
<1> DEFINE p == pos + 1
           q == pos + 1 + LenBytes + n
<1>6. p \in Nat /\ q \in Nat /\ q = p + LenBytes + n
    BY <1>4
<1>7. ASSUME HasStr(p)
      PROVE  StrEnd(p) = q
    <2>1. p + LenBytes <= Len(file)
        BY <1>7 DEF HasStr
    <2>2. ASSUME NEW i \in 1..LenBytes
          PROVE  file[p + i] = LenField(n)[i]
        <3>1. 1 + i \in 1..(Len(file) - pos) /\ pos + (1 + i) = p + i
            BY <1>4, <2>1
        <3> QED
            BY <1>3, <1>5, <3>1
    <2>3. (p + LenBytes) - p = LenBytes
        BY <1>4, <1>6
    <2> HIDE DEF p
    <2>4. Holds(p, p + LenBytes, LenField(n))
        BY <2>2, <2>3 DEF Holds
    <2>5. LenAt(p) = n
        BY <1>1, <1>6, <2>1, <2>4, LengthRead
    <2> QED
        BY <1>6, <2>5 DEF StrEnd
<1>8. ASSUME HasStr(q)
      PROVE  FALSE
    <2>1. q + LenBytes <= Len(file)
        BY <1>8 DEF HasStr
    <2>2. ASSUME NEW i \in 1..LenBytes
          PROVE  file[q + i] = LenField(m)[i]
        <3>1. /\ 1 + LenBytes + n + i \in 1..(Len(file) - pos)
              /\ pos + (1 + LenBytes + n + i) = q + i
            BY <1>4, <2>1
        <3>2. file[pos + (1 + LenBytes + n + i)] = LenField(m)[i]
            BY <1>3, <1>5, <3>1
        <3> QED
            BY <3>1, <3>2
    <2>3. (q + LenBytes) - q = LenBytes
        BY <1>4, <1>6
    <2>4. q + LenBytes + m = pos + Len(e)
        <3>1. Len(e) = (1 + LenBytes + n) + (LenBytes + m)
            BY <1>3
        <3> QED
            BY <1>4, <3>1
    <2> HIDE DEF q
    <2>5. Holds(q, q + LenBytes, LenField(m))
        BY <2>2, <2>3 DEF Holds
    <2>6. LenAt(q) = m
        BY <1>2, <1>6, <2>1, <2>5, LengthRead
    <2>7. StrEnd(q) = pos + Len(e) /\ StrEnd(q) <= Len(file)
        BY <1>8, <2>4, <2>6 DEF StrEnd, HasStr
    <2>8. Len(e) \in Nat
        BY <1>3, <1>4
    <2> QED
        BY <1>4, <2>7, <2>8
<1> HIDE DEF q
<1> QED
    BY <1>7, <1>8 DEF Whole, p

\* A record is at least one byte long.
LEMMA EncodedFacts ==
    ASSUME NEW r \in Records
    PROVE  /\ Encoded(r) = RecordBytes(r.op, r.key, r.value)
           /\ Encoded(r) \in Seq(Byte) /\ Len(Encoded(r)) \in Nat \ {0}
<1>1. Encoded(r) = RecordBytes(r.op, r.key, r.value)
    BY DEF Encoded, RecordBytes
<1>2. PICK o \in Byte, k \in Strings, v \in Strings : Encoded(r) = RecordBytes(o, k, v)
    BY <1>1, RecordFacts
<1>3. PICK n \in Nat, m \in Nat : n = Len(k) /\ m = Len(v)
    BY StringFacts
<1>4. LaidOut(Encoded(r), o, k, v, n, m)
    BY <1>2, <1>3, Layout
<1>5. /\ Encoded(r) \in Seq(Byte)
      /\ Len(Encoded(r)) = (1 + LenBytes + n) + (LenBytes + m)
    BY <1>4 DEF LaidOut
<1>6. Len(Encoded(r)) \in Nat \ {0}
    BY <1>5, BytesAssumption
<1> QED
    BY <1>1, <1>5, <1>6

\* The same, for a record of the log.
LEMMA RecordRead ==
    ASSUME file \in Seq(Byte), pos \in Nat, NEW r \in Records, NEW n \in Nat,
           n = pos + Len(Encoded(r)), n <= Len(file), Holds(pos, n, Encoded(r))
    PROVE  /\ pos < Len(file) /\ Whole
           /\ file[pos + 1] = r.op /\ StrAt(pos + 1) = r.key
           /\ StrAt(StrEnd(pos + 1)) = r.value
           /\ StrEnd(StrEnd(pos + 1)) = n
<1>1. r.op \in Byte /\ r.key \in Strings /\ r.value \in Strings
    BY RecordFacts
<1>2. Encoded(r) = RecordBytes(r.op, r.key, r.value)
    BY EncodedFacts
<1> QED
    BY <1>1, <1>2, PartsRead

\* And for one that was cut.
LEMMA RecordCut ==
    ASSUME file \in Seq(Byte), pos \in Nat, NEW r \in Records,
           pos < Len(file), Len(file) < pos + Len(Encoded(r)),
           Holds(pos, Len(file), Encoded(r))
    PROVE  ~ Whole
<1>1. r.op \in Byte /\ r.key \in Strings /\ r.value \in Strings
    BY RecordFacts
<1>2. Encoded(r) = RecordBytes(r.op, r.key, r.value)
    BY EncodedFacts
<1> QED
    BY <1>1, <1>2, PartsCut

\* Whatever is read for a record could have been written.
LEMMA AnyRecordRead ==
    ASSUME file \in Seq(Byte), pos \in Nat, Whole
    PROVE  /\ StrAt(pos + 1) \in Strings /\ StrAt(StrEnd(pos + 1)) \in Strings
           /\ StrEnd(StrEnd(pos + 1)) \in Nat
<1>1. HasStr(pos + 1) /\ HasStr(StrEnd(pos + 1)) /\ pos + 1 \in Nat
    BY DEF Whole
<1>2. StrAt(pos + 1) \in Strings /\ StrEnd(pos + 1) \in Nat
    BY <1>1, AnyStringRead
<1> QED
    BY <1>1, <1>2, AnyStringRead


-----------------------------------------------------------------------------
(* The records of the segment, as LsmTables sees them.                     *)

LP == INSTANCE LsmTablesProofs WITH Key <- Keys, Value <- Strings

\* The operators on tables and logs, as WriteAhead and as LsmTablesProofs name them.
LEMMA SameTables ==
    /\ L!Record = LP!Record /\ L!Log = LP!Log /\ L!Table = LP!Table
    /\ L!EmptyTable = LP!EmptyTable
    /\ \A l : /\ L!Whole(l) = LP!Whole(l) /\ L!Replay(l) = LP!Replay(l)
              /\ L!BuriedTear(l) <=> LP!BuriedTear(l)
              /\ \A k, i : L!IsLastFor(l, k, i) <=> LP!IsLastFor(l, k, i)
    /\ \A t, k, e : L!SetEntry(t, k, e) = LP!SetEntry(t, k, e)
BY DEF L!Record, LP!Record, L!Log, LP!Log, L!Table, LP!Table, L!Entry, LP!Entry,
    L!Written, LP!Written, L!EmptyTable, LP!EmptyTable, L!Whole, LP!Whole,
    L!Replay, LP!Replay, L!IsLastFor, LP!IsLastFor, L!BuriedTear, LP!BuriedTear,
    L!SetEntry, LP!SetEntry

\* The assumptions of LsmTables hold of strings.
LEMMA SentinelFacts ==
    /\ Tombstone \notin Strings
    /\ NoEntry \notin Strings \cup {Tombstone}
    /\ Torn \notin LP!Record
BY SentinelsAssumption, SameTables

Untorn(l) == \A i \in DOMAIN l : l[i] # Torn

\* An empty segment yields an empty table.
LEMMA ReplayOfNothing ==
    /\ L!Replay(<<>>) = L!EmptyTable /\ L!EmptyTable \in L!Table
    /\ ~ L!BuriedTear(<<>>)
<1>1. LP!Replay(<<>>) = LP!EmptyTable /\ ~ LP!BuriedTear(<<>>)
    BY LP!ReplayOfNothing, SentinelFacts
<1>2. L!EmptyTable \in L!Table
    BY DEF L!EmptyTable, L!Table, L!Entry
<1> QED
    BY <1>1, <1>2, SameTables

\* A replay yields a table.
LEMMA ReplayIsTable ==
    ASSUME NEW l \in L!Log
    PROVE  L!Replay(l) \in L!Table
<1>1. l \in LP!Log
    BY SameTables
<1>2. LP!Replay(l) \in LP!Table
    BY <1>1, LP!ReplayIsTable, SentinelFacts
<1> QED
    BY <1>2, SameTables

\* A record at the end of a log without cuts sets the entry of its key.
LEMMA ReplayOfAppend ==
    ASSUME NEW l \in L!Log, NEW r \in L!Record, Untorn(l)
    PROVE  L!Replay(Append(l, r)) = L!SetEntry(L!Replay(l), r.key, r.entry)
<1>1. LP!Untorn(l)
    BY DEF LP!Untorn, Untorn
<1>2. l \in LP!Log /\ r \in LP!Record
    BY SameTables
<1>3. LP!Replay(Append(l, r)) = LP!SetEntry(LP!Replay(l), r.key, r.entry)
    BY <1>1, <1>2, LP!ReplayOfAppend, SentinelFacts
<1> QED
    BY <1>3, SameTables

\* Replays agree when the records in front of the first cut do.
LEMMA ReplayOfSameWhole ==
    ASSUME NEW l, NEW s, L!Whole(l) = L!Whole(s), \A i \in L!Whole(l) : l[i] = s[i]
    PROVE  L!Replay(l) = L!Replay(s)
<1>1. \A k, i : L!IsLastFor(l, k, i) <=> L!IsLastFor(s, k, i)
    BY DEF L!IsLastFor
<1>2. ASSUME NEW k \in Keys
      PROVE  L!Replay(l)[k] = L!Replay(s)[k]
    <2> DEFINE hit(x) == \E i \in L!Whole(x) : L!IsLastFor(x, k, i)
               at(x)  == CHOOSE i \in L!Whole(x) : L!IsLastFor(x, k, i)
    <2>1. hit(l) <=> hit(s)
        BY <1>1
    <2>2. at(l) = at(s)
        BY <1>1
    <2>3. hit(l) => at(l) \in L!Whole(l)
        OBVIOUS
    <2>4. L!Replay(l)[k] = IF hit(l) THEN l[at(l)].entry ELSE NoEntry
        BY DEF L!Replay
    <2>5. L!Replay(s)[k] = IF hit(s) THEN s[at(s)].entry ELSE NoEntry
        BY DEF L!Replay
    <2> HIDE DEF hit, at
    <2> QED
        BY <2>1, <2>2, <2>3, <2>4, <2>5
<1>3. /\ L!Replay(l) = [k \in Keys |-> L!Replay(l)[k]]
      /\ L!Replay(s) = [k \in Keys |-> L!Replay(s)[k]]
    BY DEF L!Replay
<1> QED
    BY <1>2, <1>3

AsRecord(r) == [key |-> r.key, entry |-> EntryIn(r.op, r.value)]

\* A WalRecord is a record of LsmTables.
LEMMA AsRecordFacts ==
    ASSUME NEW r \in Records
    PROVE  AsRecord(r) \in L!Record /\ AsRecord(r) # Torn
<1>1. r.key \in Keys /\ EntryIn(r.op, r.value) \in L!Written
    BY RecordFacts DEF EntryIn, L!Written
<1> QED
    BY <1>1, SentinelsAssumption DEF AsRecord, L!Record

\* AbstractLog is a log, Torn where log is.
LEMMA AbstractFacts ==
    ASSUME log \in Seq(Records \cup {Torn})
    PROVE  /\ AbstractLog \in L!Log /\ Len(AbstractLog) = Len(log)
           /\ DOMAIN AbstractLog = 1..Len(log)
           /\ \A i \in 1..Len(log) :
                 /\ log[i] = Torn => AbstractLog[i] = Torn
                 /\ log[i] # Torn => /\ log[i] \in Records
                                     /\ AbstractLog[i] = AsRecord(log[i])
                                     /\ AbstractLog[i] \in L!Record
                                     /\ AbstractLog[i] # Torn
<1>1. DOMAIN AbstractLog = 1..Len(log) /\ Len(log) \in Nat
    BY DEF AbstractLog
<1>2. ASSUME NEW i \in 1..Len(log)
      PROVE  /\ log[i] = Torn => AbstractLog[i] = Torn
             /\ log[i] # Torn => log[i] \in Records /\ AbstractLog[i] = AsRecord(log[i])
    BY <1>2 DEF AbstractLog, AsRecord
<1>3. ASSUME NEW i \in 1..Len(log), log[i] # Torn
      PROVE  AbstractLog[i] \in L!Record /\ AbstractLog[i] # Torn
    BY <1>2, <1>3, AsRecordFacts
<1>4. AbstractLog \in [1..Len(log) -> L!Record \cup {Torn}]
    <2>1. ASSUME NEW i \in 1..Len(log)
          PROVE  AbstractLog[i] \in L!Record \cup {Torn}
        BY <1>2, <1>3
    <2> QED
        BY <1>1, <2>1 DEF AbstractLog
<1>5. AbstractLog \in L!Log /\ Len(AbstractLog) = Len(log)
    BY <1>1, <1>4 DEF L!Log
<1> QED
    BY <1>1, <1>2, <1>3, <1>5

\* The first j records.
Front(j) == [i \in 1..j |-> AbstractLog[i]]

\* It grows record by record to the whole log.
LEMMA FrontFacts ==
    ASSUME log \in Seq(Records \cup {Torn})
    PROVE  /\ Front(0) = <<>> /\ Front(Len(log)) = AbstractLog
           /\ \A j \in 0..Len(log) :
                 /\ Front(j) \in L!Log
                 /\ DOMAIN Front(j) = 1..j /\ \A i \in 1..j : Front(j)[i] = AbstractLog[i]
           /\ \A j \in 1..Len(log) : Front(j) = Append(Front(j - 1), AbstractLog[j])
<1>1. /\ AbstractLog \in L!Log /\ DOMAIN AbstractLog = 1..Len(log)
      /\ Len(AbstractLog) = Len(log) /\ Len(log) \in Nat
    BY AbstractFacts
<1>2. \A i \in 1..Len(log) : AbstractLog[i] \in L!Record \cup {Torn}
    BY <1>1 DEF L!Log
<1>3. Front(0) = <<>>
    BY DEF Front
<1>4. Front(Len(log)) = AbstractLog
    BY <1>1 DEF Front, L!Log
<1>5. ASSUME NEW j \in 0..Len(log)
      PROVE  /\ Front(j) \in L!Log /\ Len(Front(j)) = j
             /\ DOMAIN Front(j) = 1..j /\ \A i \in 1..j : Front(j)[i] = AbstractLog[i]
    <2>1. \A i \in 1..j : AbstractLog[i] \in L!Record \cup {Torn}
        BY <1>2
    <2>2. Front(j) \in [1..j -> L!Record \cup {Torn}]
        BY <2>1 DEF Front
    <2> QED
        BY <2>2 DEF Front, L!Log
<1>6. ASSUME NEW j \in 1..Len(log)
      PROVE  Front(j) = Append(Front(j - 1), AbstractLog[j])
    <2>1. j - 1 \in 0..Len(log) /\ j \in 0..Len(log)
        BY <1>1
    <2>2. Front(j - 1) \in L!Log /\ Len(Front(j - 1)) = j - 1 /\ Front(j) \in L!Log
        BY <1>5, <2>1
    <2>3. AbstractLog[j] \in L!Record \cup {Torn}
        BY <1>2
    <2> DEFINE f == Front(j - 1)
               x == AbstractLog[j]
    <2>4. /\ \A i \in 1..(j - 1) : f[i] = AbstractLog[i]
          /\ \A i \in 1..j : Front(j)[i] = AbstractLog[i]
        BY <1>5, <2>1
    <2>5. Front(j)[j] = x
        BY <2>4
    <2>6. Len(Front(j)) = j
        BY <1>5, <2>1
    <2> HIDE DEF f, x
    <2>7. /\ Append(f, x) \in Seq(L!Record \cup {Torn}) /\ Len(Append(f, x)) = j
          /\ \A i \in 1..(j - 1) : Append(f, x)[i] = f[i]
          /\ Append(f, x)[j] = x
        <3>1. f \in Seq(L!Record \cup {Torn}) /\ x \in L!Record \cup {Torn} /\ Len(f) = j - 1
            BY <2>2, <2>3 DEF f, x, L!Log
        <3> QED
            BY <3>1, AppendProperties
    <2>8. \A i \in 1..j : Append(f, x)[i] = Front(j)[i]
        <3>1. ASSUME NEW i \in 1..j
              PROVE  Append(f, x)[i] = Front(j)[i]
            <4>1. CASE i = j
                BY <2>5, <2>7, <4>1
            <4>2. CASE i \in 1..(j - 1)
                <5>1. Append(f, x)[i] = f[i]
                    BY <2>7, <4>2
                <5>2. f[i] = AbstractLog[i]
                    BY <2>4, <4>2
                <5>3. Front(j)[i] = AbstractLog[i]
                    BY <2>4
                <5> QED
                    BY <5>1, <5>2, <5>3
            <4>3. i = j \/ i \in 1..(j - 1)
                BY <1>1
            <4> QED
                BY <4>1, <4>2, <4>3
        <3> QED
            BY <3>1
    <2>9. Front(j) = Append(f, x)
        BY <2>2, <2>6, <2>7, <2>8, SeqEqual DEF L!Log
    <2> QED
        BY <2>9 DEF f, x
<1> QED
    BY <1>3, <1>4, <1>5, <1>6

\* The records in front of the first cut one are those that are replayed.
LEMMA ReplayToTear ==
    ASSUME log \in Seq(Records \cup {Torn}), NEW j \in 1..Len(log),
           log[j] = Torn, \A i \in 1..(j - 1) : log[i] # Torn
    PROVE  L!Replay(AbstractLog) = L!Replay(Front(j - 1))
<1>1. j - 1 \in 0..Len(log) /\ Len(log) \in Nat
    OBVIOUS
<1>2. /\ DOMAIN AbstractLog = 1..Len(log) /\ AbstractLog[j] = Torn
      /\ \A i \in 1..(j - 1) : AbstractLog[i] # Torn
    BY <1>1, AbstractFacts
<1>3. DOMAIN Front(j - 1) = 1..(j - 1) /\ \A i \in 1..(j - 1) : Front(j - 1)[i] = AbstractLog[i]
    BY <1>1, FrontFacts
<1>4. L!Whole(AbstractLog) = 1..(j - 1)
    BY <1>1, <1>2 DEF L!Whole
<1>5. L!Whole(Front(j - 1)) = 1..(j - 1)
    BY <1>2, <1>3 DEF L!Whole
<1> QED
    BY <1>3, <1>4, <1>5, ReplayOfSameWhole

\* In front of the first cut there is none.
LEMMA FrontUntorn ==
    ASSUME log \in Seq(Records \cup {Torn}), NEW j \in 0..Len(log),
           \A i \in 1..j : log[i] # Torn
    PROVE  Untorn(Front(j))
<1>1. DOMAIN Front(j) = 1..j /\ \A i \in 1..j : Front(j)[i] = AbstractLog[i]
    BY FrontFacts
<1>2. \A i \in 1..j : AbstractLog[i] # Torn
    BY AbstractFacts
<1> QED
    BY <1>1, <1>2 DEF Untorn

-----------------------------------------------------------------------------
(* The MemTable, as LsmTables sees it.                                     *)

\* An empty MemTable shows nothing.
LEMMA ViewOfCleared == memtable = Cleared => View = L!EmptyTable
BY DEF View, Cleared, Knows, L!EmptyTable

\* Any other shows a table.
LEMMA ViewIsTable ==
    ASSUME Exact(memtable)
    PROVE  View \in L!Table
<1>1. ASSUME NEW k \in Keys
      PROVE  View[k] \in L!Entry
    <2>1. CASE Knows(memtable, k)
        <3>1. memtable.data[k] \in MemEntries
            BY <2>1 DEF Exact, Knows
        <3> QED
            BY <2>1, <3>1 DEF View, MemEntries, L!Entry, L!Written
    <2>2. CASE ~ Knows(memtable, k)
        BY <2>2 DEF View, L!Entry
    <2> QED
        BY <2>1, <2>2
<1> QED
    BY <1>1 DEF View, L!Table

\* Replaying a record, or applying a write, sets one entry; on a key of no client
\* it changes nothing that a client sees.
LEMMA ViewOfReplayed ==
    ASSUME Exact(memtable), NEW op, NEW k \in Seq(Byte), NEW v \in Strings,
           memtable' = Replayed(op, k, v)
    PROVE  /\ Exact(memtable)'
           /\ View' = IF k \in Keys THEN L!SetEntry(View, k, EntryIn(op, v)) ELSE View
<1> DEFINE e == IF op = PutOp THEN [value |-> v, tombstone |-> FALSE]
                ELSE [value |-> <<>>, tombstone |-> TRUE]
<1>1. memtable' = Set(memtable, k, e)
    BY DEF Replayed, Put, Del
<1>2. Exact(memtable)'
    <2>1. Exact(Put(memtable, k, v)) /\ Exact(Del(memtable, k))
        BY ReplayedIsExact
    <2>2. Exact(memtable')
        BY <2>1 DEF Replayed
    <2> QED
        BY <2>2 DEF Exact
<1>3. /\ DOMAIN memtable'.data = DOMAIN memtable.data \cup {k}
      /\ \A i \in DOMAIN memtable.data \cup {k} :
            memtable'.data[i] = IF i = k THEN e ELSE memtable.data[i]
    BY <1>1 DEF Set, With
<1>4. EntryIn(op, v) = IF e.tombstone THEN Tombstone ELSE e.value
    BY DEF EntryIn
<1> HIDE DEF e
<1>5. ASSUME NEW i \in Keys
      PROVE  View'[i] = IF i = k THEN EntryIn(op, v) ELSE View[i]
    <2>1. View'[i] = IF i \notin DOMAIN memtable'.data THEN NoEntry
                     ELSE IF memtable'.data[i].tombstone THEN Tombstone
                     ELSE memtable'.data[i].value
        BY DEF View, Knows
    <2>2. View[i] = IF i \notin DOMAIN memtable.data THEN NoEntry
                    ELSE IF memtable.data[i].tombstone THEN Tombstone
                    ELSE memtable.data[i].value
        BY DEF View, Knows
    <2>3. CASE i = k
        BY <1>3, <1>4, <2>1, <2>3
    <2>4. CASE i # k
        BY <1>3, <2>1, <2>2, <2>4
    <2> QED
        BY <2>3, <2>4
<1>6. /\ View' = [i \in Keys |-> View'[i]] /\ View = [i \in Keys |-> View[i]]
    BY DEF View
<1>7. CASE k \in Keys
    <2>1. L!SetEntry(View, k, EntryIn(op, v)) =
              [i \in Keys |-> IF i = k THEN EntryIn(op, v) ELSE View[i]]
        BY <1>6, <1>7 DEF L!SetEntry
    <2> QED
        BY <1>2, <1>5, <1>6, <1>7, <2>1
<1>8. CASE k \notin Keys
    BY <1>2, <1>5, <1>6, <1>8
<1> QED
    BY <1>7, <1>8

\* What is found behind a cut goes over the rest.
LEMMA OverlayNothing ==
    ASSUME NEW t \in L!Table
    PROVE  L!Overlay(L!EmptyTable, t) = t
BY DEF L!Overlay, L!EmptyTable, L!Table

\* Setting an entry in an overlay sets it in its upper layer.
LEMMA OverlayOneMore ==
    ASSUME NEW g \in L!Table, NEW t \in L!Table, NEW k \in Keys, NEW e \in L!Written
    PROVE  /\ L!SetEntry(g, k, e) \in L!Table
           /\ L!SetEntry(L!Overlay(g, t), k, e) = L!Overlay(L!SetEntry(g, k, e), t)
<1>1. e # NoEntry /\ e \in L!Entry
    BY SentinelsAssumption DEF L!Written, L!Entry
<1> QED
    BY <1>1 DEF L!SetEntry, L!Overlay, L!Table

\* The entry of a record is a value or a tombstone.
LEMMA EntryInFacts ==
    ASSUME NEW op, NEW v \in Strings
    PROVE  EntryIn(op, v) \in L!Written
BY DEF EntryIn, L!Written

-----------------------------------------------------------------------------
(* The invariant.                                                          *)

TypesRight ==
    /\ file \in Seq(Byte) /\ pos \in Nat
    /\ log \in Seq(Records \cup {Torn})
    /\ Exact(memtable)
    /\ pc \in {"down", "replay", "recovered", "idle", "sync", "apply"}
    /\ IF pc = "sync" THEN rec \in Records /\ buffer = Encoded(rec) ELSE buffer = <<>>
    /\ pc = "apply" => rec \in Records
    /\ pc = "down" => memtable = Cleared

\* From the p-th byte to the n-th the file holds x: a record, or for Torn some part
\* of one, never all of it.
Piece(p, n, x) ==
    IF x = Torn
    THEN \E r \in Records :
            p < n /\ n < p + Len(Encoded(r)) /\ Holds(p, n, Encoded(r))
    ELSE n = p + Len(Encoded(x)) /\ Holds(p, n, Encoded(x))

\* mark[i] bytes come before the i-th record.
Marked(mark) ==
    /\ mark[1] = 0 /\ mark[Len(log) + 1] = Len(file)
    /\ \A i \in 1..Len(log) : Piece(mark[i], mark[i + 1], log[i])

Marks == [1..(Len(log) + 1) -> 0..Len(file)]

\* The file is the log.
FileIsLog == \E mark \in Marks : Marked(mark)

\* The reader is in front of the j-th record and was never out of step.
InStep(mark, j) ==
    /\ pos = mark[j]
    /\ \A i \in 1..(j - 1) : log[i] # Torn
    /\ View = L!Replay(Front(j - 1))

\* The reader is somewhere behind a cut.
OutOfStep ==
    /\ L!BuriedTear(AbstractLog)
    /\ \E garbled \in L!Table : View = L!Overlay(garbled, L!Replay(AbstractLog))

Reading ==
    \/ \E mark \in Marks, j \in 1..(Len(log) + 1) : Marked(mark) /\ InStep(mark, j)
    \/ OutOfStep

\* In "apply" all but the last record are in the MemTable.
Applying ==
    /\ log # <<>> /\ log[Len(log)] = rec
    /\ ~ L!BuriedTear(AbstractLog) => View = L!Replay(Front(Len(log) - 1))

Applied == ~ L!BuriedTear(AbstractLog) => View = L!Replay(AbstractLog)

Inv ==
    /\ TypesRight /\ FileIsLog
    /\ pc = "replay" => Reading
    /\ pc = "recovered" => View \in L!Replays(AbstractLog)
    /\ pc = "apply" => Applying
    /\ pc \in {"idle", "sync"} => Applied

-----------------------------------------------------------------------------
(* The bytes that reach the file.                                          *)

\* The first bytes of the buffer end up behind the file, which keeps its own.
LEMMA BytesReach ==
    ASSUME TypesRight, NEW n \in 0..Len(buffer), Reaches(n)
    PROVE  /\ Len(buffer) \in Nat /\ Len(log) \in Nat /\ Len(file) \in Nat
           /\ file' \in Seq(Byte) /\ Len(file') = Len(file) + n
           /\ \A i \in 1..Len(file) : file'[i] = file[i]
           /\ \A i \in 1..n : file'[Len(file) + i] = buffer[i]
<1>1. buffer \in Seq(Byte) /\ file \in Seq(Byte)
    <2>1. CASE pc = "sync"
        BY <2>1, EncodedFacts DEF TypesRight
    <2>2. CASE pc # "sync"
        BY <2>2 DEF TypesRight
    <2> QED
        BY <2>1, <2>2 DEF TypesRight
<1>2. Len(file) \in Nat /\ Len(buffer) \in Nat /\ Len(log) \in Nat
    BY <1>1 DEF TypesRight
<1> DEFINE part == SubSeq(buffer, 1, n)
           size == Len(file)
<1>3. part \in Seq(Byte) /\ Len(part) = n /\ \A i \in 1..n : part[i] = buffer[i]
    <2>1. n \in Nat /\ \A i \in 1..n : buffer[i] \in Byte
        BY <1>1, <1>2
    <2>2. /\ part \in Seq(Byte) /\ Len(part) = IF 1 <= n THEN n - 1 + 1 ELSE 0
          /\ \A i \in 1..(n - 1 + 1) : part[i] = buffer[1 + i - 1]
        BY <1>1, <2>1, SubSeqProperties
    <2> HIDE DEF part
    <2>3. \A i \in 1..n : i \in 1..(n - 1 + 1) /\ 1 + i - 1 = i
        BY <2>1
    <2> QED
        BY <2>1, <2>2, <2>3
<1>4. file' = file \o part
    BY DEF Reaches
<1>5. size \in Nat /\ Len(file) = size /\ n \in Nat
    BY <1>2
<1> HIDE DEF part, size
<1>6. PICK f \in Seq(Byte), t \in Seq(Byte), s \in Nat : f = file /\ t = part /\ s = size
    BY <1>1, <1>3, <1>5
<1>7. /\ f \o t \in Seq(Byte) /\ Len(f \o t) = s + n
      /\ \A i \in 1..s : (f \o t)[i] = f[i]
      /\ \A i \in 1..n : (f \o t)[s + i] = t[i]
    <2>1. Len(f) = s /\ Len(t) = n /\ n \in Nat
        BY <1>3, <1>5, <1>6
    <2>2. f \o t \in Seq(Byte) /\ Len(f \o t) = s + n
        BY <2>1, Joined
    <2>3. ASSUME NEW i \in 1..s
          PROVE  (f \o t)[i] = f[i]
        BY <2>1, Joined
    <2>4. ASSUME NEW i \in 1..n
          PROVE  (f \o t)[s + i] = t[i]
        BY <2>1, Joined
    <2> QED
        BY <2>2, <2>3, <2>4
<1> QED
    BY <1>2, <1>3, <1>4, <1>5, <1>6, <1>7

\* What was there stays there.
LEMMA PieceStays ==
    ASSUME NEW p \in Nat, NEW n \in Nat, NEW x, n <= Len(file), Len(file) \in Nat,
           \A i \in 1..Len(file) : file'[i] = file[i], Piece(p, n, x)
    PROVE  Piece(p, n, x)'
<1>1. \A i \in 1..(n - p) : p + i \in 1..Len(file)
    OBVIOUS
<1>2. \A s : Holds(p, n, s) => Holds(p, n, s)'
    BY <1>1 DEF Holds
<1> QED
    BY <1>2 DEF Piece

\* Whatever part of a record reaches the file, the file is still the log: with the
\* record behind it, or a cut one, or nothing.
LEMMA FileStaysLog ==
    ASSUME TypesRight, FileIsLog, NEW n \in 0..Len(buffer), Reaches(n)
    PROVE  /\ file' \in Seq(Byte) /\ log' \in Seq(Records \cup {Torn})
           /\ FileIsLog'
<1>1. /\ Len(buffer) \in Nat /\ Len(log) \in Nat /\ Len(file) \in Nat
      /\ file' \in Seq(Byte) /\ Len(file') = Len(file) + n
      /\ \A i \in 1..Len(file) : file'[i] = file[i]
      /\ \A i \in 1..n : file'[Len(file) + i] = buffer[i]
    BY BytesReach
<1>2. PICK mark \in Marks : Marked(mark)
    BY DEF FileIsLog
<1>3. \A i \in 1..(Len(log) + 1) : mark[i] \in Nat /\ mark[i] <= Len(file)
    BY <1>1, <1>2 DEF Marks
<1>4. ASSUME NEW i \in 1..Len(log)
      PROVE  Piece(mark[i], mark[i + 1], log[i])'
    <2>1. i \in 1..(Len(log) + 1) /\ i + 1 \in 1..(Len(log) + 1)
        BY <1>1
    <2>2. Piece(mark[i], mark[i + 1], log[i])
        BY <1>2 DEF Marked
    <2>3. PICK p, q, x : /\ p = mark[i] /\ q = mark[i + 1] /\ x = log[i]
                         /\ p \in Nat /\ q \in Nat
        BY <1>3, <2>1
    <2>4. Piece(p, q, x)'
        BY <1>1, <1>3, <2>1, <2>2, <2>3, PieceStays
    <2>5. log'[i] = log[i]
        BY DEF Reaches, TypesRight
    <2> QED
        BY <2>3, <2>4, <2>5 DEF Piece, Holds
<1>5. CASE n = 0
    <2>1. log' = log /\ Len(file') = Len(file)
        BY <1>1, <1>5 DEF Reaches
    <2>2. mark \in Marks'
        BY <1>2, <2>1 DEF Marks
    <2>3. Marked(mark)'
        BY <1>2, <1>4, <2>1 DEF Marked
    <2> QED
        BY <1>1, <2>1, <2>2, <2>3 DEF FileIsLog, TypesRight
<1>6. CASE n # 0
    <2> DEFINE x == IF n = Len(buffer) THEN rec ELSE Torn
    <2>0. PICK longer : longer = [i \in 1..(Len(log) + 2) |->
                                   IF i <= Len(log) + 1 THEN mark[i] ELSE Len(file) + n]
        OBVIOUS
    <2>1. pc = "sync" /\ rec \in Records /\ buffer = Encoded(rec) /\ rec # Torn
        <3>1. buffer # <<>>
            BY <1>1, <1>6
        <3> QED
            BY <3>1, RecordFacts DEF TypesRight
    <2>2. log' = Append(log, x) /\ x \in Records \cup {Torn}
        BY <1>6, <2>1 DEF Reaches
    <2>3. /\ log' \in Seq(Records \cup {Torn}) /\ Len(log') = Len(log) + 1
          /\ \A i \in 1..Len(log) : log'[i] = log[i]
          /\ log'[Len(log) + 1] = x
        BY <2>2, AppendProperties DEF TypesRight
    <2>4. /\ \A i \in 1..(Len(log) + 1) : longer[i] = mark[i]
          /\ longer[Len(log) + 2] = Len(file) + n
          /\ mark[1] = 0 /\ mark[Len(log) + 1] = Len(file)
        BY <1>1, <1>2, <2>0 DEF Marked
    <2>5. longer \in Marks'
        <3>1. \A i \in 1..(Len(log) + 2) : longer[i] \in 0..(Len(file) + n)
            BY <1>1, <1>3, <2>0
        <3>2. Len(log') + 1 = Len(log) + 2
            BY <1>1, <2>3
        <3>3. longer \in [1..(Len(log) + 2) -> 0..(Len(file) + n)]
            BY <2>0, <3>1
        <3> QED
            BY <1>1, <3>2, <3>3 DEF Marks
    <2>6. PICK size, r, y : /\ size = Len(file) /\ r = rec /\ y = x
                            /\ size \in Nat /\ r \in Records
        BY <1>1, <2>1
    <2>7. Piece(size, size + n, y)'
        <3>1. (size + n) - size = n
            BY <2>6
        <3>2. \A i \in 1..n : file'[size + i] = Encoded(r)[i]
            BY <1>1, <2>1, <2>6
        <3> DEFINE e == Encoded(r)
        <3>3. e \in Seq(Byte) /\ Len(e) \in Nat /\ Len(e) = Len(buffer)
            BY <2>1, <2>6, EncodedFacts
        <3> HIDE DEF e
        <3>4. Holds(size, size + n, e)'
            BY <3>1, <3>2 DEF Holds, e
        <3>5. CASE n = Len(buffer)
            <4>1. y = r /\ y # Torn
                BY <2>1, <2>6, <3>5
            <4>2. size + n = size + Len(e)
                BY <2>6, <3>3, <3>5
            <4> QED
                BY <2>6, <3>4, <4>1, <4>2 DEF Piece, e
        <3>6. CASE n # Len(buffer)
            <4>1. y = Torn
                BY <2>6, <3>6
            <4>2. size < size + n /\ size + n < size + Len(e)
                BY <1>1, <1>6, <2>6, <3>3, <3>6
            <4> QED
                BY <2>6, <3>4, <4>1, <4>2 DEF Piece, e
        <3> QED
            BY <3>5, <3>6
    <2> HIDE DEF x
    <2>8. ASSUME NEW i \in 1..Len(log')
          PROVE  Piece(longer[i], longer[i + 1], log[i])'
        <3>1. PICK p, q, z : p = longer[i] /\ q = longer[i + 1] /\ z = log'[i]
            OBVIOUS
        <3>2. CASE i \in 1..Len(log)
            <4>1. i \in 1..(Len(log) + 1) /\ i + 1 \in 1..(Len(log) + 1)
                BY <1>1, <3>2
            <4>2. p = mark[i] /\ q = mark[i + 1] /\ z = log'[i]
                BY <2>4, <3>1, <4>1
            <4>3. Piece(p, q, z)'
                BY <1>4, <3>2, <4>2 DEF Piece, Holds
            <4> QED
                BY <3>1, <4>3 DEF Piece, Holds
        <3>3. CASE i = Len(log) + 1
            <4>1. i \in 1..(Len(log) + 1) /\ i + 1 = Len(log) + 2
                BY <1>1, <3>3
            <4>2. p = size /\ q = size + n /\ z = y
                BY <2>3, <2>4, <2>6, <3>1, <3>3, <4>1
            <4>3. Piece(p, q, z)'
                BY <2>7, <4>2
            <4> QED
                BY <3>1, <4>3 DEF Piece, Holds
        <3> QED
            BY <1>1, <2>3, <3>2, <3>3
    <2>9. longer[1] = 0
        BY <1>1, <2>4
    <2>10. longer[Len(log') + 1] = Len(file')
        <3>1. Len(log') + 1 = Len(log) + 2
            BY <1>1, <2>3
        <3> QED
            BY <1>1, <2>4, <3>1
    <2>11. Marked(longer)'
        BY <2>8, <2>9, <2>10 DEF Marked
    <2> QED
        BY <1>1, <2>3, <2>5, <2>11 DEF FileIsLog
<1> QED
    BY <1>5, <1>6

-----------------------------------------------------------------------------
(* The reader.                                                             *)

\* A step that leaves file and log alone leaves alone what is said of them.
LEMMA SameSegment ==
    ASSUME file' = file, log' = log
    PROVE  /\ Marks' = Marks /\ AbstractLog' = AbstractLog
           /\ FileIsLog => FileIsLog'
           /\ \A mark : Marked(mark) => Marked(mark)'
           /\ \A j : Front(j)' = Front(j)
<1>1. /\ Marks' = Marks /\ AbstractLog' = AbstractLog
      /\ \A mark : Marked(mark) => Marked(mark)'
    BY DEF Marks, AbstractLog, Marked, Piece, Holds
<1>2. \A j : Front(j)' = Front(j)
    BY <1>1 DEF Front
<1> QED
    BY <1>1, <1>2 DEF FileIsLog

\* In step, the reader takes a whole record for what it is, and stops at a cut one
\* that nothing is behind.
LEMMA InStepReads ==
    ASSUME TypesRight, NEW mark \in Marks, Marked(mark),
           NEW j \in 1..(Len(log) + 1), InStep(mark, j)
    PROVE  /\ j = Len(log) + 1 => ~ pos < Len(file)
           /\ j <= Len(log) /\ log[j] # Torn =>
                 /\ log[j] \in Records /\ pos < Len(file) /\ Whole
                 /\ file[pos + 1] = log[j].op /\ StrAt(pos + 1) = log[j].key
                 /\ StrAt(StrEnd(pos + 1)) = log[j].value
                 /\ StrEnd(StrEnd(pos + 1)) = mark[j + 1]
           /\ j = Len(log) /\ log[j] = Torn => ~ Whole
<1>1. Len(log) \in Nat /\ Len(file) \in Nat /\ file \in Seq(Byte) /\ pos \in Nat
    BY DEF TypesRight
<1>2. j = Len(log) + 1 => ~ pos < Len(file)
    BY <1>1 DEF InStep, Marked
<1>3. ASSUME j <= Len(log)
      PROVE  /\ mark[j + 1] \in Nat /\ mark[j + 1] <= Len(file)
             /\ Piece(pos, mark[j + 1], log[j])
    <2>1. j + 1 \in 1..(Len(log) + 1) /\ j \in 1..Len(log)
        BY <1>1, <1>3
    <2>2. mark[j + 1] \in 0..Len(file)
        BY <2>1 DEF Marks
    <2> QED
        BY <1>1, <2>1, <2>2 DEF Marked, InStep
<1>4. ASSUME j <= Len(log), log[j] # Torn
      PROVE  /\ log[j] \in Records /\ pos < Len(file) /\ Whole
             /\ file[pos + 1] = log[j].op /\ StrAt(pos + 1) = log[j].key
             /\ StrAt(StrEnd(pos + 1)) = log[j].value
             /\ StrEnd(StrEnd(pos + 1)) = mark[j + 1]
    <2>1. PICK r \in Records : r = log[j]
        BY <1>1, <1>4 DEF TypesRight
    <2>2. PICK n \in Nat : n = mark[j + 1] /\ n <= Len(file)
        BY <1>3, <1>4
    <2>3. n = pos + Len(Encoded(r)) /\ Holds(pos, n, Encoded(r))
        BY <1>3, <1>4, <2>1, <2>2 DEF Piece
    <2>4. /\ pos < Len(file) /\ Whole
          /\ file[pos + 1] = r.op /\ StrAt(pos + 1) = r.key
          /\ StrAt(StrEnd(pos + 1)) = r.value
          /\ StrEnd(StrEnd(pos + 1)) = n
        BY <1>1, <2>2, <2>3, RecordRead
    <2> QED
        BY <2>1, <2>2, <2>4
<1>5. ASSUME j = Len(log), log[j] = Torn
      PROVE  ~ Whole
    <2>1. mark[j + 1] = Len(file)
        BY <1>5 DEF Marked
    <2>2. PICK r \in Records :
              /\ pos < Len(file) /\ Len(file) < pos + Len(Encoded(r))
              /\ Holds(pos, Len(file), Encoded(r))
        BY <1>1, <1>3, <1>5, <2>1 DEF Piece
    <2> QED
        BY <1>1, <2>2, RecordCut
<1> QED
    BY <1>2, <1>4, <1>5

\* One more record goes over what the reader made of the log.
LEMMA StillOutOfStep ==
    ASSUME TypesRight, file' = file, log' = log, L!BuriedTear(AbstractLog),
           NEW garbled \in L!Table, View = L!Overlay(garbled, L!Replay(AbstractLog)),
           NEW op, NEW k, NEW v \in Strings,
           View' = IF k \in Keys THEN L!SetEntry(View, k, EntryIn(op, v)) ELSE View
    PROVE  OutOfStep'
<1> DEFINE t == L!Replay(AbstractLog)
           e == EntryIn(op, v)
<1>1. t \in L!Table /\ e \in L!Written
    BY AbstractFacts, ReplayIsTable, EntryInFacts DEF TypesRight
<1>2. AbstractLog' = AbstractLog
    BY SameSegment
<1> HIDE DEF t, e
<1>3. \E g \in L!Table : View' = L!Overlay(g, t)
    <2>1. CASE k \in Keys
        <3>1. /\ L!SetEntry(garbled, k, e) \in L!Table
              /\ L!SetEntry(L!Overlay(garbled, t), k, e)
                    = L!Overlay(L!SetEntry(garbled, k, e), t)
            BY <1>1, <2>1, OverlayOneMore
        <3>2. View' = L!SetEntry(L!Overlay(garbled, t), k, e)
            BY <2>1 DEF t, e
        <3> QED
            BY <3>1, <3>2
    <2>2. CASE k \notin Keys
        BY <2>2 DEF t
    <2> QED
        BY <2>1, <2>2
<1>4. L!Replay(AbstractLog)' = t
    BY <1>2 DEF t
<1>5. L!BuriedTear(AbstractLog)'
    BY <1>2
<1> QED
    BY <1>3, <1>4, <1>5 DEF OutOfStep

\* A record that is read is the next one, or the reader is out of step.
LEMMA ReplayRecordReads ==
    ASSUME TypesRight, Reading, ReplayRecord
    PROVE  /\ pos' \in Nat /\ Exact(memtable)' /\ Reading'
<1> DEFINE k == StrAt(pos + 1)
           v == StrAt(StrEnd(pos + 1))
           op == file[pos + 1]
<1>1. /\ file \in Seq(Byte) /\ log \in Seq(Records \cup {Torn}) /\ pos \in Nat
      /\ Exact(memtable) /\ Len(log) \in Nat
    BY DEF TypesRight
<1>2. /\ file' = file /\ log' = log /\ pos' = StrEnd(StrEnd(pos + 1))
      /\ memtable' = Replayed(op, k, v) /\ pos < Len(file) /\ Whole
    BY DEF ReplayRecord, walvars
<1>3. k \in Strings /\ v \in Strings /\ pos' \in Nat
    BY <1>1, <1>2, AnyRecordRead
<1>4. k \in Seq(Byte)
    BY <1>3, StringFacts
<1>5. PICK o, kk, vv : /\ o = op /\ kk = k /\ vv = v
                       /\ kk \in Seq(Byte) /\ vv \in Strings
    BY <1>3, <1>4
<1>6. /\ Exact(memtable)'
      /\ View' = IF kk \in Keys THEN L!SetEntry(View, kk, EntryIn(o, vv)) ELSE View
    <2>1. memtable' = Replayed(o, kk, vv)
        BY <1>2, <1>5
    <2> QED
        BY <1>1, <1>5, <2>1, ViewOfReplayed
<1>7. ASSUME L!BuriedTear(AbstractLog), NEW garbled \in L!Table,
             View = L!Overlay(garbled, L!Replay(AbstractLog))
      PROVE  Reading'
    <2>1. OutOfStep'
        BY <1>2, <1>5, <1>6, <1>7, StillOutOfStep
    <2> QED
        BY <2>1 DEF Reading
<1>8. OutOfStep => Reading'
    BY <1>7 DEF OutOfStep
<1>9. ASSUME NEW mark \in Marks, NEW j \in 1..(Len(log) + 1), Marked(mark), InStep(mark, j)
      PROVE  Reading'
    <2>1. j <= Len(log) /\ (j = Len(log) => log[j] # Torn)
        BY <1>1, <1>2, <1>9, InStepReads
    <2>2. CASE log[j] # Torn
        <3>1. /\ log[j] \in Records /\ pos' = mark[j + 1]
              /\ o = log[j].op /\ kk = log[j].key /\ vv = log[j].value
            BY <1>2, <1>5, <1>9, <2>1, <2>2, InStepReads
        <3>2. kk \in Keys
            BY <3>1, RecordFacts
        <3>3. j \in 1..Len(log) /\ j - 1 \in 0..Len(log)
            BY <1>1, <2>1
        <3>4. /\ AbstractLog[j] \in L!Record
              /\ AbstractLog[j].key = kk /\ AbstractLog[j].entry = EntryIn(o, vv)
            BY <1>1, <2>2, <3>1, <3>3, AbstractFacts DEF AsRecord
        <3>5. \A i \in 1..(j - 1) : log[i] # Torn
            BY <1>9 DEF InStep
        <3>6. Front(j - 1) \in L!Log /\ Untorn(Front(j - 1))
            BY <1>1, <3>3, <3>5, FrontFacts, FrontUntorn
        <3>7. Front(j) = Append(Front(j - 1), AbstractLog[j])
            BY <1>1, <3>3, FrontFacts
        <3>8. L!Replay(Front(j)) = L!SetEntry(L!Replay(Front(j - 1)), kk, EntryIn(o, vv))
            BY <3>4, <3>6, <3>7, ReplayOfAppend
        <3>9. View' = L!Replay(Front(j))
            BY <1>6, <1>9, <3>2, <3>8 DEF InStep
        <3>10. PICK next \in 1..(Len(log) + 1) : next = j + 1 /\ next - 1 = j
            BY <1>1, <3>3
        <3>11. \A i \in 1..(next - 1) : log'[i] # Torn
            BY <1>1, <1>2, <2>2, <3>3, <3>5, <3>10
        <3>12. Front(next - 1)' = Front(j)
            BY <1>2, <3>10, SameSegment
        <3>13. L!Replay(Front(next - 1))' = L!Replay(Front(j))
            BY <3>12
        <3>14. InStep(mark, next)'
            BY <3>1, <3>9, <3>10, <3>11, <3>13 DEF InStep
        <3>15. mark \in Marks' /\ Marked(mark)' /\ next \in 1..(Len(log') + 1)
            BY <1>2, <1>9, <3>10, SameSegment
        <3> QED
            BY <3>14, <3>15 DEF Reading
    <2>3. CASE log[j] = Torn
        <3>1. j \in 1..Len(log) /\ j < Len(log)
            BY <1>1, <2>1, <2>3
        <3>2. L!BuriedTear(AbstractLog)
            <4>1. j \in DOMAIN AbstractLog /\ AbstractLog[j] = Torn /\ j < Len(AbstractLog)
                BY <1>1, <2>3, <3>1, AbstractFacts
            <4> QED
                BY <4>1 DEF L!BuriedTear
        <3>3. View = L!Replay(AbstractLog)
            BY <1>1, <1>9, <2>3, <3>1, ReplayToTear DEF InStep
        <3>4. L!Replay(AbstractLog) \in L!Table
            BY <1>1, AbstractFacts, ReplayIsTable
        <3>5. View = L!Overlay(L!EmptyTable, L!Replay(AbstractLog))
            BY <3>3, <3>4, OverlayNothing
        <3>6. L!EmptyTable \in L!Table
            BY ReplayOfNothing
        <3> QED
            BY <1>7, <3>2, <3>5, <3>6
    <2> QED
        BY <2>2, <2>3
<1> QED
    BY <1>3, <1>6, <1>8, <1>9 DEF Reading

\* Where the reader stops, it has found what LsmTables says it may find.
LEMMA ReplayEndFinds ==
    ASSUME TypesRight, Reading, pos < Len(file) => ~ Whole
    PROVE  View \in L!Replays(AbstractLog)
<1>1. log \in Seq(Records \cup {Torn}) /\ Len(log) \in Nat
    BY DEF TypesRight
<1>2. L!Replay(AbstractLog) \in L!Table /\ L!EmptyTable \in L!Table
    BY <1>1, AbstractFacts, ReplayIsTable, ReplayOfNothing
<1>3. CASE OutOfStep
    BY <1>3 DEF OutOfStep, L!Replays
<1>4. ASSUME View = L!Replay(AbstractLog)
      PROVE  View \in L!Replays(AbstractLog)
    <2>1. View = L!Overlay(L!EmptyTable, L!Replay(AbstractLog))
        BY <1>2, <1>4, OverlayNothing
    <2> QED
        BY <1>2, <1>4, <2>1 DEF L!Replays
<1>5. ASSUME NEW mark \in Marks, NEW j \in 1..(Len(log) + 1), Marked(mark), InStep(mark, j)
      PROVE  View = L!Replay(AbstractLog)
    <2>1. CASE j = Len(log) + 1
        <3>1. j - 1 = Len(log)
            BY <1>1, <2>1
        <3> QED
            BY <1>1, <1>5, <3>1, FrontFacts DEF InStep
    <2>2. CASE j # Len(log) + 1
        <3>1. j \in 1..Len(log)
            BY <1>1, <2>2
        <3>2. log[j] = Torn
            BY <1>5, <3>1, InStepReads
        <3> QED
            BY <1>1, <1>5, <3>1, <3>2, ReplayToTear DEF InStep
    <2> QED
        BY <2>1, <2>2
<1> QED
    BY <1>3, <1>4, <1>5 DEF Reading

-----------------------------------------------------------------------------
(* The steps.                                                              *)

\* A new segment is an empty log.
LEMMA InitInv == Init => Inv
<1> SUFFICES ASSUME Init
             PROVE  Inv
    OBVIOUS
<1>1. TypesRight
    BY ClearedIsExact DEF Init, TypesRight
<1>2. FileIsLog
    <2> DEFINE mark == [i \in 1..1 |-> 0]
    <2>1. Len(log) = 0 /\ Len(file) = 0
        BY DEF Init
    <2>2. mark \in Marks /\ Marked(mark)
        BY <2>1 DEF Marks, Marked
    <2> QED
        BY <2>2 DEF FileIsLog
<1>3. pc = "down"
    BY DEF Init
<1> QED
    BY <1>1, <1>2, <1>3 DEF Inv

\* A recovery begins in front of the first record, with an empty MemTable.
LEMMA ReopenKeepsInv == Inv /\ Reopen => Inv'
<1> SUFFICES ASSUME Inv, Reopen
             PROVE  Inv'
    OBVIOUS
<1>1. /\ pc = "down" /\ pc' = "replay" /\ pos' = 0
      /\ file' = file /\ log' = log /\ buffer' = buffer /\ rec' = rec /\ memtable' = memtable
    BY DEF Reopen, walvars
<1>2. TypesRight /\ FileIsLog
    BY DEF Inv
<1>3. TypesRight'
    <2>1. Exact(memtable)'
        BY <1>1, <1>2 DEF TypesRight, Exact
    <2> QED
        BY <1>1, <1>2, <2>1 DEF TypesRight
<1>4. FileIsLog'
    BY <1>1, <1>2, SameSegment
<1>5. PICK mark \in Marks : Marked(mark)
    BY <1>2 DEF FileIsLog
<1>6. View' = L!Replay(<<>>)
    <2>1. memtable' = Cleared
        BY <1>1, <1>2 DEF TypesRight
    <2>2. View' = L!EmptyTable
        BY <2>1 DEF View, Cleared, Knows, L!EmptyTable
    <2> QED
        BY <2>2, ReplayOfNothing
<1>7. Front(1 - 1)' = <<>>
    BY DEF Front
<1>8. InStep(mark, 1)'
    BY <1>1, <1>5, <1>6, <1>7 DEF InStep, Marked
<1>9. Reading'
    <2>1. mark \in Marks' /\ Marked(mark)' /\ 1 \in 1..(Len(log') + 1)
        BY <1>1, <1>2, <1>5, SameSegment DEF TypesRight
    <2> QED
        BY <1>8, <2>1 DEF Reading
<1> QED
    BY <1>1, <1>3, <1>4, <1>9 DEF Inv

\* It reads on, ends, and opens the segment for more.
LEMMA ReplayKeepsInv == Inv /\ (ReplayRecord \/ ReplayEnd \/ OpenWal) => Inv'
<1> SUFFICES ASSUME Inv, ReplayRecord \/ ReplayEnd \/ OpenWal
             PROVE  Inv'
    OBVIOUS
<1>1. /\ file' = file /\ log' = log /\ buffer' = buffer /\ rec' = rec
      /\ pc \in {"replay", "recovered"}
      /\ pc' \in {"replay", "recovered", "idle"}
    BY DEF ReplayRecord, ReplayEnd, OpenWal, walvars
<1>2. TypesRight /\ FileIsLog
    BY DEF Inv
<1>3. FileIsLog' /\ AbstractLog' = AbstractLog
    BY <1>1, <1>2, SameSegment
<1>4. ASSUME pos' \in Nat, Exact(memtable)'
      PROVE  TypesRight'
    BY <1>1, <1>2, <1>4 DEF TypesRight
<1>5. CASE ReplayRecord
    <2>1. pc = "replay" /\ pc' = pc
        BY <1>5 DEF ReplayRecord
    <2>2. Reading
        BY <2>1 DEF Inv
    <2>3. pos' \in Nat /\ Exact(memtable)' /\ Reading'
        BY <1>2, <1>5, <2>2, ReplayRecordReads
    <2> QED
        BY <1>3, <1>4, <2>1, <2>3 DEF Inv
<1>6. ASSUME memtable' = memtable, pos' \in Nat
      PROVE  TypesRight' /\ View' = View
    <2>1. Exact(memtable)' /\ View' = View
        BY <1>2, <1>6 DEF TypesRight, Exact, View
    <2> QED
        BY <1>4, <1>6, <2>1
<1>7. CASE ReplayEnd
    <2>1. /\ pc = "replay" /\ pc' = "recovered" /\ memtable' = memtable /\ pos' = pos
          /\ pos < Len(file) => ~ Whole
        BY <1>7 DEF ReplayEnd
    <2>2. TypesRight' /\ View' = View
        BY <1>2, <1>6, <2>1 DEF TypesRight
    <2>3. Reading
        BY <2>1 DEF Inv
    <2>4. View \in L!Replays(AbstractLog)
        BY <1>2, <2>1, <2>3, ReplayEndFinds
    <2>5. (View \in L!Replays(AbstractLog))'
        BY <1>3, <2>2, <2>4
    <2> QED
        BY <1>3, <2>1, <2>2, <2>5 DEF Inv
<1>8. CASE OpenWal
    <2>1. pc = "recovered" /\ pc' = "idle" /\ memtable' = memtable /\ pos' = 0
        BY <1>8 DEF OpenWal
    <2>2. TypesRight' /\ View' = View
        BY <1>6, <2>1
    <2>3. View \in L!Replays(AbstractLog)
        BY <2>1 DEF Inv
    <2>4. Applied
        BY <2>3 DEF L!Replays, Applied
    <2>5. Applied'
        BY <1>3, <2>2, <2>4 DEF Applied
    <2> QED
        BY <1>3, <2>1, <2>2, <2>5 DEF Inv
<1> QED
    BY <1>5, <1>7, <1>8

\* A write puts its record into the buffer,
LEMMA AppendKeepsInv ==
    ASSUME NEW r \in Records, Inv, AppendRecord(r)
    PROVE  Inv'
<1>1. /\ pc = "idle" /\ pc' = "sync" /\ buffer' = Encoded(r) /\ rec' = r
      /\ file' = file /\ log' = log /\ memtable' = memtable /\ pos' = pos
    BY DEF AppendRecord
<1>2. TypesRight /\ FileIsLog /\ Applied
    BY <1>1 DEF Inv
<1>3. FileIsLog' /\ AbstractLog' = AbstractLog
    BY <1>1, <1>2, SameSegment
<1>4. Exact(memtable)' /\ View' = View
    BY <1>1, <1>2 DEF TypesRight, Exact, View
<1>5. TypesRight'
    BY <1>1, <1>2, <1>4 DEF TypesRight
<1>6. Applied'
    BY <1>2, <1>3, <1>4 DEF Applied
<1> QED
    BY <1>1, <1>3, <1>5, <1>6 DEF Inv

\* from there into the file,
LEMMA SyncKeepsInv == Inv /\ Sync => Inv'
<1> SUFFICES ASSUME Inv, Sync
             PROVE  Inv'
    OBVIOUS
<1>1. /\ pc = "sync" /\ pc' = "apply" /\ Reaches(Len(buffer)) /\ buffer' = <<>>
      /\ rec' = rec /\ memtable' = memtable /\ pos' = pos
    BY DEF Sync
<1>2. TypesRight /\ FileIsLog /\ Applied
    BY <1>1 DEF Inv
<1>3. /\ rec \in Records /\ rec # Torn /\ Len(buffer) \in Nat \ {0}
      /\ log \in Seq(Records \cup {Torn}) /\ Len(log) \in Nat
    BY <1>1, <1>2, EncodedFacts, RecordFacts DEF TypesRight
<1>4. file' \in Seq(Byte) /\ log' \in Seq(Records \cup {Torn}) /\ FileIsLog'
    <2>1. Len(buffer) \in 0..Len(buffer)
        BY <1>3
    <2> QED
        BY <1>1, <1>2, <2>1, FileStaysLog
<1>5. Exact(memtable)' /\ View' = View
    BY <1>1, <1>2 DEF TypesRight, Exact, View
<1>6. TypesRight'
    BY <1>1, <1>2, <1>3, <1>4, <1>5 DEF TypesRight
<1>7. /\ log' = Append(log, rec) /\ Len(log') = Len(log) + 1
      /\ \A i \in 1..Len(log) : log'[i] = log[i]
      /\ log'[Len(log')] = rec
    <2>1. log' = Append(log, rec)
        BY <1>1, <1>3 DEF Reaches
    <2> QED
        BY <1>3, <2>1, AppendProperties
<1>8. \A i \in 1..Len(log) : AbstractLog'[i] = AbstractLog[i]
    BY <1>3, <1>7 DEF AbstractLog
<1>9. Front(Len(log) - 1)' = AbstractLog
    <2>1. Len(log') - 1 = Len(log)
        BY <1>3, <1>7
    <2>2. Front(Len(log) - 1)' = [i \in 1..Len(log) |-> AbstractLog'[i]]
        BY <2>1 DEF Front
    <2>3. AbstractLog = [i \in 1..Len(log) |-> AbstractLog[i]]
        BY <1>3, AbstractFacts DEF AbstractLog
    <2> QED
        BY <1>8, <2>2, <2>3
<1>10. ASSUME ~ L!BuriedTear(AbstractLog)'
       PROVE  ~ L!BuriedTear(AbstractLog)
    <2>1. SUFFICES ASSUME NEW i \in DOMAIN AbstractLog, AbstractLog[i] = Torn
                   PROVE  L!BuriedTear(AbstractLog)'
        BY <1>10 DEF L!BuriedTear
    <2>2. i \in 1..Len(log) /\ AbstractLog'[i] = Torn
        BY <1>3, <1>8, <2>1, AbstractFacts
    <2>3. DOMAIN AbstractLog' = 1..Len(log') /\ Len(AbstractLog') = Len(log')
        <3>1. TypesRight'
            BY <1>6
        <3>2. DOMAIN AbstractLog' = 1..Len(log')
            BY <1>4 DEF AbstractLog
        <3> QED
            BY <1>3, <1>7, <3>2
    <2> QED
        BY <1>3, <1>7, <2>2, <2>3 DEF L!BuriedTear
<1>11. Applying'
    <2>1. log' # <<>>
        BY <1>3, <1>7
    <2>2. (~ L!BuriedTear(AbstractLog))' => View' = L!Replay(AbstractLog)
        BY <1>2, <1>5, <1>10 DEF Applied
    <2>3. L!Replay(Front(Len(log) - 1))' = L!Replay(AbstractLog)
        BY <1>9
    <2> QED
        BY <1>1, <1>7, <2>1, <2>2, <2>3 DEF Applying
<1> QED
    BY <1>1, <1>4, <1>6, <1>11 DEF Inv

\* and then into the MemTable.
LEMMA ApplyKeepsInv == Inv /\ Apply => Inv'
<1> SUFFICES ASSUME Inv, Apply
             PROVE  Inv'
    OBVIOUS
<1>1. /\ pc = "apply" /\ pc' = "idle" /\ memtable' = Replayed(rec.op, rec.key, rec.value)
      /\ file' = file /\ log' = log /\ buffer' = buffer /\ pos' = pos
    BY DEF Apply
<1>2. TypesRight /\ FileIsLog /\ Applying
    BY <1>1 DEF Inv
<1>3. FileIsLog' /\ AbstractLog' = AbstractLog
    BY <1>1, <1>2, SameSegment
<1>4. rec \in Records /\ log \in Seq(Records \cup {Torn}) /\ Len(log) \in Nat
    BY <1>1, <1>2 DEF TypesRight
<1>5. PICK r \in Records : r = rec
    BY <1>4
<1>6. /\ Exact(memtable)'
      /\ View' = L!SetEntry(View, r.key, EntryIn(r.op, r.value))
    <2>1. r.key \in Keys /\ r.key \in Seq(Byte) /\ r.value \in Strings
        BY RecordFacts, StringFacts
    <2>2. PICK op, k, v : /\ op = r.op /\ k = r.key /\ v = r.value
                          /\ k \in Seq(Byte) /\ v \in Strings /\ k \in Keys
        BY <2>1
    <2>3. memtable' = Replayed(op, k, v) /\ Exact(memtable)
        BY <1>1, <1>2, <1>5, <2>2 DEF TypesRight
    <2> QED
        BY <2>2, <2>3, ViewOfReplayed
<1>7. TypesRight'
    BY <1>1, <1>2, <1>6 DEF TypesRight
<1>8. ASSUME ~ L!BuriedTear(AbstractLog)
      PROVE  View' = L!Replay(AbstractLog)
    <2>1. PICK n \in Nat : n = Len(log) /\ n \in 1..Len(log) /\ n - 1 \in 0..Len(log)
        BY <1>2, <1>4 DEF Applying
    <2>2. log[n] = r /\ r # Torn
        BY <1>2, <1>5, <2>1, RecordFacts DEF Applying
    <2>3. /\ AbstractLog[n] \in L!Record /\ AbstractLog[n].key = r.key
          /\ AbstractLog[n].entry = EntryIn(r.op, r.value)
        BY <1>4, <2>1, <2>2, AbstractFacts DEF AsRecord
    <2>4. ASSUME NEW i \in 1..(n - 1)
          PROVE  log[i] # Torn
        <3>1. i \in 1..Len(log) /\ i < Len(log)
            BY <2>1
        <3>2. i \in DOMAIN AbstractLog /\ i < Len(AbstractLog)
            BY <1>4, <3>1, AbstractFacts
        <3> QED
            BY <1>4, <1>8, <3>1, <3>2, AbstractFacts DEF L!BuriedTear
    <2>5. Front(n - 1) \in L!Log /\ Untorn(Front(n - 1))
        BY <1>4, <2>1, <2>4, FrontFacts, FrontUntorn
    <2>6. AbstractLog = Append(Front(n - 1), AbstractLog[n])
        BY <1>4, <2>1, FrontFacts
    <2>7. L!Replay(AbstractLog)
              = L!SetEntry(L!Replay(Front(n - 1)), r.key, EntryIn(r.op, r.value))
        <3>1. PICK x \in L!Record : x = AbstractLog[n]
            BY <2>3
        <3>2. L!Replay(Append(Front(n - 1), x))
                  = L!SetEntry(L!Replay(Front(n - 1)), x.key, x.entry)
            BY <2>5, ReplayOfAppend
        <3> QED
            BY <2>3, <2>6, <3>1, <3>2
    <2>8. View = L!Replay(Front(n - 1))
        BY <1>2, <1>8, <2>1 DEF Applying
    <2> QED
        BY <1>6, <2>7, <2>8
<1>9. Applied'
    BY <1>3, <1>8 DEF Applied
<1> QED
    BY <1>1, <1>3, <1>7, <1>9 DEF Inv

\* A flush begins a new segment and a new MemTable.
LEMMA RotateKeepsInv == Inv /\ Rotate => Inv'
<1> SUFFICES ASSUME Inv, Rotate
             PROVE  Inv'
    OBVIOUS
<1>1. /\ pc = "idle" /\ pc' = "idle" /\ file' = <<>> /\ log' = <<>> /\ memtable' = Cleared
      /\ buffer' = buffer /\ rec' = rec /\ pos' = pos
    BY DEF Rotate
<1>2. TypesRight
    BY DEF Inv
<1>3. Exact(memtable)'
    BY <1>1, ClearedIsExact DEF Exact
<1>4. TypesRight'
    BY <1>1, <1>2, <1>3 DEF TypesRight
<1>5. FileIsLog'
    <2> DEFINE mark == [i \in 1..1 |-> 0]
    <2>1. Len(log') = 0 /\ Len(file') = 0
        BY <1>1
    <2>2. mark \in Marks' /\ Marked(mark)'
        BY <2>1 DEF Marks, Marked
    <2> QED
        BY <2>2 DEF FileIsLog
<1>6. Applied'
    <2>1. AbstractLog' = <<>>
        BY <1>1 DEF AbstractLog
    <2>2. View' = L!EmptyTable
        BY <1>1 DEF View, Cleared, Knows, L!EmptyTable
    <2> QED
        BY <2>1, <2>2, ReplayOfNothing DEF Applied
<1> QED
    BY <1>1, <1>4, <1>5, <1>6 DEF Inv

\* A crash leaves the file, with any part of the buffer behind it.
LEMMA CrashKeepsInv == Inv /\ Crash => Inv'
<1> SUFFICES ASSUME Inv, Crash
             PROVE  Inv'
    OBVIOUS
<1>1. /\ pc' = "down" /\ buffer' = <<>> /\ memtable' = Cleared /\ pos' = 0
    BY DEF Crash
<1>2. PICK n \in 0..Len(buffer) : Reaches(n)
    BY DEF Crash
<1>3. TypesRight /\ FileIsLog
    BY DEF Inv
<1>4. file' \in Seq(Byte) /\ log' \in Seq(Records \cup {Torn}) /\ FileIsLog'
    BY <1>2, <1>3, FileStaysLog
<1>5. Exact(memtable)'
    BY <1>1, ClearedIsExact DEF Exact
<1>6. TypesRight'
    BY <1>1, <1>4, <1>5 DEF TypesRight
<1> QED
    BY <1>1, <1>4, <1>6 DEF Inv

\* Nothing changes.
LEMMA StutterKeepsInv == Inv /\ UNCHANGED vars => Inv'
<1> SUFFICES ASSUME Inv, UNCHANGED vars
             PROVE  Inv'
    OBVIOUS
<1>1. /\ file' = file /\ log' = log /\ buffer' = buffer /\ rec' = rec
      /\ memtable' = memtable /\ pos' = pos /\ pc' = pc
    BY DEF vars, walvars
<1>2. TypesRight' /\ FileIsLog'
    <2>1. Exact(memtable)'
        BY <1>1 DEF Inv, TypesRight, Exact
    <2> QED
        BY <1>1, <2>1, SameSegment DEF Inv, TypesRight
<1>3. View' = View
    BY <1>1 DEF View
<1>4. /\ AbstractLog' = AbstractLog /\ Marks' = Marks
      /\ \A mark : Marked(mark) => Marked(mark)'
      /\ \A j : Front(j)' = Front(j)
    BY <1>1, SameSegment
<1>5. Reading => Reading'
    <2>1. \A mark, j : InStep(mark, j) => InStep(mark, j)'
        BY <1>1, <1>3, <1>4 DEF InStep
    <2>2. OutOfStep => OutOfStep'
        BY <1>3, <1>4 DEF OutOfStep
    <2> QED
        BY <1>1, <1>4, <2>1, <2>2 DEF Reading
<1>6. Applying => Applying'
    <2>1. Front(Len(log) - 1)' = Front(Len(log) - 1)
        BY <1>1, <1>4 DEF Front
    <2> QED
        BY <1>1, <1>3, <1>4, <2>1 DEF Applying
<1>7. /\ Applied => Applied'
      /\ View \in L!Replays(AbstractLog) => (View \in L!Replays(AbstractLog))'
    BY <1>3, <1>4 DEF Applied
<1> QED
    BY <1>1, <1>2, <1>5, <1>6, <1>7 DEF Inv

\* Every step keeps the invariant.
LEMMA StepInv == Inv /\ [Next]_vars => Inv'
<1> SUFFICES ASSUME Inv, [Next]_vars
             PROVE  Inv'
    OBVIOUS
<1>1. CASE Reopen
    BY <1>1, ReopenKeepsInv
<1>2. CASE ReplayRecord \/ ReplayEnd \/ OpenWal
    BY <1>2, ReplayKeepsInv
<1>3. ASSUME NEW r \in Records, AppendRecord(r)
      PROVE  Inv'
    BY <1>3, AppendKeepsInv
<1>4. CASE Sync
    BY <1>4, SyncKeepsInv
<1>5. CASE Apply
    BY <1>5, ApplyKeepsInv
<1>6. CASE Rotate
    BY <1>6, RotateKeepsInv
<1>7. CASE Crash
    BY <1>7, CrashKeepsInv
<1>8. CASE UNCHANGED vars
    BY <1>8, StutterKeepsInv
<1> QED
    BY <1>1, <1>2, <1>3, <1>4, <1>5, <1>6, <1>7, <1>8 DEF Next

\* So it holds always.
LEMMA InvHolds == Spec => []Inv
BY InitInv, StepInv, PTL DEF Spec

-----------------------------------------------------------------------------
(* What the engine relies on.                                              *)

\* bytes_ is the size of the MemTable's contents after any sequence of writes,
\* deletes, replayed records and crashes: MemTable::put and del count a key once and
\* the value that is there now.
THEOREM BytesAreExact == Spec => []BytesExact
<1>1. Inv => BytesExact
    BY DEF Inv, TypesRight, Exact, BytesExact
<1> QED
    BY <1>1, InvHolds, PTL

\* WAL::replay, run over the bytes that WAL::append wrote and crashes cut anywhere,
\* finds all the records in front of the first cut; nothing cut is taken for a
\* record unless later ones were appended behind it.
THEOREM BytesReplayAsRecords == Spec => []ReplaysAsLsmTables
<1>1. Inv => ReplaysAsLsmTables
    BY DEF Inv, ReplaysAsLsmTables
<1> QED
    BY <1>1, InvHolds, PTL

\* Between two writes the MemTable holds what WAL::replay would make of the segment,
\* after any number of recoveries from cuts that nothing was appended behind.
THEOREM MemTableIsReplayable == Spec => []MemTableMatchesSegment
<1>1. Inv => MemTableMatchesSegment
    BY DEF Inv, Applied, MemTableMatchesSegment
<1> QED
    BY <1>1, InvHolds, PTL
=============================================================================
