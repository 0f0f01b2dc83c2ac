--------------------------- MODULE DiskLogProofs ---------------------------
(***************************************************************************)
(* Facts about sorted byte strings and about the log file, for every width *)
(* of its length fields.                                                   *)
(***************************************************************************)
EXTENDS DiskLog, Foundations, FiniteSetTheorems

-----------------------------------------------------------------------------
Sorted(s, n) == \A i, j \in 1..n : i < j => Less(s[i], s[j])

\* A string more finds its place in a sorted sequence.
LEMMA SortedInsert ==
    ASSUME NEW S \in SUBSET Seq(Int), NEW x \in S, NEW n \in Nat \ {0},
           NEW g \in [1..(n - 1) -> S \ {x}], Sorted(g, n - 1)
    PROVE  \E f \in [1..n -> S] : Sorted(f, n)
<1> DEFINE Above == {j \in 1..n : j = n \/ Less(x, g[j])}
<1>1. PICK q \in Above : \A j \in Above : q <= j
    <2>1. n \in Above /\ Above \subseteq Nat
        OBVIOUS
    <2> HIDE DEF Above
    <2> QED
        BY <2>1, LeastNumber
<1>2. q \in 1..n /\ (q = n \/ Less(x, g[q]))
    BY <1>1
<1>3. ASSUME NEW j \in 1..n, j < q PROVE j \in 1..(n - 1) /\ Less(g[j], x)
    <2>1. j \notin Above
        <3> HIDE DEF Above
        <3> QED
            BY <1>1, <1>2, <1>3
    <2>2. j # n /\ ~Less(x, g[j]) /\ j \in 1..(n - 1)
        BY <2>1
    <2>3. g[j] \in S /\ g[j] # x
        BY <2>2
    <2> QED
        BY <2>2, <2>3, LessTotal
<1> HIDE DEF Above
<1> DEFINE f == [m \in 1..n |-> IF m < q THEN g[m] ELSE IF m = q THEN x ELSE g[m - 1]]
<1>4. f \in [1..n -> S]
    <2>1. ASSUME NEW m \in 1..n PROVE f[m] \in S
        <3>1. m < q => m \in 1..(n - 1)
            BY <1>2
        <3>2. ~(m < q) /\ m # q => m - 1 \in 1..(n - 1)
            BY <1>2
        <3> QED
            BY <3>1, <3>2
    <2> QED
        BY <2>1
<1>5. ASSUME NEW i \in 1..n, NEW k \in 1..n, i < k PROVE Less(f[i], f[k])
    <2>1. CASE k < q
        <3>1. f[i] = g[i] /\ f[k] = g[k] /\ i \in 1..(n - 1) /\ k \in 1..(n - 1)
            BY <1>2, <1>5, <2>1
        <3> QED
            BY <1>5, <3>1 DEF Sorted
    <2>2. CASE k = q
        <3>1. f[i] = g[i] /\ f[k] = x
            BY <1>2, <1>5, <2>2
        <3> QED
            BY <1>3, <1>5, <2>2, <3>1
    <2>3. CASE q < k
        <3>1. f[k] = g[k - 1] /\ k - 1 \in 1..(n - 1) /\ q <= k - 1 /\ q \in 1..(n - 1)
            BY <1>2, <1>5, <2>3
        <3>2. CASE i < q
            <4>1. f[i] = g[i] /\ i < k - 1 /\ i \in 1..(n - 1)
                BY <1>2, <1>5, <2>3, <3>2
            <4> QED
                BY <3>1, <4>1 DEF Sorted
        <3>3. CASE i = q
            <4>1. f[i] = x /\ Less(x, g[q])
                BY <1>2, <1>5, <2>3, <3>3
            <4>2. g[q] \in Seq(Int) /\ g[k - 1] \in Seq(Int) /\ x \in Seq(Int)
                BY <3>1
            <4>3. q = k - 1 \/ Less(g[q], g[k - 1])
                BY <3>1 DEF Sorted
            <4> QED
                BY <3>1, <4>1, <4>2, <4>3, LessTransitive
        <3>4. CASE q < i
            <4>1. f[i] = g[i - 1] /\ i - 1 \in 1..(n - 1) /\ i - 1 < k - 1
                BY <1>2, <1>5, <3>4
            <4> QED
                BY <3>1, <4>1 DEF Sorted
        <3> QED
            BY <1>2, <3>2, <3>3, <3>4
    <2> QED
        BY <1>2, <2>1, <2>2, <2>3
<1>6. Sorted(f, n)
    BY <1>5 DEF Sorted
<1> QED
    BY <1>4, <1>6

LEMMA SortedExists ==
    ASSUME NEW S \in SUBSET Seq(Int), IsFiniteSet(S)
    PROVE  \E f \in [1..Cardinality(S) -> S] : Sorted(f, Cardinality(S))
<1> DEFINE Good(n) == \A T \in SUBSET Seq(Int) :
                        IsFiniteSet(T) /\ Cardinality(T) = n => \E f \in [1..n -> T] : Sorted(f, n)
           Bad == {n \in Nat : ~Good(n)}
<1>1. Bad = {}
    <2> SUFFICES ASSUME Bad # {} PROVE FALSE
        OBVIOUS
    <2>1. PICK n \in Bad : \A m \in Bad : n <= m
        <3>1. Bad \subseteq Nat
            OBVIOUS
        <3> HIDE DEF Bad
        <3> QED
            BY <3>1, LeastNumber
    <2>2. n \in Nat /\ ~Good(n)
        BY <2>1
    <2>3. PICK T \in SUBSET Seq(Int) : /\ IsFiniteSet(T) /\ Cardinality(T) = n
                                       /\ ~\E f \in [1..n -> T] : Sorted(f, n)
        BY <2>2
    <2>4. n # 0
        <3> SUFFICES ASSUME n = 0 PROVE FALSE
            OBVIOUS
        <3> DEFINE e == [i \in 1..n |-> {}]
        <3>1. 1..n = {}
            OBVIOUS
        <3>2. e \in [1..n -> T] /\ Sorted(e, n)
            BY <3>1 DEF Sorted
        <3> QED
            BY <2>3, <3>2
    <2>5. PICK x : x \in T
        BY <2>2, <2>3, <2>4, FS_EmptySet
    <2>6. /\ IsFiniteSet(T \ {x}) /\ Cardinality(T \ {x}) = n - 1 /\ T \ {x} \in SUBSET Seq(Int)
        BY <2>3, <2>5, FS_RemoveElement
    <2>7. n - 1 \in Nat /\ n - 1 < n /\ n - 1 \notin Bad
        <3>1. n - 1 \in Nat /\ n - 1 < n
            BY <2>2, <2>4
        <3> HIDE DEF Bad
        <3> QED
            BY <2>1, <2>2, <3>1
    <2>8. Good(n - 1)
        BY <2>7
    <2>9. PICK g \in [1..(n - 1) -> T \ {x}] : Sorted(g, n - 1)
        BY <2>6, <2>8
    <2>10. \E f \in [1..n -> T] : Sorted(f, n)
        BY <2>2, <2>4, <2>5, <2>9, SortedInsert
    <2> QED
        BY <2>3, <2>10
<1>2. Cardinality(S) \in Nat
    BY FS_CardinalityType
<1>3. Good(Cardinality(S))
    BY <1>1, <1>2
<1> QED
    BY <1>3

\* Ascending is the strings in their order, each of them once.
LEMMA AscendingIsSorted ==
    ASSUME NEW S \in SUBSET Seq(Int), IsFiniteSet(S)
    PROVE  /\ Cardinality(S) \in Nat /\ Len(Ascending(S)) = Cardinality(S)
           /\ Ascending(S) \in [1..Cardinality(S) -> S]
           /\ \A i, j \in 1..Cardinality(S) : i < j => Less(Ascending(S)[i], Ascending(S)[j])
           /\ \A x \in S : \E i \in 1..Cardinality(S) : Ascending(S)[i] = x
<1> DEFINE n == Cardinality(S)
           s == Ascending(S)
<1>1. n \in Nat
    BY FS_CardinalityType
<1>2. s \in [1..n -> S] /\ Sorted(s, n)
    <2>1. \E f \in [1..n -> S] : Sorted(f, n)
        BY SortedExists
    <2> QED
        BY <2>1 DEF Ascending, Sorted
<1> HIDE DEF s, n
<1>3. Len(s) = n
    BY <1>1, <1>2
<1>4. ASSUME NEW i \in 1..n, NEW j \in 1..n, s[i] = s[j] PROVE i = j
    <2>1. s[i] \in Seq(Int)
        BY <1>2
    <2>2. ~Less(s[i], s[j]) /\ ~Less(s[j], s[i])
        BY <1>4, <2>1, LessIrreflexive
    <2>3. ~(i < j) /\ ~(j < i)
        BY <1>2, <2>2 DEF Sorted
    <2> QED
        BY <2>3
<1>5. s \in Injection(1..n, S)
    BY <1>2, <1>4 DEF Injection, IsInjective
<1>6. Cardinality(1..n) = n
    BY <1>1, FS_Interval
<1>7. s \in Surjection(1..n, S)
    BY <1>5, <1>6, FS_Injection DEF n
<1>8. \A x \in S : \E i \in 1..n : s[i] = x
    BY <1>7 DEF Surjection
<1> QED
    BY <1>1, <1>2, <1>3, <1>8 DEF s, n, Sorted

-----------------------------------------------------------------------------
(***************************************************************************)
(* Reading what is in the log, and reading on when it has grown.           *)
(***************************************************************************)
LEMMA WordIs ==
    /\ Word \in Nat /\ Word \div 2 \in Nat /\ Word \div 2 >= 2 /\ Word = 2 * (Word \div 2)
    /\ \A c \in Cells : /\ int32(c) \in Int /\ int32(c) <= maxDiskLogValueSize
                        /\ int32(c) >= 0 => int32(c) = c
    /\ \A n \in 0..maxDiskLogValueSize : n \in Cells /\ uint32(n) = n /\ int32(n) = n
    /\ \A n \in 0..maxDiskLogEntrySize : n \in Cells /\ uint32(n) = n
    /\ uint32(diskLogTombstoneSize) \in Cells
    /\ int32(uint32(diskLogTombstoneSize)) = diskLogTombstoneSize
<1>1. /\ Word \in Nat /\ Word \div 2 \in Nat /\ Word \div 2 >= 2 /\ Word = 2 * (Word \div 2)
    BY WordAssumption
<1>2. \A n \in 0..(Word - 1) : n % Word = n
    BY WordAssumption
<1>3. (-1) % Word = Word - 1
    BY WordAssumption
<1> QED
    BY <1>1, <1>2, <1>3 DEF Cells, uint32, int32, maxDiskLogValueSize, maxDiskLogEntrySize,
                            diskLogTombstoneSize

LEMMA CellsAreInts == \A k \in Seq(Cells) : k \in Seq(Int)
<1> SUFFICES ASSUME NEW k \in Seq(Cells) PROVE k \in Seq(Int)
    OBVIOUS
<1>1. \A i \in 1..Len(k) : k[i] \in Int
    <2>1. \A i \in 1..Len(k) : k[i] \in Cells
        BY ElementOfSeq
    <2> QED
        BY <2>1, WordIs DEF Cells
<1>2. Len(k) \in Nat /\ k = [i \in 1..Len(k) |-> k[i]]
    OBVIOUS
<1>3. k \in [1..Len(k) -> Int]
    BY <1>1, <1>2
<1> QED
    BY <1>2, <1>3, SeqDef

\* A concatenation, cell by cell.
LEMMA Joined ==
    ASSUME NEW a \in Seq(Cells), NEW b \in Seq(Cells)
    PROVE  /\ a \o b \in Seq(Cells) /\ Len(a \o b) = Len(a) + Len(b)
           /\ Len(a) \in Nat /\ Len(b) \in Nat
           /\ \A i \in 1..Len(a) : (a \o b)[i] = a[i]
           /\ \A i \in 1..Len(b) : (a \o b)[Len(a) + i] = b[i]
<1>1. /\ a \o b \in Seq(Cells) /\ Len(a \o b) = Len(a) + Len(b)
      /\ \A i \in 1..Len(a) + Len(b) : (a \o b)[i] = IF i <= Len(a) THEN a[i] ELSE b[i - Len(a)]
    BY ConcatProperties
<1>2. Len(a) \in Nat /\ Len(b) \in Nat
    OBVIOUS
<1>3. ASSUME NEW i \in 1..Len(b) PROVE (a \o b)[Len(a) + i] = b[i]
    <2>1. Len(a) + i \in 1..Len(a) + Len(b) /\ ~(Len(a) + i <= Len(a)) /\ (Len(a) + i) - Len(a) = i
        BY <1>2
    <2> QED
        BY <1>1, <2>1
<1> QED
    BY <1>1, <1>2, <1>3

LEMMA ReadAtIs ==
    ASSUME NEW log \in Seq(Cells), NEW o \in Nat, NEW n \in Nat, o + n <= Len(log)
    PROVE  /\ ReadAt(log, o, n) \in Seq(Cells) /\ Len(ReadAt(log, o, n)) = n
           /\ \A i \in 1..n : ReadAt(log, o, n)[i] = log[o + i]
<1>1. \A i \in (o + 1)..(o + n) : log[i] \in Cells
    <2>1. \A i \in (o + 1)..(o + n) : i \in 1..Len(log)
        OBVIOUS
    <2> QED
        BY <2>1, ElementOfSeq
<1>2. /\ SubSeq(log, o + 1, o + n) \in Seq(Cells)
      /\ Len(SubSeq(log, o + 1, o + n)) = IF o + 1 <= o + n THEN (o + n) - (o + 1) + 1 ELSE 0
      /\ \A i \in 1..((o + n) - (o + 1) + 1) : SubSeq(log, o + 1, o + n)[i] = log[(o + 1) + i - 1]
    BY <1>1, SubSeqProperties
<1>3. (o + n) - (o + 1) + 1 = n /\ \A i \in 1..n : (o + 1) + i - 1 = o + i
    OBVIOUS
<1> QED
    BY <1>2, <1>3 DEF ReadAt

\* What lies before the end is read the same when something is appended.
LEMMA ReadAtKept ==
    ASSUME NEW log \in Seq(Cells), NEW x \in Seq(Cells), NEW o \in Nat, NEW n \in Nat,
           o + n <= Len(log)
    PROVE  ReadAt(log \o x, o, n) = ReadAt(log, o, n)
<1>1. /\ log \o x \in Seq(Cells) /\ Len(log \o x) = Len(log) + Len(x)
      /\ Len(log) \in Nat /\ Len(x) \in Nat
      /\ \A i \in 1..Len(log) : (log \o x)[i] = log[i]
    BY Joined
<1>2. o + n <= Len(log \o x)
    BY <1>1
<1> DEFINE r == ReadAt(log, o, n)
           s == ReadAt(log \o x, o, n)
<1>3. /\ r \in Seq(Cells) /\ Len(r) = n /\ \A i \in 1..n : r[i] = log[o + i]
      /\ s \in Seq(Cells) /\ Len(s) = n /\ \A i \in 1..n : s[i] = (log \o x)[o + i]
    BY <1>1, <1>2, ReadAtIs
<1>4. \A i \in 1..n : o + i \in 1..Len(log)
    BY <1>1
<1> HIDE DEF r, s
<1>5. \A i \in 1..n : s[i] = r[i]
    BY <1>1, <1>3, <1>4
<1>6. s = r
    BY <1>3, <1>5, SeqEqual
<1> QED
    BY <1>6 DEF r, s

\* An entry whose header and key can be read.
LEMMA EntryIs ==
    ASSUME NEW log \in Seq(Cells), NEW o \in Nat, CanReadEntry(log, o)
    PROVE  LET entry == readEntry(log, o)
           IN  /\ o + 2 <= Len(log) /\ log[o + 1] \in Cells /\ log[o + 2] \in Cells
               /\ entry.key \in Seq(Cells) /\ Len(entry.key) = log[o + 1]
               /\ o + 2 + Len(entry.key) <= Len(log)
               /\ entry.valueSize = int32(log[o + 2])
               /\ entry.valueSize \in Int /\ entry.valueSize <= maxDiskLogValueSize
<1>1. Len(log) \in Nat
    OBVIOUS
<1>2. o + 2 <= Len(log)
    BY <1>1 DEF CanReadEntry, CanReadAt, diskLogHeaderSize
<1>3. log[o + 1] \in Cells /\ log[o + 2] \in Cells
    <2>1. o + 1 \in 1..Len(log) /\ o + 2 \in 1..Len(log)
        BY <1>1, <1>2
    <2> QED
        BY <2>1, ElementOfSeq
<1>4. log[o + 1] \in Nat
    BY <1>3 DEF Cells
<1>5. (o + 2) + log[o + 1] <= Len(log)
    BY <1>1, <1>2, <1>4 DEF CanReadEntry, CanReadAt, diskLogHeaderSize
<1>6. /\ ReadAt(log, o + 2, log[o + 1]) \in Seq(Cells)
      /\ Len(ReadAt(log, o + 2, log[o + 1])) = log[o + 1]
    BY <1>4, <1>5, ReadAtIs
<1>7. /\ readEntry(log, o).key = ReadAt(log, o + 2, log[o + 1])
      /\ readEntry(log, o).valueSize = int32(log[o + 2])
    BY DEF readEntry, diskLogHeaderSize
<1>8. int32(log[o + 2]) \in Int /\ int32(log[o + 2]) <= maxDiskLogValueSize
    BY <1>3, WordIs
<1> QED
    BY <1>2, <1>3, <1>5, <1>6, <1>7, <1>8

\* An entry that can be read stays as it is when something is appended.
LEMMA EntryKept ==
    ASSUME NEW log \in Seq(Cells), NEW x \in Seq(Cells), NEW o \in Nat, CanReadEntry(log, o)
    PROVE  /\ CanReadEntry(log \o x, o) /\ readEntry(log \o x, o) = readEntry(log, o)
           /\ StoredSize(log \o x, o) = StoredSize(log, o)
           /\ ValidEntry(log, o) => ValidEntry(log \o x, o)
<1>1. /\ Len(log \o x) = Len(log) + Len(x) /\ Len(log) \in Nat /\ Len(x) \in Nat
      /\ \A i \in 1..Len(log) : (log \o x)[i] = log[i]
    BY Joined
<1>2. /\ o + 2 <= Len(log) /\ log[o + 1] \in Nat
      /\ (o + 2) + log[o + 1] <= Len(log)
    <2>1. /\ o + 2 <= Len(log) /\ log[o + 1] \in Cells /\ Len(readEntry(log, o).key) = log[o + 1]
          /\ o + 2 + Len(readEntry(log, o).key) <= Len(log)
        BY EntryIs
    <2> QED
        BY <2>1 DEF Cells
<1>3. (log \o x)[o + 1] = log[o + 1] /\ (log \o x)[o + 2] = log[o + 2]
    BY <1>1, <1>2
<1>4. ReadAt(log \o x, o + 2, log[o + 1]) = ReadAt(log, o + 2, log[o + 1])
    BY <1>2, ReadAtKept
<1>5. readEntry(log \o x, o) = readEntry(log, o)
    BY <1>3, <1>4 DEF readEntry, diskLogHeaderSize
<1>6. CanReadEntry(log \o x, o)
    BY <1>1, <1>2, <1>3 DEF CanReadEntry, CanReadAt, diskLogHeaderSize
<1>7. StoredSize(log \o x, o) = StoredSize(log, o) /\ StoredSize(log, o) \in Int
    <2>1. /\ readEntry(log, o).key \in Seq(Cells) /\ readEntry(log, o).valueSize \in Int
        BY EntryIs
    <2> QED
        BY <1>5, <2>1 DEF StoredSize, diskLogHeaderSize
<1>8. ValidEntry(log, o) => ValidEntry(log \o x, o)
    <2>1. StoredSize(log, o) <= Len(log) - o => StoredSize(log, o) <= Len(log \o x) - o
        BY <1>1, <1>7
    <2> QED
        BY <1>5, <1>6, <1>7, <2>1 DEF ValidEntry
<1> QED
    BY <1>5, <1>6, <1>7, <1>8

-----------------------------------------------------------------------------
(***************************************************************************)
(* What is written is what is read.                                        *)
(***************************************************************************)
Body(value, deleted) == IF deleted THEN <<>> ELSE value

\* The length field of a value: its length, or the mark of a deletion.
SizeField(value, deleted) == IF deleted THEN diskLogTombstoneSize ELSE Len(value)

EncodedAs(e, key, body, size) ==
    /\ e \in Seq(Cells) /\ body \in Seq(Cells) /\ Len(key) \in Nat /\ Len(body) \in Nat
    /\ Len(e) = 2 + Len(key) + Len(body)
    /\ Len(e) \in 0..maxDiskLogEntrySize
    /\ e[1] = Len(key) /\ int32(e[2]) = size
    /\ \A i \in 1..Len(key) : e[2 + i] = key[i]
    /\ \A i \in 1..Len(body) : e[2 + Len(key) + i] = body[i]

LEMMA EncodedIs ==
    ASSUME NEW key \in Seq(Cells), NEW value \in Seq(Cells), NEW deleted \in BOOLEAN,
           FitsEntry(key, value, deleted)
    PROVE  /\ EncodedAs(EncodedEntry(key, value, deleted), key, Body(value, deleted),
                        SizeField(value, deleted))
           /\ entrySize(key, value, deleted) = Len(EncodedEntry(key, value, deleted))
<1> DEFINE body == Body(value, deleted)
           size == SizeField(value, deleted)
           e == EncodedEntry(key, value, deleted)
<1>body. body = IF deleted THEN <<>> ELSE value
    BY DEF Body
<1>size. size = IF deleted THEN diskLogTombstoneSize ELSE Len(value)
    BY DEF SizeField
<1>e. e = EncodedEntry(key, value, deleted)
    OBVIOUS
<1> HIDE DEF body, size, e
<1>1. body \in Seq(Cells) /\ Len(key) \in Nat /\ Len(value) \in Nat /\ Len(body) \in Nat
    BY <1>body
<1>2. (IF deleted THEN 0 ELSE Len(value)) = Len(body)
    BY <1>body
<1>3. entrySize(key, value, deleted) = 2 + Len(key) + Len(body)
    BY <1>2 DEF entrySize, diskLogHeaderSize
<1>4. Len(value) <= maxDiskLogValueSize /\ 2 + Len(key) + Len(body) <= maxDiskLogEntrySize
    BY <1>3 DEF FitsEntry
<1>5. ASSUME NEW k \in Nat, NEW b \in Nat, NEW m \in Nat, 2 + k + b <= m
      PROVE  k \in 0..m /\ 2 + k + b \in 0..m /\ b \in 0..m
    BY <1>5
<1>6. maxDiskLogEntrySize \in Nat /\ maxDiskLogValueSize \in Nat
    BY WordIs DEF maxDiskLogEntrySize, maxDiskLogValueSize
<1>7. Len(key) \in 0..maxDiskLogEntrySize /\ 2 + Len(key) + Len(body) \in 0..maxDiskLogEntrySize
    BY <1>1, <1>4, <1>5, <1>6
<1>8. Len(value) \in 0..maxDiskLogValueSize
    BY <1>1, <1>4, <1>6
<1>9. uint32(Len(key)) = Len(key) /\ Len(key) \in Cells
    BY <1>7, WordIs
<1>10. uint32(Len(value)) = Len(value) /\ int32(Len(value)) = Len(value) /\ Len(value) \in Cells
    BY <1>8, WordIs
<1> DEFINE header == <<Len(key), uint32(size)>>
<1>11. uint32(size) \in Cells /\ int32(uint32(size)) = size
    BY <1>10, <1>size, WordIs
<1>12. e = (header \o key) \o body
    BY <1>9, <1>10, <1>body, <1>size, <1>e DEF EncodedEntry
<1>13. header \in Seq(Cells) /\ Len(header) = 2 /\ header[1] = Len(key) /\ header[2] = uint32(size)
    BY <1>9, <1>11
<1> DEFINE h == header \o key
<1> HIDE DEF header
<1>14. /\ h \in Seq(Cells) /\ Len(h) = 2 + Len(key) /\ h[1] = Len(key) /\ h[2] = uint32(size)
       /\ \A i \in 1..Len(key) : h[2 + i] = key[i]
    <2>1. /\ header \o key \in Seq(Cells) /\ Len(header \o key) = Len(header) + Len(key)
          /\ \A i \in 1..Len(header) : (header \o key)[i] = header[i]
          /\ \A i \in 1..Len(key) : (header \o key)[Len(header) + i] = key[i]
        BY <1>13, Joined
    <2> QED
        BY <1>13, <2>1
<1>15. e = h \o body
    BY <1>12
<1> HIDE DEF h
<1>16. /\ e \in Seq(Cells) /\ Len(e) = Len(h) + Len(body)
       /\ \A i \in 1..Len(h) : e[i] = h[i]
       /\ \A i \in 1..Len(body) : e[Len(h) + i] = body[i]
    <2>1. /\ h \o body \in Seq(Cells) /\ Len(h \o body) = Len(h) + Len(body)
          /\ \A i \in 1..Len(h) : (h \o body)[i] = h[i]
          /\ \A i \in 1..Len(body) : (h \o body)[Len(h) + i] = body[i]
        BY <1>1, <1>14, Joined
    <2> QED
        BY <1>15, <2>1
<1>17. e[1] = Len(key) /\ e[2] = uint32(size) /\ \A i \in 1..Len(key) : e[2 + i] = key[i]
    <2>1. 1 \in 1..Len(h) /\ 2 \in 1..Len(h) /\ \A i \in 1..Len(key) : 2 + i \in 1..Len(h)
        BY <1>1, <1>14
    <2> QED
        BY <1>14, <1>16, <2>1
<1>18. EncodedAs(e, key, body, size) /\ entrySize(key, value, deleted) = Len(e)
    BY <1>1, <1>3, <1>7, <1>11, <1>14, <1>16, <1>17 DEF EncodedAs
<1> QED
    BY <1>18 DEF e, body, size

\* The log new ends with the entry of a Set or a Delete, from offset o on.
Ends(new, o, key, value, deleted, position) ==
    /\ new \in Seq(Cells) /\ o \in Nat /\ Len(key) \in Nat /\ Len(value) \in Nat
    /\ Len(new) = o + entrySize(key, value, deleted)
    /\ entrySize(key, value, deleted) \in Nat \ {0}
    /\ ValidEntry(new, o) /\ StoredSize(new, o) = entrySize(key, value, deleted)
    /\ readEntry(new, o).key = key
    /\ readEntry(new, o).valueSize = SizeField(value, deleted)
    /\ position = [offset |-> o, size |-> StoredSize(new, o)]
    /\ ~deleted => ReadAt(new, o + 2 + Len(key), Len(value)) = value

LEMMA EntryAppended ==
    ASSUME NEW log \in Seq(Cells), NEW key \in Seq(Cells), NEW value \in Seq(Cells),
           NEW deleted \in BOOLEAN, FitsEntry(key, value, deleted)
    PROVE  Ends(log \o EncodedEntry(key, value, deleted), Len(log), key, value, deleted,
                EntryPosition(log, key, value, deleted))
<1> DEFINE body == Body(value, deleted)
           size == SizeField(value, deleted)
           e == EncodedEntry(key, value, deleted)
           n == Len(body)
           w == entrySize(key, value, deleted)
           new == log \o EncodedEntry(key, value, deleted)
           o == Len(log)
<1>body. body = IF deleted THEN <<>> ELSE value
    BY DEF Body
<1>size. size = IF deleted THEN diskLogTombstoneSize ELSE Len(value)
    BY DEF SizeField
<1>e. EncodedAs(e, key, body, size) /\ w = Len(e) /\ new = log \o e
    BY EncodedIs
<1> HIDE DEF body, size, e, new
<1>1. /\ e \in Seq(Cells) /\ Len(e) = 2 + Len(key) + n
      /\ Len(key) \in Nat /\ n \in Nat /\ body \in Seq(Cells)
      /\ w = 2 + Len(key) + n
      /\ 2 + Len(key) + n \in 0..maxDiskLogEntrySize
      /\ e[1] = Len(key) /\ int32(e[2]) = size
      /\ \A i \in 1..Len(key) : e[2 + i] = key[i]
      /\ \A i \in 1..n : e[2 + Len(key) + i] = body[i]
    BY <1>e DEF EncodedAs
<1> HIDE DEF w
<1>2. /\ new \in Seq(Cells) /\ Len(new) = o + Len(e) /\ o \in Nat
      /\ \A i \in 1..Len(e) : new[o + i] = e[i]
    <2>1. /\ log \o e \in Seq(Cells) /\ Len(log \o e) = Len(log) + Len(e) /\ Len(log) \in Nat
          /\ \A i \in 1..Len(e) : (log \o e)[Len(log) + i] = e[i]
        BY <1>1, Joined
    <2> QED
        BY <1>e, <2>1
<1>3. new[o + 1] = Len(key) /\ int32(new[o + 2]) = size
    <2>1. 1 \in 1..Len(e) /\ 2 \in 1..Len(e)
        BY <1>1
    <2> QED
        BY <1>1, <1>2, <2>1
<1>4. Len(new) = o + 2 + Len(key) + n
    BY <1>1, <1>2
<1>5. ReadAt(new, o + 2, Len(key)) = key
    <2> DEFINE r == ReadAt(new, o + 2, Len(key))
    <2>1. o + 2 \in Nat /\ (o + 2) + Len(key) <= Len(new)
        BY <1>1, <1>2, <1>4
    <2>2. r \in Seq(Cells) /\ Len(r) = Len(key) /\ \A i \in 1..Len(key) : r[i] = new[(o + 2) + i]
        <3> DEFINE q == o + 2
        <3>q. q \in Nat /\ q + Len(key) <= Len(new)
            BY <2>1
        <3> HIDE DEF q
        <3>1. /\ ReadAt(new, q, Len(key)) \in Seq(Cells) /\ Len(ReadAt(new, q, Len(key))) = Len(key)
              /\ \A i \in 1..Len(key) : ReadAt(new, q, Len(key))[i] = new[q + i]
            BY <1>1, <1>2, <3>q, ReadAtIs, ZenonT(30)
        <3> QED
            BY <3>1 DEF q
    <2> HIDE DEF r
    <2>3. ASSUME NEW i \in 1..Len(key) PROVE r[i] = key[i]
        <3>1. 2 + i \in 1..Len(e) /\ (o + 2) + i = o + (2 + i)
            BY <1>1, <1>2
        <3> QED
            BY <1>1, <1>2, <2>2, <3>1
    <2>4. r = key
        BY <2>2, <2>3, SeqEqual
    <2> QED
        BY <2>4 DEF r
<1>6. readEntry(new, o).key = key /\ readEntry(new, o).valueSize = size
    BY <1>3, <1>5 DEF readEntry, diskLogHeaderSize
<1>7. CanReadEntry(new, o)
    BY <1>1, <1>2, <1>3, <1>4 DEF CanReadEntry, CanReadAt, diskLogHeaderSize
<1>8. size \in Int /\ size >= -1 /\ (IF size = -1 THEN 0 ELSE size) = n
    BY <1>body, <1>size DEF diskLogTombstoneSize
<1>9. StoredSize(new, o) = 2 + Len(key) + n
    BY <1>6, <1>8 DEF StoredSize, diskLogHeaderSize, diskLogTombstoneSize
<1>10. maxDiskLogEntrySize \in Nat
    BY WordIs DEF maxDiskLogEntrySize
<1>11. ValidEntry(new, o)
    <2>1. readEntry(new, o).valueSize >= diskLogTombstoneSize
        BY <1>6, <1>8 DEF diskLogTombstoneSize
    <2>2. StoredSize(new, o) <= maxDiskLogEntrySize
        BY <1>1, <1>9, <1>10
    <2>3. StoredSize(new, o) <= Len(new) - o
        BY <1>1, <1>2, <1>4, <1>9
    <2> QED
        BY <1>7, <2>1, <2>2, <2>3 DEF ValidEntry
<1>12. EntryPosition(log, key, value, deleted) = [offset |-> o, size |-> StoredSize(new, o)]
    <2>1. uint32(w) = w
        BY <1>1, WordIs
    <2> QED
        BY <1>1, <1>9, <2>1 DEF EntryPosition, w
<1>13. ASSUME ~deleted PROVE ReadAt(new, o + 2 + Len(key), Len(value)) = value
    <2>v. body = value /\ Len(value) \in Nat
        BY <1>13, <1>body
    <2> DEFINE k == o + 2 + Len(key)
               r == ReadAt(new, k, Len(value))
    <2>1. k \in Nat /\ k + Len(value) <= Len(new)
        BY <1>1, <1>2, <1>4, <2>v
    <2>2. r \in Seq(Cells) /\ Len(r) = Len(value) /\ \A i \in 1..Len(value) : r[i] = new[k + i]
        <3> HIDE DEF k
        <3> QED
            BY <1>2, <2>v, <2>1, ReadAtIs, Zenon
    <2> HIDE DEF r
    <2>3. ASSUME NEW i \in 1..Len(value) PROVE r[i] = value[i]
        <3>1. 2 + Len(key) + i \in 1..Len(e) /\ k + i = o + (2 + Len(key) + i)
            BY <1>1, <1>2, <2>v
        <3>2. r[i] = new[o + (2 + Len(key) + i)] /\ e[2 + Len(key) + i] = value[i]
            BY <1>1, <2>v, <2>2, <3>1
        <3> QED
            BY <1>2, <3>1, <3>2
    <2>4. r = value
        BY <2>2, <2>3, SeqEqual
    <2> QED
        BY <2>4 DEF r
<1>14. w \in Nat \ {0} /\ Len(new) = o + w
    BY <1>1, <1>2
<1> QED
    BY <1>1, <1>2, <1>6, <1>9, <1>11, <1>12, <1>13, <1>14 DEF w, new, size, Ends

-----------------------------------------------------------------------------
(***************************************************************************)
(* A position holds a value of a key when a whole entry of that key, not a *)
(* deletion, lies there.  Every position in an index of the engine does.   *)
(***************************************************************************)
Holds(log, key, position) ==
    /\ position.offset \in Nat
    /\ position = [offset |-> position.offset, size |-> StoredSize(log, position.offset)]
    /\ ValidEntry(log, position.offset)
    /\ readEntry(log, position.offset).key = key
    /\ readEntry(log, position.offset).valueSize >= 0

\* The value can be read, and fits in an entry of its own.
LEMMA HoldsIs ==
    ASSUME NEW log \in Seq(Cells), NEW key, NEW position, Holds(log, key, position)
    PROVE  /\ key \in Seq(Cells)
           /\ position.offset \in Nat /\ position.size \in Cells
           /\ position = [offset |-> position.offset, size |-> position.size]
           /\ readLogValue(log, position) \in Seq(Cells)
           /\ FitsEntry(key, readLogValue(log, position), FALSE)
<1> DEFINE o == position.offset
           v == readEntry(log, o).valueSize
           k == o + 2 + Len(key)
<1>1. /\ o \in Nat /\ ValidEntry(log, o) /\ readEntry(log, o).key = key /\ v >= 0
      /\ position.size = StoredSize(log, o)
      /\ position = [offset |-> o, size |-> StoredSize(log, o)]
    BY DEF Holds
<1> HIDE DEF o
<1>2. CanReadEntry(log, o)
    BY <1>1 DEF ValidEntry
<1>3. /\ key \in Seq(Cells) /\ v \in Int /\ v <= maxDiskLogValueSize
    BY <1>1, <1>2, EntryIs
<1>4. Len(key) \in Nat /\ v \in Nat /\ Len(log) \in Nat
    BY <1>1, <1>3
<1> HIDE DEF v
<1>5. StoredSize(log, o) = 2 + Len(key) + v
    <2>1. v # -1
        BY <1>1, <1>4
    <2> QED
        BY <1>1, <2>1 DEF StoredSize, v, diskLogHeaderSize, diskLogTombstoneSize
<1>6. maxDiskLogEntrySize = Word - 1 /\ Word \in Nat
    BY WordIs DEF maxDiskLogEntrySize
<1>7. 2 + Len(key) + v <= Word - 1 /\ 2 + Len(key) + v <= Len(log) - o
    BY <1>1, <1>5, <1>6 DEF ValidEntry
<1>8. 2 + Len(key) + v \in 0..(Word - 1)
    BY <1>4, <1>6, <1>7
<1>9. k \in Nat /\ k + v <= Len(log)
    BY <1>1, <1>4, <1>7
<1> HIDE DEF k
<1>10. ReadAt(log, k, v) \in Seq(Cells) /\ Len(ReadAt(log, k, v)) = v
    BY <1>4, <1>9, ReadAtIs
<1>11. readLogValue(log, position) = ReadAt(log, k, v)
    <2>1. o + diskLogHeaderSize + Len(readEntry(log, o).key) = k
        BY <1>1 DEF k, diskLogHeaderSize
    <2>2. diskLogHeaderSize + Len(readEntry(log, o).key) + v = position.size
        BY <1>1, <1>5 DEF diskLogHeaderSize
    <2>3. CanReadAt(log, k, v)
        BY <1>9 DEF CanReadAt
    <2> QED
        BY <1>1, <1>2, <2>1, <2>2, <2>3 DEF readLogValue, o, v
<1>12. entrySize(key, ReadAt(log, k, v), FALSE) = 2 + Len(key) + v
    BY <1>10 DEF entrySize, diskLogHeaderSize
<1>13. FitsEntry(key, ReadAt(log, k, v), FALSE)
    BY <1>3, <1>6, <1>7, <1>10, <1>12 DEF FitsEntry
<1> QED
    BY <1>1, <1>3, <1>5, <1>8, <1>10, <1>11, <1>13 DEF o, Cells

\* A position and the value it holds outlive what is appended after it.
LEMMA HoldsKept ==
    ASSUME NEW log \in Seq(Cells), NEW x \in Seq(Cells), NEW key, NEW position,
           Holds(log, key, position)
    PROVE  /\ Holds(log \o x, key, position)
           /\ readLogValue(log \o x, position) = readLogValue(log, position)
<1> DEFINE o == position.offset
           new == log \o x
           entry == readEntry(log, o)
           keyEnd == o + diskLogHeaderSize + Len(entry.key)
<1>1. o \in Nat /\ CanReadEntry(log, o) /\ ValidEntry(log, o)
    BY DEF Holds, ValidEntry
<1>2. /\ CanReadEntry(new, o) /\ readEntry(new, o) = entry
      /\ StoredSize(new, o) = StoredSize(log, o) /\ ValidEntry(new, o)
    BY <1>1, EntryKept
<1>3. Holds(new, key, position)
    BY <1>2 DEF Holds
<1>4. /\ entry.valueSize \in Nat /\ keyEnd \in Nat /\ keyEnd + entry.valueSize <= Len(log)
      /\ Len(log) \in Nat
    <2>1. /\ entry.key \in Seq(Cells) /\ entry.valueSize \in Int /\ entry.valueSize >= 0
        BY <1>1, EntryIs DEF Holds
    <2>2. Len(entry.key) \in Nat /\ entry.valueSize # -1 /\ Len(log) \in Nat
        BY <2>1
    <2>3. StoredSize(log, o) = 2 + Len(entry.key) + entry.valueSize
        BY <2>2 DEF StoredSize, diskLogHeaderSize, diskLogTombstoneSize
    <2>4. 2 + Len(entry.key) + entry.valueSize <= Len(log) - o
        BY <1>1, <2>3 DEF ValidEntry
    <2>5. \A a, b, c, d \in Nat : 2 + b + c <= d - a => a + 2 + b \in Nat /\ (a + 2 + b) + c <= d
        OBVIOUS
    <2>6. entry.valueSize \in Nat
        BY <2>1
    <2>7. keyEnd = o + 2 + Len(entry.key)
        BY DEF diskLogHeaderSize
    <2> HIDE DEF o, entry, keyEnd
    <2> QED
        BY <1>1, <2>2, <2>4, <2>5, <2>6, <2>7
<1>5. ReadAt(new, keyEnd, entry.valueSize) = ReadAt(log, keyEnd, entry.valueSize)
    <2> HIDE DEF keyEnd, entry
    <2> QED
        BY <1>4, ReadAtKept
<1>6. CanReadAt(log, keyEnd, entry.valueSize) /\ CanReadAt(new, keyEnd, entry.valueSize)
    <2>1. Len(new) = Len(log) + Len(x) /\ Len(x) \in Nat
        BY Joined
    <2> HIDE DEF keyEnd, entry, new
    <2> QED
        BY <1>4, <2>1 DEF CanReadAt
<1>7. readLogValue(new, position) = readLogValue(log, position)
    <2>1. readLogValue(log, position) =
            IF /\ entry.valueSize >= 0
               /\ diskLogHeaderSize + Len(entry.key) + entry.valueSize = position.size
               /\ CanReadAt(log, keyEnd, entry.valueSize)
            THEN ReadAt(log, keyEnd, entry.valueSize) ELSE ReadError
        BY <1>1 DEF readLogValue
    <2>2. readLogValue(new, position) =
            IF /\ entry.valueSize >= 0
               /\ diskLogHeaderSize + Len(entry.key) + entry.valueSize = position.size
               /\ CanReadAt(new, keyEnd, entry.valueSize)
            THEN ReadAt(new, keyEnd, entry.valueSize) ELSE ReadError
        BY <1>2 DEF readLogValue
    <2> HIDE DEF keyEnd, entry, new
    <2> QED
        BY <1>5, <1>6, <2>1, <2>2
<1> QED
    BY <1>3, <1>7

\* The entry of a Set holds its value at the position writeEntry returns.
LEMMA HoldsNew ==
    ASSUME NEW log \in Seq(Cells), NEW key \in Seq(Cells), NEW value \in Seq(Cells),
           FitsEntry(key, value, FALSE)
    PROVE  LET new == log \o EncodedEntry(key, value, FALSE)
               position == EntryPosition(log, key, value, FALSE)
           IN  /\ Holds(new, key, position)
               /\ readLogValue(new, position) = value
<1> DEFINE new == log \o EncodedEntry(key, value, FALSE)
           position == EntryPosition(log, key, value, FALSE)
           o == Len(log)
<1>e. Ends(new, o, key, value, FALSE, position)
    BY EntryAppended
<1> HIDE DEF new, position, o
<1>1. /\ new \in Seq(Cells) /\ o \in Nat /\ Len(value) \in Nat /\ Len(key) \in Nat
      /\ Len(new) = o + entrySize(key, value, FALSE)
      /\ ValidEntry(new, o) /\ StoredSize(new, o) = entrySize(key, value, FALSE)
      /\ readEntry(new, o).key = key /\ readEntry(new, o).valueSize = Len(value)
      /\ position = [offset |-> o, size |-> StoredSize(new, o)]
      /\ ReadAt(new, o + 2 + Len(key), Len(value)) = value
    BY <1>e DEF Ends, SizeField
<1>2. position.offset = o /\ position.size = StoredSize(new, o)
    BY <1>1
<1>3. Holds(new, key, position)
    BY <1>1, <1>2 DEF Holds
<1>4. entrySize(key, value, FALSE) = 2 + Len(key) + Len(value)
    BY DEF entrySize, diskLogHeaderSize
<1>5. CanReadAt(new, o + 2 + Len(key), Len(value))
    <2>1. Len(new) = o + (2 + Len(key) + Len(value))
        BY <1>1, <1>4, Zenon
    <2>2. \A a, b, c, n \in Nat : n = a + (2 + b + c) => (a + 2 + b) + c <= n
        OBVIOUS
    <2>3. Len(new) \in Nat
        <3>1. new \in Seq(Cells)
            BY <1>1, Zenon
        <3> QED
            BY <3>1
    <2>4. (o + 2 + Len(key)) + Len(value) <= Len(new)
        BY <1>1, <2>1, <2>2, <2>3, Zenon
    <2> QED
        BY <2>4 DEF CanReadAt
<1>6. CanReadEntry(new, o)
    BY <1>1 DEF ValidEntry
<1>7. readLogValue(new, position) = value
    <2> DEFINE entry == readEntry(new, o)
    <2>1. /\ entry.key = key /\ entry.valueSize = Len(value) /\ Len(value) >= 0
          /\ 2 + Len(key) + Len(value) = position.size
        <3>1. \A n \in Nat : n >= 0
            OBVIOUS
        <3> QED
            BY <1>1, <1>2, <1>4, <3>1, Zenon
    <2>2. readLogValue(new, position) =
            IF /\ entry.valueSize >= 0
               /\ 2 + Len(entry.key) + entry.valueSize = position.size
               /\ CanReadAt(new, o + 2 + Len(entry.key), entry.valueSize)
            THEN ReadAt(new, o + 2 + Len(entry.key), entry.valueSize) ELSE ReadError
        BY <1>2, <1>6 DEF readLogValue, diskLogHeaderSize
    <2> HIDE DEF entry
    <2> QED
        BY <1>1, <1>5, <2>1, <2>2
<1> QED
    BY <1>3, <1>7 DEF new, position

-----------------------------------------------------------------------------
(***************************************************************************)
(* The walk of rebuildKeydir.                                              *)
(***************************************************************************)
\* n is where the walk starts, or where an entry ends that it has reached.
Reached(log, f, n) ==
    \/ n = 0
    \/ \E o \in 0..(n - 1) : ValidEntry(log, o) /\ o + StoredSize(log, o) = n /\ f[o]

\* The recursive definition of Visited has a solution.
LEMMA VisitsDef ==
    ASSUME NEW log, NEW m \in Nat
    PROVE  \E f : f = [n \in 0..m |-> Reached(log, f, n)]
<1> DEFINE Solves(f, i) == f = [n \in 0..i |-> Reached(log, f, n)]
           Without == {i \in Nat : ~ \E f : Solves(f, i)}
<1> SUFFICES ASSUME Without # {} PROVE FALSE
    OBVIOUS
<1>1. PICK i \in Without : \A j \in Without : i <= j
    <2>1. Without \subseteq Nat
        OBVIOUS
    <2> HIDE DEF Without
    <2> QED
        BY <2>1, LeastNumber
<1>2. i \in Nat /\ ~ \E f : Solves(f, i)
    BY <1>1
<1>3. i # 0
    <2> DEFINE z == [n \in 0..0 |-> TRUE]
    <2>1. \A n \in 0..0 : Reached(log, z, n)
        BY DEF Reached
    <2>2. z = [n \in 0..0 |-> Reached(log, z, n)]
        <3> HIDE DEF z
        <3>1. z = [n \in 0..0 |-> TRUE]
            BY DEF z
        <3> QED
            BY <2>1, <3>1
    <2>3. Solves(z, 0)
        BY <2>2
    <2> HIDE DEF Solves, z
    <2> QED
        BY <1>2, <2>3
<1>4. i - 1 \in Nat /\ i - 1 \notin Without
    <2>1. i - 1 \in Nat /\ i - 1 < i
        BY <1>2, <1>3
    <2> HIDE DEF Without
    <2> QED
        BY <1>1, <1>2, <2>1
<1>5. PICK f : Solves(f, i - 1)
    <2> HIDE DEF Solves
    <2> QED
        BY <1>4
<1> DEFINE g == [n \in 0..i |-> Reached(log, f, n)]
<1>6. ASSUME NEW n \in 0..(i - 1) PROVE g[n] = f[n]
    <2>1. n \in 0..i
        BY <1>2
    <2>2. g[n] = Reached(log, f, n)
        BY <2>1
    <2>3. f[n] = Reached(log, f, n)
        <3> HIDE DEF g
        <3> QED
            BY <1>5
    <2> QED
        BY <2>2, <2>3
<1>7. ASSUME NEW n \in 0..i PROVE Reached(log, g, n) = Reached(log, f, n)
    <2>1. \A o \in 0..(n - 1) : g[o] = f[o]
        <3>1. \A o \in 0..(n - 1) : o \in 0..(i - 1)
            BY <1>2
        <3> HIDE DEF g
        <3> QED
            BY <1>6, <3>1
    <2> HIDE DEF g
    <2> QED
        BY <2>1, Zenon DEF Reached
<1>8. g = [n \in 0..i |-> Reached(log, g, n)]
    <2>1. [n \in 0..i |-> Reached(log, g, n)] = [n \in 0..i |-> Reached(log, f, n)]
        <3> HIDE DEF g
        <3> QED
            BY <1>7, Zenon
    <2> QED
        BY <2>1, Zenon
<1>9. Solves(g, i)
    BY <1>8, Zenon
<1> HIDE DEF Solves, g
<1> QED
    BY <1>2, <1>9

LEMMA VisitedIs ==
    ASSUME NEW log \in Seq(Cells)
    PROVE  /\ Visited(log) \subseteq 0..(Len(log) - 1)
           /\ \A n \in 0..(Len(log) - 1) :
                n \in Visited(log) <=>
                    \/ n = 0
                    \/ \E o \in Visited(log) : /\ o < n /\ ValidEntry(log, o)
                                               /\ o + StoredSize(log, o) = n
<1> DEFINE m == Len(log)
           f == CHOOSE g : g = [n \in 0..m |-> Reached(log, g, n)]
<1>1. m \in Nat
    OBVIOUS
<1>2. f = [n \in 0..m |-> Reached(log, f, n)]
    <2>1. \E g : g = [n \in 0..m |-> Reached(log, g, n)]
        BY <1>1, VisitsDef
    <2> QED
        BY <2>1, Zenon
<1>3. Visited(log) = {n \in 0..(m - 1) : f[n]}
    BY DEF Visited, Reached
<1> HIDE DEF f, m
<1>4. ASSUME NEW n \in 0..(m - 1) PROVE f[n] = Reached(log, f, n)
    <2>1. n \in 0..m
        BY <1>1
    <2> QED
        BY <1>2, <2>1
<1>5. ASSUME NEW n \in 0..(m - 1)
      PROVE  n \in Visited(log) <=>
                \/ n = 0
                \/ \E o \in Visited(log) : /\ o < n /\ ValidEntry(log, o)
                                           /\ o + StoredSize(log, o) = n
    <2>1. n \in Visited(log) <=> Reached(log, f, n)
        BY <1>3, <1>4, Zenon
    <2>2. \A o : o \in 0..(n - 1) <=> o \in 0..(m - 1) /\ o < n
        BY <1>1
    <2>3. Reached(log, f, n) <=> \/ n = 0
                                 \/ \E o \in 0..(m - 1) : /\ o < n /\ ValidEntry(log, o)
                                                          /\ o + StoredSize(log, o) = n /\ f[o]
        BY <2>2, Zenon DEF Reached
    <2> QED
        BY <1>3, <2>1, <2>3, Zenon
<1> QED
    BY <1>3, <1>5 DEF m

\* An entry takes up room, and ends within the file.
LEMMA StoredSizeIs ==
    ASSUME NEW log \in Seq(Cells), NEW o \in Nat, ValidEntry(log, o)
    PROVE  StoredSize(log, o) \in Nat /\ StoredSize(log, o) >= 2 /\ o + StoredSize(log, o) <= Len(log)
<1> DEFINE k == Len(readEntry(log, o).key)
           v == readEntry(log, o).valueSize
<1>1. k \in Nat /\ v \in Int /\ v >= -1 /\ Len(log) \in Nat
    <2>1. CanReadEntry(log, o) /\ v >= diskLogTombstoneSize
        BY DEF ValidEntry
    <2>2. readEntry(log, o).key \in Seq(Cells) /\ v \in Int
        BY <2>1, EntryIs
    <2> QED
        BY <2>1, <2>2 DEF diskLogTombstoneSize
<1>2. StoredSize(log, o) = 2 + k + (IF v = -1 THEN 0 ELSE v)
    BY DEF StoredSize, diskLogHeaderSize, diskLogTombstoneSize
<1> HIDE DEF k, v
<1>3. StoredSize(log, o) \in Nat /\ StoredSize(log, o) >= 2
    BY <1>1, <1>2
<1>4. StoredSize(log, o) <= Len(log) - o
    BY DEF ValidEntry
<1>5. \A a, b, c \in Nat : a <= b - c => c + a <= b
    OBVIOUS
<1> QED
    BY <1>1, <1>3, <1>4, <1>5

\* The walk gets to an entry appended to a log it gets through, and stops there.
LEMMA VisitedAppended ==
    ASSUME NEW log \in Seq(Cells), NEW e \in Seq(Cells), ~RebuildFails(log), Len(e) # 0,
           ValidEntry(log \o e, Len(log)), StoredSize(log \o e, Len(log)) = Len(e)
    PROVE  Visited(log \o e) = Visited(log) \cup {Len(log)} /\ ~RebuildFails(log \o e)
<1> DEFINE new == log \o e
           m == Len(log)
           V == Visited(log)
           W == Visited(new)
<1>1. /\ new \in Seq(Cells) /\ m \in Nat /\ Len(e) \in Nat /\ Len(new) = m + Len(e)
    BY Joined
<1>2. /\ V \subseteq 0..(m - 1)
      /\ \A n \in 0..(m - 1) :
            n \in V <=> n = 0 \/ \E o \in V : /\ o < n /\ ValidEntry(log, o)
                                              /\ o + StoredSize(log, o) = n
    BY VisitedIs
<1>3. /\ W \subseteq 0..(Len(new) - 1)
      /\ \A n \in 0..(Len(new) - 1) :
            n \in W <=> n = 0 \/ \E o \in W : /\ o < n /\ ValidEntry(new, o)
                                              /\ o + StoredSize(new, o) = n
    BY <1>1, VisitedIs
<1>4. ASSUME NEW o \in V
      PROVE  /\ o \in Nat /\ ValidEntry(log, o) /\ ValidEntry(new, o)
             /\ StoredSize(new, o) = StoredSize(log, o)
             /\ StoredSize(log, o) \in Nat /\ StoredSize(log, o) >= 2
             /\ o + StoredSize(log, o) <= m
    <2>1. o \in Nat /\ ValidEntry(log, o)
        BY <1>1, <1>2 DEF RebuildFails
    <2>2. CanReadEntry(log, o)
        BY <2>1 DEF ValidEntry
    <2>3. StoredSize(new, o) = StoredSize(log, o) /\ ValidEntry(new, o)
        BY <2>1, <2>2, EntryKept
    <2>4. /\ StoredSize(log, o) \in Nat /\ StoredSize(log, o) >= 2
          /\ o + StoredSize(log, o) <= m
        BY <2>1, StoredSizeIs
    <2> QED
        BY <2>1, <2>3, <2>4
<1>5. ValidEntry(new, m) /\ StoredSize(new, m) = Len(e)
    OBVIOUS
<1> HIDE DEF V, W, new, m
<1>6. \A n \in 0..(m - 1) : n \in V <=> n \in W
    <2> DEFINE Bad == {n \in 0..(m - 1) : ~(n \in V <=> n \in W)}
    <2> SUFFICES ASSUME Bad # {} PROVE FALSE
        OBVIOUS
    <2>1. PICK n \in Bad : \A j \in Bad : n <= j
        <3>1. Bad \subseteq Nat
            BY <1>1
        <3> HIDE DEF Bad
        <3> QED
            BY <3>1, LeastNumber
    <2>2. n \in 0..(m - 1) /\ ~(n \in V <=> n \in W) /\ n \in 0..(Len(new) - 1)
        <3>1. n \in 0..(m - 1) => n \in 0..(Len(new) - 1)
            BY <1>1
        <3> QED
            BY <2>1, <3>1
    <2>3. ASSUME NEW o \in 0..(m - 1), o < n PROVE o \in V <=> o \in W
        <3>1. o \notin Bad
            <4>1. ~(n <= o)
                BY <1>1, <2>2, <2>3
            <4> HIDE DEF Bad
            <4> QED
                BY <2>1, <4>1
        <3> QED
            BY <3>1
    <2> HIDE DEF Bad
    <2>4. \A o \in W : o < n => o \in 0..(m - 1)
        BY <1>1, <1>3, <2>2
    <2>5. ASSUME n \in V PROVE n \in W
        <3>1. CASE n = 0
            BY <1>3, <2>2, <3>1
        <3>2. CASE n # 0
            <4>1. PICK o \in V : o < n /\ o + StoredSize(log, o) = n
                BY <1>2, <2>2, <2>5, <3>2
            <4>2. o \in W
                BY <1>2, <2>3, <4>1
            <4>3. ValidEntry(new, o) /\ o + StoredSize(new, o) = n
                BY <1>4, <4>1
            <4> QED
                BY <1>3, <2>2, <4>1, <4>2, <4>3
        <3> QED
            BY <3>1, <3>2
    <2>6. ASSUME n \in W PROVE n \in V
        <3>1. CASE n = 0
            BY <1>2, <2>2, <3>1
        <3>2. CASE n # 0
            <4>1. PICK o \in W : o < n /\ o + StoredSize(new, o) = n
                BY <1>3, <2>2, <2>6, <3>2
            <4>2. o \in V
                BY <2>3, <2>4, <4>1
            <4>3. ValidEntry(log, o) /\ o + StoredSize(log, o) = n
                BY <1>4, <4>1, <4>2
            <4> QED
                BY <1>2, <2>2, <4>1, <4>2, <4>3
        <3> QED
            BY <3>1, <3>2
    <2> QED
        BY <2>2, <2>5, <2>6
<1>7. m \in W
    <2>1. m \in 0..(Len(new) - 1)
        BY <1>1
    <2>2. CASE m = 0
        BY <1>3, <2>1, <2>2
    <2>3. CASE m # 0
        <3> DEFINE Room == {m - o : o \in V}
        <3>1. 0 \in V
            BY <1>1, <1>2, <2>3
        <3>2. Room \subseteq Nat /\ Room # {}
            BY <1>1, <1>2, <3>1
        <3>3. PICK r \in Room : \A s \in Room : r <= s
            <4> HIDE DEF Room
            <4> QED
                BY <3>2, LeastNumber
        <3>4. PICK o \in V : r = m - o
            BY <3>3
        <3>5. \A q \in V : q <= o
            <4>1. \A q \in V : m - o <= m - q
                BY <3>3, <3>4
            <4>2. \A q \in V : q \in Nat /\ o \in Nat
                BY <1>4
            <4> QED
                BY <1>1, <4>1, <4>2
        <3> DEFINE n == o + StoredSize(log, o)
        <3>6. n \in Nat /\ n <= m /\ o < n
            BY <1>4
        <3>7. n = m
            <4> SUFFICES ASSUME n # m PROVE FALSE
                OBVIOUS
            <4>1. n \in 0..(m - 1)
                BY <1>1, <3>6
            <4>2. ValidEntry(log, o)
                BY <1>4
            <4>3. n \in V
                BY <1>2, <3>6, <4>1, <4>2
            <4> HIDE DEF n
            <4> QED
                BY <1>4, <3>5, <3>6, <4>3
        <3>8. o \in W /\ ValidEntry(new, o) /\ o + StoredSize(new, o) = m
            BY <1>2, <1>4, <1>6, <3>7
        <3>9. o < m
            BY <3>6, <3>7
        <3> QED
            BY <1>3, <2>1, <3>8, <3>9
    <2> QED
        BY <2>2, <2>3
<1>8. \A n \in W : n <= m
    <2> DEFINE Bad == {n \in W : ~(n <= m)}
    <2> SUFFICES ASSUME Bad # {} PROVE FALSE
        OBVIOUS
    <2>1. PICK n \in Bad : \A j \in Bad : n <= j
        <3>0. \A n \in W : n \in Nat
            BY <1>1, <1>3
        <3>1. Bad \subseteq Nat
            BY <3>0
        <3> HIDE DEF Bad
        <3> QED
            BY <3>1, LeastNumber
    <2>2. n \in W /\ n \in Nat /\ m < n /\ n < Len(new) /\ n \in 0..(Len(new) - 1) /\ n # 0
        BY <1>1, <1>3, <2>1
    <2>3. PICK o \in W : o < n /\ o + StoredSize(new, o) = n
        BY <1>3, <2>2
    <2>4. o \in Nat
        BY <1>1, <1>3
    <2>5. CASE o < m
        <3>1. o \in V
            BY <1>1, <1>6, <2>4, <2>5
        <3> QED
            BY <1>1, <1>4, <2>2, <2>3, <3>1
    <2>6. CASE o = m
        BY <1>1, <1>5, <2>2, <2>3, <2>6
    <2>7. CASE m < o
        <3>1. o \in Bad
            BY <1>1, <2>4, <2>7
        <3> HIDE DEF Bad
        <3> QED
            BY <2>1, <2>2, <2>3, <2>4, <3>1
    <2> QED
        BY <1>1, <2>4, <2>5, <2>6, <2>7
<1>9. W = V \cup {m}
    <2>1. \A n \in W : n \in V \cup {m}
        <3>1. \A n \in W : n = m \/ n \in 0..(m - 1)
            BY <1>1, <1>3, <1>8
        <3> QED
            BY <1>6, <3>1
    <2>2. \A n \in V : n \in W
        BY <1>2, <1>6
    <2> QED
        BY <1>7, <2>1, <2>2
<1>10. ~RebuildFails(new)
    BY <1>4, <1>5, <1>9 DEF RebuildFails, W
<1> QED
    BY <1>9, <1>10 DEF V, W, new, m

\* The entry at o is the last one of its key, and no deletion.
Live(log, o) ==
    /\ o \in Visited(log)
    /\ \A q \in Visited(log) : readEntry(log, q).key = readEntry(log, o).key => q <= o
    /\ readEntry(log, o).valueSize # diskLogTombstoneSize

\* The index has the live entries, each under its key.
LEMMA RebuildIs ==
    ASSUME NEW log \in Seq(Cells)
    PROVE  /\ DOMAIN rebuildKeydir(log) = {readEntry(log, o).key : o \in {q \in Visited(log) : Live(log, q)}}
           /\ rebuildKeydir(log) = [k \in DOMAIN rebuildKeydir(log) |-> rebuildKeydir(log)[k]]
           /\ \A o \in Visited(log) : Live(log, o) =>
                rebuildKeydir(log)[readEntry(log, o).key] = [offset |-> o, size |-> StoredSize(log, o)]
<1> DEFINE last == {o \in Visited(log) : \A q \in Visited(log) :
                        readEntry(log, q).key = readEntry(log, o).key => q <= o}
           live == {o \in last : readEntry(log, o).valueSize # diskLogTombstoneSize}
           keys == {readEntry(log, o).key : o \in live}
           offsetOf(k) == CHOOSE o \in live : readEntry(log, o).key = k
           d == [k \in keys |-> [offset |-> offsetOf(k), size |-> StoredSize(log, offsetOf(k))]]
<1>1. rebuildKeydir(log) = d
    BY DEF rebuildKeydir
<1>2. live = {q \in Visited(log) : Live(log, q)}
    BY DEF Live
<1>3. ASSUME NEW o \in live PROVE offsetOf(readEntry(log, o).key) = o
    <2> DEFINE q == offsetOf(readEntry(log, o).key)
    <2>1. q \in live /\ readEntry(log, q).key = readEntry(log, o).key
        <3> HIDE DEF live
        <3> QED
            BY Zenon
    <2> HIDE DEF q
    <2>2. q <= o /\ o <= q
        BY <2>1
    <2>3. q \in Int /\ o \in Int
        <3>1. Visited(log) \subseteq 0..(Len(log) - 1) /\ Len(log) \in Nat
            BY VisitedIs
        <3> QED
            BY <2>1, <3>1
    <2>4. q = o
        BY <2>2, <2>3
    <2> QED
        BY <2>4 DEF q
<1> HIDE DEF live, offsetOf
<1>4. ASSUME NEW o \in live
      PROVE  d[readEntry(log, o).key] = [offset |-> o, size |-> StoredSize(log, o)]
    BY <1>3
<1>5. DOMAIN d = keys /\ d = [k \in DOMAIN d |-> d[k]]
    OBVIOUS
<1> HIDE DEF d
<1> QED
    BY <1>1, <1>2, <1>4, <1>5

\* A deletion aside, an entry the walk gets to holds its key.
LEMMA RebuildHolds ==
    ASSUME NEW log \in Seq(Cells), ~RebuildFails(log)
    PROVE  /\ IsFiniteSet(DOMAIN rebuildKeydir(log))
           /\ \A k \in DOMAIN rebuildKeydir(log) : Holds(log, k, rebuildKeydir(log)[k])
<1> DEFINE L == {q \in Visited(log) : Live(log, q)}
           keyAt(o) == readEntry(log, o).key
<1>1. /\ DOMAIN rebuildKeydir(log) = {keyAt(o) : o \in L}
      /\ \A o \in Visited(log) : Live(log, o) =>
            rebuildKeydir(log)[keyAt(o)] = [offset |-> o, size |-> StoredSize(log, o)]
    BY RebuildIs
<1>2. Visited(log) \subseteq 0..(Len(log) - 1) /\ Len(log) \in Nat
    BY VisitedIs
<1>3. IsFiniteSet(L)
    <2>1. IsFiniteSet(0..(Len(log) - 1))
        BY <1>2, FS_Interval
    <2>2. L \subseteq 0..(Len(log) - 1)
        BY <1>2
    <2> QED
        BY <2>1, <2>2, FS_Subset
<1>4. IsFiniteSet({keyAt(o) : o \in L})
    <2> DEFINE f == [o \in L |-> keyAt(o)]
    <2>1. {keyAt(o) : o \in L} = {f[o] : o \in L}
        OBVIOUS
    <2>2. f \in Surjection(L, {f[o] : o \in L})
        BY DEF Surjection
    <2> HIDE DEF f, L, keyAt
    <2> QED
        BY <1>3, <2>1, <2>2, FS_Surjection
<1>5. ASSUME NEW k \in DOMAIN rebuildKeydir(log) PROVE Holds(log, k, rebuildKeydir(log)[k])
    <2>1. PICK o \in L : keyAt(o) = k
        BY <1>1
    <2> DEFINE position == rebuildKeydir(log)[k]
    <2>2. position = [offset |-> o, size |-> StoredSize(log, o)]
        BY <1>1, <2>1
    <2>3. o \in Nat /\ ValidEntry(log, o)
        BY <1>2 DEF RebuildFails
    <2>4. readEntry(log, o).valueSize >= 0
        <3>1. /\ readEntry(log, o).valueSize >= diskLogTombstoneSize
              /\ readEntry(log, o).valueSize # diskLogTombstoneSize
              /\ CanReadEntry(log, o)
            BY <2>3 DEF ValidEntry, Live
        <3>2. readEntry(log, o).valueSize \in Int
            BY <2>3, <3>1, EntryIs
        <3> QED
            BY <3>1, <3>2 DEF diskLogTombstoneSize
    <2> HIDE DEF position
    <2>5. position.offset = o
        BY <2>2
    <2>6. Holds(log, k, position)
        BY <2>1, <2>2, <2>3, <2>4, <2>5 DEF Holds
    <2> QED
        BY <2>6 DEF position
<1> QED
    BY <1>1, <1>4, <1>5

\* An empty file opens with an empty index.
LEMMA RebuildEmpty == ~RebuildFails(<<>>) /\ rebuildKeydir(<<>>) = EmptyKeydir
<1>1. <<>> \in Seq(Cells) /\ Len(<<>>) = 0
    OBVIOUS
<1>2. Visited(<<>>) = {}
    <2>1. Visited(<<>>) \subseteq 0..(Len(<<>>) - 1)
        BY <1>1, VisitedIs
    <2>2. 0..(Len(<<>>) - 1) = {}
        BY <1>1
    <2> QED
        BY <2>1, <2>2
<1> DEFINE d == rebuildKeydir(<<>>)
<1>3. DOMAIN d = {} /\ d = [k \in DOMAIN d |-> d[k]]
    BY <1>1, <1>2, RebuildIs
<1> HIDE DEF d
<1>4. d = EmptyKeydir
    BY <1>3 DEF EmptyKeydir
<1> QED
    BY <1>2, <1>4 DEF RebuildFails, d

\* Set and Delete do to the index what a restart after them would find.
LEMMA RebuildAppended ==
    ASSUME NEW log \in Seq(Cells), ~RebuildFails(log),
           NEW key \in Seq(Cells), NEW value \in Seq(Cells),
           NEW deleted \in BOOLEAN, FitsEntry(key, value, deleted)
    PROVE  LET new == log \o EncodedEntry(key, value, deleted)
           IN  /\ ~RebuildFails(new)
               /\ deleted => rebuildKeydir(new) = Unindexed(rebuildKeydir(log), key)
               /\ ~deleted => rebuildKeydir(new) =
                    Indexed(rebuildKeydir(log), key, EntryPosition(log, key, value, deleted))
<1> DEFINE e == EncodedEntry(key, value, deleted)
           new == log \o e
           m == Len(log)
           V == Visited(log)
           W == Visited(new)
           d == rebuildKeydir(log)
           c == rebuildKeydir(new)
           position == EntryPosition(log, key, value, deleted)
<1>1. Ends(new, m, key, value, deleted, position)
    BY EntryAppended
<1>2. e \in Seq(Cells) /\ Len(e) = entrySize(key, value, deleted) /\ Len(e) # 0
    <2>1. EncodedAs(e, key, Body(value, deleted), SizeField(value, deleted)) /\ entrySize(key, value, deleted) = Len(e)
        BY EncodedIs
    <2>2. entrySize(key, value, deleted) # 0
        BY <1>1 DEF Ends
    <2> QED
        BY <2>1, <2>2 DEF EncodedAs
<1>3. /\ new \in Seq(Cells) /\ m \in Nat /\ ValidEntry(new, m) /\ StoredSize(new, m) = Len(e)
      /\ readEntry(new, m).key = key
      /\ readEntry(new, m).valueSize = SizeField(value, deleted)
      /\ position = [offset |-> m, size |-> StoredSize(new, m)]
    BY <1>1, <1>2 DEF Ends
<1>4. W = V \cup {m} /\ ~RebuildFails(new)
    <2> HIDE DEF e
    <2> QED
        BY <1>2, <1>3, VisitedAppended
<1>5. ASSUME NEW o \in V
      PROVE  /\ o \in Nat /\ o < m /\ readEntry(new, o) = readEntry(log, o)
             /\ StoredSize(new, o) = StoredSize(log, o)
    <2>1. o \in Nat /\ o < m /\ ValidEntry(log, o)
        <3>1. V \subseteq 0..(m - 1)
            BY VisitedIs
        <3>2. ValidEntry(log, o)
            BY DEF RebuildFails
        <3> HIDE DEF V, m
        <3> QED
            BY <1>3, <3>1, <3>2
    <2>2. CanReadEntry(log, o)
        BY <2>1 DEF ValidEntry
    <2> HIDE DEF e
    <2> QED
        BY <1>2, <2>1, <2>2, EntryKept
<1> DEFINE LiveIn(o) == Live(log, o)
           LiveNew(o) == Live(new, o)
           keyAt(o) == readEntry(log, o).key
           keyNew(o) == readEntry(new, o).key
           entryAt(o) == [offset |-> o, size |-> StoredSize(log, o)]
           entryNew(o) == [offset |-> o, size |-> StoredSize(new, o)]
<1>6. /\ DOMAIN d = {keyAt(o) : o \in {q \in V : LiveIn(q)}} /\ d = [k \in DOMAIN d |-> d[k]]
      /\ \A o \in V : LiveIn(o) => d[keyAt(o)] = entryAt(o)
    BY RebuildIs
<1>7. /\ DOMAIN c = {keyNew(o) : o \in {q \in W : LiveNew(q)}} /\ c = [k \in DOMAIN c |-> c[k]]
      /\ \A o \in W : LiveNew(o) => c[keyNew(o)] = entryNew(o)
    BY <1>3, RebuildIs
<1>8. /\ \A o \in V : keyNew(o) = keyAt(o) /\ entryNew(o) = entryAt(o)
      /\ keyNew(m) = key /\ entryNew(m) = position
    BY <1>3, <1>5
<1>9. \A o \in V : LiveNew(o) <=> LiveIn(o) /\ keyAt(o) # key
    <2> SUFFICES ASSUME NEW o \in V PROVE LiveNew(o) <=> LiveIn(o) /\ keyAt(o) # key
        OBVIOUS
    <2>1. LiveNew(o) <=> /\ \A q \in W : keyNew(q) = keyNew(o) => q <= o
                         /\ readEntry(new, o).valueSize # diskLogTombstoneSize
        BY <1>4 DEF Live
    <2>2. LiveIn(o) <=> /\ \A q \in V : keyAt(q) = keyAt(o) => q <= o
                        /\ readEntry(log, o).valueSize # diskLogTombstoneSize
        BY DEF Live
    <2>3. readEntry(new, o).valueSize = readEntry(log, o).valueSize
        BY <1>5
    <2>4. ~(m <= o)
        BY <1>3, <1>5
    <2> HIDE DEF LiveNew, LiveIn, keyNew, keyAt, V, W, m
    <2> QED
        BY <1>4, <1>8, <2>1, <2>2, <2>3, <2>4, Zenon
<1>10. LiveNew(m) <=> ~deleted
    <2>1. \A q \in W : q <= m
        BY <1>3, <1>4, <1>5
    <2>2. Len(value) # -1
        BY <1>1 DEF Ends
    <2>3. SizeField(value, deleted) # diskLogTombstoneSize <=> ~deleted
        BY <2>2 DEF SizeField, diskLogTombstoneSize
    <2> QED
        BY <1>3, <1>4, <2>1, <2>3 DEF Live
<1> HIDE DEF e, new, m, V, W, d, c, position, LiveIn, LiveNew, keyAt, keyNew, entryAt, entryNew
<1>11. \A k : k # key => (k \in DOMAIN c <=> k \in DOMAIN d)
    <2>1. ASSUME NEW k, k # key, k \in DOMAIN c PROVE k \in DOMAIN d
        <3>1. PICK o \in W : LiveNew(o) /\ k = keyNew(o)
            BY <1>7, <2>1
        <3>2. o \in V
            BY <1>4, <1>8, <2>1, <3>1
        <3> QED
            BY <1>6, <1>8, <1>9, <3>1, <3>2
    <2>2. ASSUME NEW k, k # key, k \in DOMAIN d PROVE k \in DOMAIN c
        <3>1. PICK o \in V : LiveIn(o) /\ k = keyAt(o)
            BY <1>6, <2>2
        <3>2. o \in W /\ LiveNew(o) /\ k = keyNew(o)
            BY <1>4, <1>8, <1>9, <2>2, <3>1
        <3> QED
            BY <1>7, <3>2
    <2> QED
        BY <2>1, <2>2
<1>12. ASSUME NEW k \in DOMAIN d, k # key PROVE c[k] = d[k]
    <2>1. PICK o \in V : LiveIn(o) /\ k = keyAt(o)
        BY <1>6
    <2>2. o \in W /\ LiveNew(o) /\ k = keyNew(o) /\ entryNew(o) = entryAt(o)
        BY <1>4, <1>8, <1>9, <1>12, <2>1
    <2> QED
        BY <1>6, <1>7, <2>1, <2>2
<1>13. key \in DOMAIN c <=> ~deleted
    <2>1. ASSUME key \in DOMAIN c PROVE ~deleted
        <3>1. PICK o \in W : LiveNew(o) /\ key = keyNew(o)
            BY <1>7, <2>1
        <3>2. o \notin V
            BY <1>8, <1>9, <3>1
        <3> QED
            BY <1>4, <1>10, <3>1, <3>2
    <2>2. ASSUME ~deleted PROVE key \in DOMAIN c
        BY <1>4, <1>7, <1>8, <1>10, <2>2
    <2> QED
        BY <2>1, <2>2
<1>14. ~deleted => c[key] = position
    BY <1>4, <1>7, <1>8, <1>10
<1>15. deleted => c = Unindexed(d, key)
    <2> SUFFICES ASSUME deleted PROVE c = Unindexed(d, key)
        OBVIOUS
    <2>1. DOMAIN c = DOMAIN d \ {key}
        BY <1>11, <1>13
    <2>2. \A k \in DOMAIN d \ {key} : c[k] = d[k]
        BY <1>12
    <2> QED
        BY <1>7, <2>1, <2>2 DEF Unindexed
<1>16. ~deleted => c = Indexed(d, key, position)
    <2> SUFFICES ASSUME ~deleted PROVE c = Indexed(d, key, position)
        OBVIOUS
    <2>1. DOMAIN c = DOMAIN d \cup {key}
        BY <1>11, <1>13
    <2>2. \A k \in DOMAIN d \cup {key} : c[k] = IF k = key THEN position ELSE d[k]
        BY <1>12, <1>14
    <2> QED
        BY <1>7, <2>1, <2>2 DEF Indexed
<1> QED
    BY <1>4, <1>15, <1>16 DEF e, new, d, c, position

=============================================================================
