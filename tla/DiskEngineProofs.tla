-------------------------- MODULE DiskEngineProofs --------------------------
(***************************************************************************)
(* The disk engine is correct for every set of processes, keys, values and *)
(* ranges, every width of the length fields and every size of the log.     *)
(***************************************************************************)
EXTENDS DiskEngine, DiskLogProofs

-----------------------------------------------------------------------------
(***************************************************************************)
(* Every position of the index d holds a value of its key in the log.      *)
(***************************************************************************)
Readable(log, d) ==
    /\ IsFiniteSet(DOMAIN d) /\ d = [k \in DOMAIN d |-> d[k]]
    /\ \A k \in DOMAIN d : Holds(log, k, d[k])

LEMMA ReadableIs ==
    ASSUME NEW log \in Seq(Cells), NEW d, Readable(log, d)
    PROVE  /\ IsKeydir(d)
           /\ \A k \in DOMAIN d : /\ k \in Seq(Cells) /\ readLogValue(log, d[k]) \in Seq(Cells)
                                  /\ FitsEntry(k, readLogValue(log, d[k]), FALSE)
<1>1. ASSUME NEW k \in DOMAIN d
      PROVE  /\ k \in Seq(Cells) /\ readLogValue(log, d[k]) \in Seq(Cells)
             /\ FitsEntry(k, readLogValue(log, d[k]), FALSE)
             /\ d[k] \in Position
    <2> DEFINE position == d[k]
    <2>1. Holds(log, k, position)
        BY DEF Readable
    <2> HIDE DEF position
    <2>2. /\ k \in Seq(Cells) /\ readLogValue(log, position) \in Seq(Cells)
          /\ FitsEntry(k, readLogValue(log, position), FALSE)
          /\ position.offset \in Nat /\ position.size \in Cells
          /\ position = [offset |-> position.offset, size |-> position.size]
        BY <2>1, HoldsIs
    <2>3. position \in Position
        BY <2>2 DEF Position
    <2> QED
        BY <2>2, <2>3 DEF position
<1>2. IsKeydir(d)
    BY <1>1 DEF IsKeydir, Readable
<1> QED
    BY <1>1, <1>2

LEMMA ReadableEmpty ==
    ASSUME NEW log
    PROVE  Readable(log, EmptyKeydir) /\ IsKeydir(EmptyKeydir)
<1>1. DOMAIN EmptyKeydir = {} /\ EmptyKeydir = [k \in DOMAIN EmptyKeydir |-> EmptyKeydir[k]]
    BY DEF EmptyKeydir
<1>2. IsFiniteSet({})
    BY FS_EmptySet
<1> QED
    BY <1>1, <1>2 DEF Readable, IsKeydir

LEMMA ReadableRebuilt ==
    ASSUME NEW log \in Seq(Cells), ~RebuildFails(log)
    PROVE  Readable(log, rebuildKeydir(log))
<1>1. rebuildKeydir(log) = [k \in DOMAIN rebuildKeydir(log) |-> rebuildKeydir(log)[k]]
    BY RebuildIs
<1> QED
    BY <1>1, RebuildHolds DEF Readable

\* Whatever is appended, also half an entry, leaves the index readable.
LEMMA ReadableKept ==
    ASSUME NEW log \in Seq(Cells), NEW x \in Seq(Cells), NEW d, Readable(log, d)
    PROVE  /\ Readable(log \o x, d)
           /\ \A k \in DOMAIN d : readLogValue(log \o x, d[k]) = readLogValue(log, d[k])
<1>1. ASSUME NEW k \in DOMAIN d
      PROVE  Holds(log \o x, k, d[k]) /\ readLogValue(log \o x, d[k]) = readLogValue(log, d[k])
    BY HoldsKept DEF Readable
<1> QED
    BY <1>1 DEF Readable

\* new and c are the log and the index after a Set, log and d before it.
SetIn(new, c, log, d, key, value) ==
    /\ new \in Seq(Cells) /\ Readable(new, c) /\ DOMAIN c = DOMAIN d \cup {key}
    /\ readLogValue(new, c[key]) = value
    /\ \A k \in DOMAIN d : k # key => readLogValue(new, c[k]) = readLogValue(log, d[k])

LEMMA ReadableSet ==
    ASSUME NEW log \in Seq(Cells), NEW d, Readable(log, d),
           NEW key \in Seq(Cells), NEW value \in Seq(Cells), FitsEntry(key, value, FALSE)
    PROVE  SetIn(log \o EncodedEntry(key, value, FALSE),
                 Indexed(d, key, EntryPosition(log, key, value, FALSE)), log, d, key, value)
<1> DEFINE e == EncodedEntry(key, value, FALSE)
           new == log \o e
           position == EntryPosition(log, key, value, FALSE)
           c == Indexed(d, key, position)
<1>1. e \in Seq(Cells) /\ new \in Seq(Cells)
    <2>1. EncodedAs(e, key, Body(value, FALSE), SizeField(value, FALSE))
        BY EncodedIs
    <2>2. e \in Seq(Cells)
        BY <2>1 DEF EncodedAs
    <2> HIDE DEF e
    <2> QED
        BY <2>2
<1>2. Holds(new, key, position) /\ readLogValue(new, position) = value
    BY HoldsNew
<1>3. Readable(new, d) /\ \A k \in DOMAIN d : readLogValue(new, d[k]) = readLogValue(log, d[k])
    <2> HIDE DEF e
    <2> QED
        BY <1>1, ReadableKept
<1> HIDE DEF e, new, position
<1>4. /\ DOMAIN c = DOMAIN d \cup {key} /\ c = [k \in DOMAIN c |-> c[k]]
      /\ c[key] = position /\ \A k \in DOMAIN d : k # key => c[k] = d[k]
    BY DEF Indexed
<1>5. IsFiniteSet(DOMAIN c)
    BY <1>4, FS_AddElement DEF Readable
<1> HIDE DEF c
<1>6. Readable(new, c)
    <2>1. \A k \in DOMAIN c : Holds(new, k, c[k])
        BY <1>2, <1>3, <1>4 DEF Readable
    <2> QED
        BY <1>4, <1>5, <2>1 DEF Readable
<1>7. SetIn(new, c, log, d, key, value)
    BY <1>1, <1>2, <1>3, <1>4, <1>6 DEF SetIn
<1> QED
    BY <1>7 DEF e, new, c, position

DeletedIn(new, c, log, d, key) ==
    /\ new \in Seq(Cells) /\ Readable(new, c) /\ DOMAIN c = DOMAIN d \ {key}
    /\ \A k \in DOMAIN c : readLogValue(new, c[k]) = readLogValue(log, d[k])

LEMMA ReadableDelete ==
    ASSUME NEW log \in Seq(Cells), NEW d, Readable(log, d),
           NEW key \in Seq(Cells), FitsEntry(key, <<>>, TRUE)
    PROVE  DeletedIn(log \o EncodedEntry(key, <<>>, TRUE), Unindexed(d, key), log, d, key)
<1> DEFINE e == EncodedEntry(key, <<>>, TRUE)
           new == log \o e
           c == Unindexed(d, key)
<1>1. e \in Seq(Cells) /\ new \in Seq(Cells)
    <2>1. <<>> \in Seq(Cells)
        OBVIOUS
    <2>2. EncodedAs(e, key, Body(<<>>, TRUE), SizeField(<<>>, TRUE))
        BY <2>1, EncodedIs
    <2>3. e \in Seq(Cells)
        BY <2>2 DEF EncodedAs
    <2> HIDE DEF e
    <2> QED
        BY <2>3
<1>2. Readable(new, d) /\ \A k \in DOMAIN d : readLogValue(new, d[k]) = readLogValue(log, d[k])
    <2> HIDE DEF e
    <2> QED
        BY <1>1, ReadableKept
<1> HIDE DEF e, new
<1>3. /\ DOMAIN c = DOMAIN d \ {key} /\ c = [k \in DOMAIN c |-> c[k]]
      /\ \A k \in DOMAIN c : k \in DOMAIN d /\ c[k] = d[k]
    BY DEF Unindexed
<1>4. IsFiniteSet(DOMAIN c)
    BY <1>3, FS_RemoveElement DEF Readable
<1> HIDE DEF c
<1>5. Readable(new, c)
    <2>1. \A k \in DOMAIN c : Holds(new, k, c[k])
        BY <1>2, <1>3 DEF Readable
    <2> QED
        BY <1>3, <1>4, <2>1 DEF Readable
<1>6. DeletedIn(new, c, log, d, key)
    BY <1>1, <1>2, <1>3, <1>5 DEF DeletedIn
<1> QED
    BY <1>6 DEF e, new, c

-----------------------------------------------------------------------------
(***************************************************************************)
(* Compaction's copy.                                                      *)
(***************************************************************************)
\* The copy after n keys, from what it was after n - 1.
CopyStep(log, d, keys, f, n) ==
    IF n = 0 THEN [log |-> <<>>, keydir |-> EmptyKeydir]
    ELSE RewriteEntry(f[n - 1], keys[n], readLogValue(log, d[keys[n]]))

\* The recursive definition of Rewritten has a solution.
LEMMA CopiedDef ==
    ASSUME NEW log, NEW d, NEW keys, NEW m \in Nat
    PROVE  \E f : f = [n \in 0..m |-> CopyStep(log, d, keys, f, n)]
<1> DEFINE Solves(f, i) == f = [n \in 0..i |-> CopyStep(log, d, keys, f, n)]
           Without == {i \in Nat : ~ \E f : Solves(f, i)}
<1> SUFFICES ASSUME Without # {} PROVE FALSE
    OBVIOUS
<1>1. PICK i \in Without : \A j \in Without : i <= j
    <2>1. Without \subseteq Nat
        OBVIOUS
    <2> HIDE DEF Without
    <2> QED
        BY <2>1, LeastNumber
<1>2. i \in Nat /\ ~ \E f : Solves(f, i)
    BY <1>1
<1>3. i # 0
    <2> DEFINE z == [n \in 0..0 |-> [log |-> <<>>, keydir |-> EmptyKeydir]]
    <2>1. Solves(z, 0)
        BY DEF CopyStep
    <2> HIDE DEF Solves, z
    <2> QED
        BY <1>2, <2>1
<1>4. i - 1 \in Nat /\ i - 1 \notin Without
    <2>1. i - 1 \in Nat /\ i - 1 < i
        BY <1>2, <1>3
    <2> HIDE DEF Without
    <2> QED
        BY <1>1, <1>2, <2>1
<1>5. PICK f : Solves(f, i - 1)
    <2> HIDE DEF Solves
    <2> QED
        BY <1>4
<1> DEFINE g == [n \in 0..i |-> CopyStep(log, d, keys, f, n)]
<1>6. ASSUME NEW n \in 0..(i - 1) PROVE g[n] = f[n]
    <2>1. n \in 0..i
        BY <1>2
    <2>2. g[n] = CopyStep(log, d, keys, f, n)
        BY <2>1
    <2>3. f[n] = CopyStep(log, d, keys, f, n)
        <3> HIDE DEF g
        <3> QED
            BY <1>5
    <2> QED
        BY <2>2, <2>3
<1>7. ASSUME NEW n \in 0..i PROVE CopyStep(log, d, keys, g, n) = CopyStep(log, d, keys, f, n)
    <2>1. n # 0 => n - 1 \in 0..(i - 1)
        BY <1>2
    <2>2. n # 0 => g[n - 1] = f[n - 1]
        <3> HIDE DEF g
        <3> QED
            BY <1>6, <2>1
    <2> HIDE DEF g
    <2> QED
        BY <2>2 DEF CopyStep
<1>8. Solves(g, i)
    <2>1. [n \in 0..i |-> CopyStep(log, d, keys, g, n)] = [n \in 0..i |-> CopyStep(log, d, keys, f, n)]
        <3> HIDE DEF g
        <3> QED
            BY <1>7, Zenon
    <2> QED
        BY <2>1, Zenon
<1> HIDE DEF Solves, g
<1> QED
    BY <1>2, <1>8

\* A copy s has the first n of the keys with their values, and the index that
\* a restart with this log would build.
Copies(s, log, d, keys, n) ==
    /\ s.log \in Seq(Cells) /\ ~RebuildFails(s.log) /\ s.keydir = rebuildKeydir(s.log)
    /\ DOMAIN s.keydir = {keys[i] : i \in 1..n}
    /\ \A i \in 1..n : readLogValue(s.log, s.keydir[keys[i]]) = readLogValue(log, d[keys[i]])

LEMMA CopiesOneMore ==
    ASSUME NEW log \in Seq(Cells), NEW d, Readable(log, d), NEW n \in Nat \ {0},
           NEW keys \in Seq(DOMAIN d), n <= Len(keys), NEW s, Copies(s, log, d, keys, n - 1)
    PROVE  Copies(RewriteEntry(s, keys[n], readLogValue(log, d[keys[n]])), log, d, keys, n)
<1> DEFINE key == keys[n]
           value == readLogValue(log, d[key])
           old == s.log
           c == s.keydir
           position == EntryPosition(old, key, value, FALSE)
           new == old \o EncodedEntry(key, value, FALSE)
           r == RewriteEntry(s, key, value)
<1>1. n \in 1..Len(keys) /\ n - 1 \in Nat
    OBVIOUS
<1>2. key \in DOMAIN d
    BY <1>1, ElementOfSeq
<1>3. key \in Seq(Cells) /\ value \in Seq(Cells) /\ FitsEntry(key, value, FALSE)
    BY <1>2, ReadableIs
<1>4. /\ old \in Seq(Cells) /\ ~RebuildFails(old) /\ c = rebuildKeydir(old)
      /\ DOMAIN c = {keys[i] : i \in 1..(n - 1)}
      /\ \A i \in 1..(n - 1) : readLogValue(old, c[keys[i]]) = readLogValue(log, d[keys[i]])
    BY DEF Copies
<1>5. r.log = new /\ r.keydir = Indexed(c, key, position)
    BY DEF RewriteEntry
<1>6. value = readLogValue(log, d[key])
    OBVIOUS
<1> HIDE DEF key, value, old, c, r
<1>7. Readable(old, c)
    BY <1>4, ReadableRebuilt
<1>8. ~RebuildFails(new) /\ rebuildKeydir(new) = Indexed(c, key, position)
    BY <1>3, <1>4, RebuildAppended
<1>9. SetIn(new, Indexed(c, key, position), old, c, key, value)
    BY <1>3, <1>4, <1>7, ReadableSet
<1> HIDE DEF new, position
<1> DEFINE b == r.keydir
<1>10. /\ r.log \in Seq(Cells) /\ ~RebuildFails(r.log) /\ b = rebuildKeydir(r.log)
       /\ DOMAIN b = DOMAIN c \cup {key} /\ readLogValue(r.log, b[key]) = value
       /\ \A k \in DOMAIN c : k # key => readLogValue(r.log, b[k]) = readLogValue(old, c[k])
    BY <1>5, <1>8, <1>9 DEF SetIn
<1> HIDE DEF b
<1>11. 1..n = 1..(n - 1) \cup {n}
    OBVIOUS
<1>12. DOMAIN b = {keys[i] : i \in 1..n}
    BY <1>4, <1>10, <1>11 DEF key
<1>13. ASSUME NEW i \in 1..n PROVE readLogValue(r.log, b[keys[i]]) = readLogValue(log, d[keys[i]])
    <2>1. CASE keys[i] = key
        BY <1>6, <1>10, <2>1
    <2>2. CASE keys[i] # key
        <3>1. i \in 1..(n - 1)
            BY <1>11, <2>2 DEF key
        <3>2. keys[i] \in DOMAIN c
            BY <1>4, <3>1
        <3> QED
            BY <1>4, <1>10, <2>2, <3>1, <3>2
    <2> QED
        BY <2>1, <2>2
<1>14. Copies(r, log, d, keys, n)
    BY <1>10, <1>12, <1>13 DEF Copies, b
<1> QED
    BY <1>14 DEF r, key, value

\* The rewritten log holds what the index reaches in the old one, and nothing
\* else; its index is the one a restart would build.
LEMMA RewrittenIs ==
    ASSUME NEW log \in Seq(Cells), NEW d, Readable(log, d)
    PROVE  LET r == Rewritten(log, d)
           IN  /\ r.log \in Seq(Cells) /\ ~RebuildFails(r.log)
               /\ r.keydir = rebuildKeydir(r.log) /\ DOMAIN r.keydir = DOMAIN d
               /\ \A k \in DOMAIN d : readLogValue(r.log, r.keydir[k]) = readLogValue(log, d[k])
<1> DEFINE keys == Ascending(DOMAIN d)
           m == Cardinality(DOMAIN d)
           f == CHOOSE g : g = [n \in 0..Len(keys) |-> CopyStep(log, d, keys, g, n)]
<1>1. DOMAIN d \in SUBSET Seq(Int) /\ IsFiniteSet(DOMAIN d)
    <2>1. \A k \in DOMAIN d : k \in Seq(Cells)
        BY ReadableIs
    <2> QED
        BY <2>1, CellsAreInts DEF Readable
<1>2. /\ m \in Nat /\ Len(keys) = m /\ keys \in [1..m -> DOMAIN d]
      /\ \A k \in DOMAIN d : \E i \in 1..m : keys[i] = k
    <2> HIDE DEF keys, m
    <2> QED
        BY <1>1, AscendingIsSorted DEF keys, m
<1>3. f = [n \in 0..m |-> CopyStep(log, d, keys, f, n)]
    <2>1. \E g : g = [n \in 0..Len(keys) |-> CopyStep(log, d, keys, g, n)]
        <3>1. Len(keys) \in Nat
            <4> HIDE DEF keys, m
            <4> QED
                BY <1>2
        <3> HIDE DEF keys
        <3> QED
            BY <3>1, CopiedDef, SMTT(30)
    <2>2. f = [n \in 0..Len(keys) |-> CopyStep(log, d, keys, f, n)]
        <3> HIDE DEF keys
        <3> QED
            BY <2>1, Zenon
    <2> QED
        BY <1>2, <2>2, Zenon
<1>4. Rewritten(log, d) = f[m]
    <2>1. Rewritten(log, d) = f[Len(keys)]
        BY DEF Rewritten, CopyStep
    <2> QED
        BY <1>2, <2>1, Zenon
<1> HIDE DEF f, keys, m
<1>5. keys \in Seq(DOMAIN d)
    BY <1>2
<1> DEFINE Bad == {n \in 0..m : ~Copies(f[n], log, d, keys, n)}
<1>6. Bad = {}
    <2> SUFFICES ASSUME Bad # {} PROVE FALSE
        OBVIOUS
    <2>1. PICK n \in Bad : \A j \in Bad : n <= j
        <3>1. Bad \subseteq Nat
            BY <1>2
        <3> HIDE DEF Bad
        <3> QED
            BY <3>1, LeastNumber
    <2>2. n \in 0..m /\ ~Copies(f[n], log, d, keys, n)
        BY <2>1
    <2>3. f[n] = CopyStep(log, d, keys, f, n)
        BY <1>3, <2>2
    <2>4. n # 0
        <3> SUFFICES ASSUME n = 0 PROVE Copies(f[n], log, d, keys, n)
            BY <2>2
        <3>1. f[n].log = <<>> /\ f[n].keydir = EmptyKeydir
            BY <2>3 DEF CopyStep
        <3>2. ~RebuildFails(<<>>) /\ rebuildKeydir(<<>>) = EmptyKeydir /\ <<>> \in Seq(Cells)
            BY RebuildEmpty
        <3>3. DOMAIN EmptyKeydir = {} /\ 1..n = {}
            BY DEF EmptyKeydir
        <3> QED
            BY <3>1, <3>2, <3>3 DEF Copies
    <2>5. n \in Nat \ {0} /\ n - 1 \in 0..m /\ n <= Len(keys) /\ ~(n <= n - 1)
        BY <1>2, <2>2, <2>4
    <2>6. Copies(f[n - 1], log, d, keys, n - 1)
        <3>1. n - 1 \notin Bad
            <4> HIDE DEF Bad
            <4> QED
                BY <2>1, <2>5
        <3> QED
            BY <2>5, <3>1
    <2>7. f[n] = RewriteEntry(f[n - 1], keys[n], readLogValue(log, d[keys[n]]))
        BY <2>3, <2>4 DEF CopyStep
    <2>8. Copies(f[n], log, d, keys, n)
        BY <1>5, <2>5, <2>6, <2>7, CopiesOneMore
    <2> QED
        BY <2>2, <2>8
<1>7. Copies(f[m], log, d, keys, m)
    BY <1>2, <1>6
<1> DEFINE s == f[m]
<1> HIDE DEF s
<1>8. /\ s.log \in Seq(Cells) /\ ~RebuildFails(s.log) /\ s.keydir = rebuildKeydir(s.log)
      /\ DOMAIN s.keydir = {keys[i] : i \in 1..m}
      /\ \A i \in 1..m : readLogValue(s.log, s.keydir[keys[i]]) = readLogValue(log, d[keys[i]])
    BY <1>7 DEF Copies, s
<1>9. {keys[i] : i \in 1..m} = DOMAIN d
    BY <1>2
<1>10. \A k \in DOMAIN d : readLogValue(s.log, s.keydir[k]) = readLogValue(log, d[k])
    BY <1>2, <1>8
<1> QED
    BY <1>4, <1>8, <1>9, <1>10 DEF s

-----------------------------------------------------------------------------
(***************************************************************************)
(* A scan's copy of the index.                                             *)
(***************************************************************************)
\* Each item still to be read holds its key, and reads as was promised.
Promised(log, items, promised) ==
    /\ Len(items) = Len(promised)
    /\ \A i \in 1..Len(items) :
        /\ Holds(log, items[i].key, items[i].position)
        /\ promised[i] = <<items[i].key, readLogValue(log, items[i].position)>>

Item == [key : Seq(Cells), position : Position]

\* The bounds of the disk engine and those of the memory engine agree.
LEMMA RangesAgree ==
    ASSUME NEW k \in Seq(Cells), NEW start \in Seq(Cells) \cup {Nil}, NEW end
    PROVE  InRange(k, start, end, Nil) <=> /\ start # Nil => ~Less(k, start)
                                           /\ end # Nil => Less(k, end)
<1>1. start # Nil => (AtMost(start, k) <=> ~Less(k, start))
    <2> SUFFICES ASSUME start # Nil PROVE AtMost(start, k) <=> ~Less(k, start)
        OBVIOUS
    <2>1. k \in Seq(Int) /\ start \in Seq(Int)
        BY CellsAreInts
    <2>2. Less(start, k) \/ Less(k, start) \/ start = k
        BY <2>1, LessTotal
    <2>3. ~Less(k, k)
        BY <2>1, LessIrreflexive
    <2>4. ~(Less(start, k) /\ Less(k, start))
        BY <2>1, <2>3, LessTransitive
    <2> QED
        BY <2>2, <2>3, <2>4 DEF AtMost
<1> QED
    BY <1>1 DEF InRange

LEMMA ScanStarts ==
    ASSUME NEW log \in Seq(Cells), NEW d, Readable(log, d), NEW reverse \in BOOLEAN,
           NEW start \in Seq(Cells) \cup {Nil}, NEW end,
           NEW contents, contents = [k \in DOMAIN d |-> readLogValue(log, d[k])]
    PROVE  /\ snapshotRange(d, start, end, reverse) \in Seq(Item)
           /\ MemoryScan(contents, start, end, reverse) \in Seq(Seq(Cells) \X Seq(Cells))
           /\ Promised(log, snapshotRange(d, start, end, reverse),
                       MemoryScan(contents, start, end, reverse))
<1> DEFINE S == {k \in DOMAIN d : InRange(k, start, end, Nil)}
           T == {k \in DOMAIN contents : /\ start # Nil => ~Less(k, start)
                                         /\ end # Nil => Less(k, end)}
           n == Cardinality(S)
           keys == Ascending(S)
           at(i) == IF reverse THEN (n - i) + 1 ELSE i
           items == [i \in 1..n |-> [key |-> keys[at(i)], position |-> d[keys[at(i)]]]]
           values == [i \in 1..n |-> <<keys[at(i)], readLogValue(log, d[keys[at(i)]])>>]
<1>1. /\ \A k \in DOMAIN d : /\ k \in Seq(Cells) /\ readLogValue(log, d[k]) \in Seq(Cells)
                             /\ d[k] \in Position /\ Holds(log, k, d[k])
      /\ IsFiniteSet(DOMAIN d)
    BY ReadableIs DEF Readable, IsKeydir
<1>2. S = T
    BY <1>1, RangesAgree
<1>3. n \in Nat /\ Len(keys) = n /\ keys \in [1..n -> S]
    <2>1. S \in SUBSET Seq(Int) /\ IsFiniteSet(S)
        <3>1. \A k \in S : k \in Seq(Int)
            BY <1>1, CellsAreInts
        <3>2. S \subseteq DOMAIN d
            OBVIOUS
        <3>3. IsFiniteSet(S)
            BY <1>1, <3>2, FS_Subset
        <3> QED
            BY <3>1, <3>3
    <2> HIDE DEF S
    <2> QED
        BY <2>1, AscendingIsSorted
<1>s. \A k \in S : k \in DOMAIN d
    OBVIOUS
<1>4. snapshotRange(d, start, end, reverse) = items
    <2> DEFINE order == IF reverse THEN Reverse(keys) ELSE keys
    <2>1. snapshotRange(d, start, end, reverse) =
            [i \in 1..Len(order) |-> [key |-> order[i], position |-> d[order[i]]]]
        BY Zenon DEF snapshotRange
    <2> HIDE DEF keys, n, S
    <2>2. Len(order) = n /\ \A i \in 1..n : order[i] = keys[at(i)]
        <3>1. Reverse(keys) = [i \in 1..n |-> keys[(n - i) + 1]]
            BY <1>3 DEF Reverse
        <3>2. Len(Reverse(keys)) = n
            BY <1>3, <3>1
        <3> QED
            BY <1>3, <3>1, <3>2
    <2> HIDE DEF order, at
    <2> QED
        BY <2>1, <2>2
<1>5. MemoryScan(contents, start, end, reverse) = values
    <2> DEFINE entries == [i \in 1..Len(keys) |-> <<keys[i], contents[keys[i]]>>]
    <2>1. MemoryScan(contents, start, end, reverse) =
            IF reverse THEN Reverse(entries) ELSE entries
        <3> HIDE DEF S
        <3> DEFINE ks == Ascending(T)
                   es == [i \in 1..Len(ks) |-> <<ks[i], contents[ks[i]]>>]
        <3>1. MemoryScan(contents, start, end, reverse) = IF reverse THEN Reverse(es) ELSE es
            BY Zenon DEF MemoryScan
        <3> HIDE DEF T
        <3>2. ks = keys
            BY <1>2
        <3> HIDE DEF ks, keys
        <3> QED
            BY <3>1, <3>2
    <2> HIDE DEF keys, n, S
    <2>2. \A i \in 1..n : contents[keys[i]] = readLogValue(log, d[keys[i]])
        BY <1>3, <1>s
    <2>3. entries = [i \in 1..n |-> <<keys[i], readLogValue(log, d[keys[i]])>>]
        BY <1>3, <2>2
    <2> HIDE DEF entries
    <2>4. Len(entries) = n
        BY <1>3, <2>3
    <2>5. ASSUME reverse PROVE Reverse(entries) = values
        <3>1. Reverse(entries) = [i \in 1..n |-> entries[(n - i) + 1]]
            BY <2>4 DEF Reverse
        <3>2. ASSUME NEW i \in 1..n PROVE entries[(n - i) + 1] = values[i]
            <4>1. (n - i) + 1 \in 1..n /\ at(i) = (n - i) + 1
                BY <1>3, <2>5
            <4> HIDE DEF at
            <4> QED
                BY <2>3, <4>1
        <3> HIDE DEF at
        <3> QED
            BY <3>1, <3>2
    <2>6. ASSUME ~reverse PROVE entries = values
        BY <2>3, <2>6
    <2> HIDE DEF values
    <2> QED
        BY <2>1, <2>5, <2>6
<1> HIDE DEF S, T, n, keys
<1>6. ASSUME NEW i \in 1..n PROVE keys[at(i)] \in DOMAIN d
    <2>1. at(i) \in 1..n
        BY <1>3
    <2> HIDE DEF at
    <2> QED
        BY <1>3, <1>s, <2>1
<1> HIDE DEF at
<1>7. items \in Seq(Item) /\ Len(items) = n
    <2>1. \A i \in 1..n : items[i] \in Item
        BY <1>1, <1>6 DEF Item
    <2>2. items \in [1..n -> Item]
        BY <2>1
    <2> HIDE DEF items
    <2> QED
        BY <1>3, <2>2
<1>8. values \in Seq(Seq(Cells) \X Seq(Cells)) /\ Len(values) = n
    <2>1. \A i \in 1..n : values[i] \in Seq(Cells) \X Seq(Cells)
        BY <1>1, <1>6
    <2>2. values \in [1..n -> Seq(Cells) \X Seq(Cells)]
        BY <2>1
    <2> HIDE DEF values
    <2> QED
        BY <1>3, <2>2
<1>9. Promised(log, items, values)
    <2>1. ASSUME NEW i \in 1..n
          PROVE  /\ Holds(log, items[i].key, items[i].position)
                 /\ values[i] = <<items[i].key, readLogValue(log, items[i].position)>>
        <3>1. items[i].key = keys[at(i)] /\ items[i].position = d[keys[at(i)]]
            OBVIOUS
        <3>2. values[i] = <<keys[at(i)], readLogValue(log, d[keys[at(i)]])>>
            OBVIOUS
        <3> HIDE DEF items, values
        <3> QED
            BY <1>1, <1>6, <3>1, <3>2
    <2> HIDE DEF items, values
    <2> QED
        BY <1>7, <1>8, <2>1 DEF Promised
<1> QED
    BY <1>4, <1>5, <1>7, <1>8, <1>9

-----------------------------------------------------------------------------
(***************************************************************************)
(* The inductive invariants.  Inv holds whatever fails: one process has    *)
(* the files, every position of its index and of its scan can be read, and *)
(* so can the log and the index that compaction is about to switch to.     *)
(***************************************************************************)
ProcInv(p) ==
    /\ phase[p] # "down" => lock = p
    /\ phase[p] \in {"open", "opened", "rewritten"} =>
        files["original"] \in Seq(Cells) /\ Readable(files["original"], keydir[p])
    /\ phase[p] \in {"rewritten", "backedUp"} =>
        files["temp"] \in Seq(Cells) /\ Readable(files["temp"], newKeydir)
    /\ phase[p] \in {"backedUp", "installed"} => files["backup"] \in Seq(Cells)
    /\ phase[p] = "installed" =>
        files["original"] \in Seq(Cells) /\ Readable(files["original"], newKeydir)

ScanInv(p) ==
    scan[p] # NoScan =>
        /\ Len(scan[p].items) = Len(scan[p].promised)
        /\ ~scan[p].closed => /\ phase[p] = "open"
                              /\ Promised(files["original"], scan[p].items, scan[p].promised)

Inv == TypeOK /\ \A p \in Proc : ProcInv(p) /\ ScanInv(p)

\* Unless a write stops short, every log is whole and every index the one a
\* restart would build.
ProcIndex(p) ==
    /\ phase[p] \in {"open", "opened", "rewritten"} =>
        keydir[p] = rebuildKeydir(files["original"])
    /\ phase[p] \in {"rewritten", "backedUp"} =>
        ~RebuildFails(files["temp"]) /\ newKeydir = rebuildKeydir(files["temp"])
    /\ phase[p] \in {"backedUp", "installed"} => ~RebuildFails(files["backup"])
    /\ phase[p] = "installed" => newKeydir = rebuildKeydir(files["original"])

IndexInv ==
    /\ files["original"] # Missing => ~RebuildFails(files["original"])
    /\ \A p \in Proc : ProcIndex(p)

\* What the keys have in a log.
Contents(log) ==
    LET index == rebuildKeydir(log)
    IN  [k \in Key |-> IF k \in DOMAIN index THEN readLogValue(log, index[k]) ELSE Nil]

\* When nothing fails but compaction, all logs that a process could come to
\* open have the same contents.
ProcStore(p) ==
    /\ phase[p] = "backedUp" => files["original"] = Missing
    /\ phase[p] \in {"rewritten", "backedUp"} => Contents(files["temp"]) = store
    /\ phase[p] \in {"backedUp", "installed"} => Contents(files["backup"]) = store

StoreInv ==
    /\ (\A p \in Proc : phase[p] # "backedUp") => Contents(OpenedLog) = store
    /\ \A p \in Proc : ProcStore(p)

LEMMA ScanStateIs ==
    ASSUME NEW s \in ScanState
    PROVE  /\ s # NoScan /\ s.closed \in BOOLEAN /\ s.items \in Seq(Item)
           /\ s.promised \in Seq(Seq(Cells) \X Seq(Cells))
           /\ [s EXCEPT !.closed = TRUE] \in ScanState
           /\ [s EXCEPT !.closed = TRUE].closed
           /\ [s EXCEPT !.closed = TRUE].items = s.items
           /\ [s EXCEPT !.closed = TRUE].promised = s.promised
BY AbsentAssumption DEF ScanState, Item

\* The scan after one more item has been read.
LEMMA ScanAdvances ==
    ASSUME NEW s \in ScanState, s.items # <<>>, NEW log, Promised(log, s.items, s.promised)
    PROVE  LET t == [closed |-> FALSE, items |-> Tail(s.items), promised |-> Tail(s.promised)]
           IN  t \in ScanState /\ Promised(log, t.items, t.promised)
<1> DEFINE t == [closed |-> FALSE, items |-> Tail(s.items), promised |-> Tail(s.promised)]
           a == s.items
           b == s.promised
           Pair == Seq(Cells) \X Seq(Cells)
<1>1. s.closed \in BOOLEAN /\ a \in Seq(Item) /\ b \in Seq(Pair) /\ a # <<>> /\ Len(a) = Len(b)
    BY ScanStateIs DEF Promised
<1>2. /\ t = [closed |-> FALSE, items |-> Tail(a), promised |-> Tail(b)]
      /\ \A i \in 1..Len(a) : /\ Holds(log, a[i].key, a[i].position)
                              /\ b[i] = <<a[i].key, readLogValue(log, a[i].position)>>
    BY DEF Promised
<1> HIDE DEF t, a, b, Pair
<1>3. Len(a) \in Nat /\ Len(a) # 0 /\ b # <<>>
    BY <1>1
<1>4. /\ Tail(a) \in Seq(Item) /\ Len(Tail(a)) = Len(a) - 1
      /\ \A i \in 1..(Len(a) - 1) : Tail(a)[i] = a[i + 1]
    BY <1>1, <1>3
<1>5. /\ Tail(b) \in Seq(Pair) /\ Len(Tail(b)) = Len(a) - 1
      /\ \A i \in 1..(Len(a) - 1) : Tail(b)[i] = b[i + 1]
    BY <1>1, <1>3
<1>6. t \in ScanState /\ t.items = Tail(a) /\ t.promised = Tail(b)
    BY <1>1, <1>2, <1>4, <1>5 DEF ScanState, Item, Pair
<1>7. Promised(log, Tail(a), Tail(b))
    <2>1. \A i \in 1..(Len(a) - 1) : i + 1 \in 1..Len(a)
        BY <1>3
    <2> QED
        BY <1>2, <1>4, <1>5, <2>1 DEF Promised
<1> QED
    BY <1>6, <1>7 DEF t

\* While p has the files, or nobody has, no other process does anything.
LEMMA Alone ==
    ASSUME Inv, NEW p \in Proc, phase[p] # "down" \/ lock = NoProc, NEW q \in Proc, q # p
    PROVE  phase[q] = "down" /\ (scan[q] # NoScan => scan[q].closed)
<1>1. phase[q] = "down"
    <2>1. phase[q] # "down" => lock = q
        BY DEF Inv, ProcInv
    <2>2. phase[p] # "down" => lock = p
        BY DEF Inv, ProcInv
    <2>3. lock = NoProc => lock # q
        BY AbsentAssumption
    <2> QED
        BY <2>1, <2>2, <2>3
<1> QED
    BY <1>1 DEF Inv, ScanInv

LEMMA OthersKept ==
    ASSUME Inv, NEW p \in Proc, phase[p] # "down" \/ lock = NoProc,
           phase' = [phase EXCEPT ![p] = phase'[p]], scan' = [scan EXCEPT ![p] = scan'[p]]
    PROVE  \A q \in Proc : q # p => (ProcInv(q) /\ ScanInv(q))'
<1> SUFFICES ASSUME NEW q \in Proc, q # p PROVE (ProcInv(q) /\ ScanInv(q))'
    OBVIOUS
<1>1. phase[q] = "down" /\ (scan[q] # NoScan => scan[q].closed)
    BY Alone
<1>2. phase'[q] = phase[q] /\ scan'[q] = scan[q]
    BY DEF Inv, TypeOK
<1>3. ScanInv(q)
    BY DEF Inv
<1> QED
    BY <1>1, <1>2, <1>3 DEF ProcInv, ScanInv

LEMMA OpenInv ==
    ASSUME Inv, NEW p \in Proc, NEW next \in {"open", "opened"}, Open(p, next)
    PROVE  Inv'
<1> DEFINE log == OpenedLog
           d == rebuildKeydir(log)
<1>1. log \in Seq(Cells) /\ ~RebuildFails(log)
    BY DEF Inv, TypeOK, OpenedLog, Open, FileName
<1>2. Readable(log, d) /\ IsKeydir(d)
    BY <1>1, ReadableRebuilt, ReadableIs
<1>3. /\ phase[p] = "down" /\ lock = NoProc /\ lock' = p
      /\ files' = [files EXCEPT !["original"] = log]
      /\ keydir' = [keydir EXCEPT ![p] = d]
      /\ phase' = [phase EXCEPT ![p] = next]
      /\ UNCHANGED <<newKeydir, scan, store>>
    BY DEF Open, CanLock
<1> HIDE DEF log, d
<1>4. TypeOK'
    <2>1. files' \in [FileName -> Seq(Cells) \cup {Missing}] /\ phase' \in [Proc -> Phase] /\ lock' \in Proc
        BY <1>1, <1>3 DEF Inv, TypeOK, FileName, Phase
    <2>2. keydir' = [q \in Proc |-> keydir'[q]] /\ \A q \in Proc : IsKeydir(keydir'[q])
        BY <1>2, <1>3 DEF Inv, TypeOK
    <2> QED
        BY <1>3, <2>1, <2>2 DEF Inv, TypeOK
<1>5. \A q \in Proc : q # p => (ProcInv(q) /\ ScanInv(q))'
    <2>1. phase' = [phase EXCEPT ![p] = phase'[p]] /\ scan' = [scan EXCEPT ![p] = scan'[p]]
        BY <1>3 DEF Inv, TypeOK
    <2> QED
        BY <1>3, <2>1, OthersKept
<1>6. phase'[p] = next /\ files'["original"] = log /\ keydir'[p] = d
    BY <1>3 DEF Inv, TypeOK, FileName
<1>7. ProcInv(p)'
    BY <1>1, <1>2, <1>3, <1>6 DEF ProcInv
<1>8. ScanInv(p)'
    BY <1>3 DEF Inv, ScanInv
<1> QED
    BY <1>4, <1>5, <1>7, <1>8 DEF Inv

\* The process p lets go of the files; what Close, a crash and every failed
\* compaction have in common.
LEMMA LetGoInv ==
    ASSUME Inv, NEW p \in Proc, phase[p] # "down",
           files' \in [FileName -> Seq(Cells) \cup {Missing}],
           phase' = [phase EXCEPT ![p] = "down"],
           keydir' = [keydir EXCEPT ![p] = EmptyKeydir],
           newKeydir' = EmptyKeydir, lock' = NoProc, UNCHANGED store,
           \/ scan' = [scan EXCEPT ![p] = NoScan]
           \/ scan' = [scan EXCEPT ![p] = IF @ = NoScan THEN @ ELSE [@ EXCEPT !.closed = TRUE]]
    PROVE  Inv'
<1>1. IsKeydir(EmptyKeydir)
    BY ReadableEmpty
<1>2. /\ scan'[p] = NoScan \/ (scan'[p] \in ScanState /\ scan'[p].closed)
      /\ ScanInv(p)'
      /\ scan' \in [Proc -> ScanState \cup {NoScan}]
    <2> DEFINE s == scan[p]
               t == [s EXCEPT !.closed = TRUE]
    <2>1. s \in ScanState \cup {NoScan} /\ scan \in [Proc -> ScanState \cup {NoScan}]
        BY DEF Inv, TypeOK
    <2>2. s # NoScan => Len(s.items) = Len(s.promised)
        BY DEF Inv, ScanInv
    <2>3. scan'[p] = NoScan \/ (s # NoScan /\ scan'[p] = t)
        BY <2>1
    <2>4. s # NoScan => t \in ScanState /\ t.closed /\ t.items = s.items /\ t.promised = s.promised
        <3> HIDE DEF s
        <3> QED
            BY <2>1, ScanStateIs
    <2> HIDE DEF s, t
    <2>5. scan'[p] = NoScan \/ (scan'[p] \in ScanState /\ scan'[p].closed)
        BY <2>3, <2>4
    <2>6. scan' = [scan EXCEPT ![p] = scan'[p]]
        BY <2>1
    <2>7. scan' \in [Proc -> ScanState \cup {NoScan}]
        BY <2>1, <2>5, <2>6
    <2> QED
        BY <2>2, <2>3, <2>4, <2>5, <2>7 DEF ScanInv
<1>3. TypeOK'
    <2>1. phase' \in [Proc -> Phase]
        BY DEF Inv, TypeOK, Phase
    <2>2. keydir' = [q \in Proc |-> keydir'[q]] /\ \A q \in Proc : IsKeydir(keydir'[q])
        BY <1>1 DEF Inv, TypeOK
    <2> QED
        BY <1>1, <1>2, <2>1, <2>2 DEF Inv, TypeOK
<1>4. \A q \in Proc : q # p => (ProcInv(q) /\ ScanInv(q))'
    <2>1. phase' = [phase EXCEPT ![p] = phase'[p]] /\ scan' = [scan EXCEPT ![p] = scan'[p]]
        BY DEF Inv, TypeOK
    <2> QED
        BY <2>1, OthersKept
<1>5. ProcInv(p)'
    <2>1. phase'[p] = "down"
        BY DEF Inv, TypeOK
    <2> QED
        BY <2>1 DEF ProcInv
<1> QED
    BY <1>2, <1>3, <1>4, <1>5 DEF Inv

\* A step of p from one of its phases to the next that leaves scans alone.
LEMMA MoveOnInv ==
    ASSUME Inv, NEW p \in Proc, phase[p] # "down", phase[p] # "open",
           files' \in [FileName -> Seq(Cells) \cup {Missing}],
           NEW next \in Phase, phase' = [phase EXCEPT ![p] = next],
           keydir' = [keydir EXCEPT ![p] = keydir'[p]], IsKeydir(keydir'[p]),
           IsKeydir(newKeydir'), UNCHANGED <<lock, scan, store>>, ProcInv(p)'
    PROVE  Inv'
<1>1. TypeOK'
    <2>1. phase' \in [Proc -> Phase]
        BY DEF Inv, TypeOK
    <2>2. keydir' = [q \in Proc |-> keydir'[q]] /\ \A q \in Proc : IsKeydir(keydir'[q])
        BY DEF Inv, TypeOK
    <2> QED
        BY <2>1, <2>2 DEF Inv, TypeOK
<1>2. \A q \in Proc : q # p => (ProcInv(q) /\ ScanInv(q))'
    <2>1. phase' = [phase EXCEPT ![p] = phase'[p]] /\ scan' = [scan EXCEPT ![p] = scan'[p]]
        BY DEF Inv, TypeOK
    <2> QED
        BY <2>1, OthersKept
<1>3. ScanInv(p)'
    BY DEF Inv, ScanInv
<1> QED
    BY <1>1, <1>2, <1>3 DEF Inv

\* A step of an open engine that appends x to its log.
LEMMA AppendInv ==
    ASSUME Inv, NEW p \in Proc, phase[p] = "open", NEW x \in Seq(Cells),
           files' = [files EXCEPT !["original"] = @ \o x],
           keydir' = [keydir EXCEPT ![p] = keydir'[p]],
           Readable(files["original"] \o x, keydir'[p]),
           store' \in [Key -> Value \cup {Nil}],
           UNCHANGED <<lock, phase, newKeydir, scan>>
    PROVE  Inv'
<1> DEFINE log == files["original"]
           new == log \o x
<1>1. /\ log \in Seq(Cells) /\ new \in Seq(Cells) /\ files'["original"] = new
      /\ files' \in [FileName -> Seq(Cells) \cup {Missing}]
    <2>1. log \in Seq(Cells)
        BY DEF Inv, ProcInv
    <2>2. new \in Seq(Cells)
        BY <2>1, Joined
    <2> QED
        BY <2>1, <2>2 DEF Inv, TypeOK, FileName
<1>2. TypeOK'
    <2>1. IsKeydir(keydir'[p])
        BY <1>1, ReadableIs
    <2>2. keydir' = [q \in Proc |-> keydir'[q]] /\ \A q \in Proc : IsKeydir(keydir'[q])
        BY <2>1 DEF Inv, TypeOK
    <2> QED
        BY <1>1, <2>2 DEF Inv, TypeOK
<1>3. \A q \in Proc : q # p => (ProcInv(q) /\ ScanInv(q))'
    <2>1. phase' = [phase EXCEPT ![p] = phase'[p]] /\ scan' = [scan EXCEPT ![p] = scan'[p]]
        BY DEF Inv, TypeOK
    <2> QED
        BY <2>1, OthersKept
<1>4. ProcInv(p)'
    BY <1>1 DEF Inv, ProcInv
<1>5. ScanInv(p)'
    <2> SUFFICES ASSUME scan[p] # NoScan, ~scan[p].closed
                 PROVE  Promised(new, scan[p].items, scan[p].promised)
        BY <1>1 DEF Inv, ScanInv
    <2> DEFINE items == scan[p].items
               promised == scan[p].promised
    <2>1. Promised(log, items, promised)
        BY DEF Inv, ScanInv
    <2> HIDE DEF items, promised, log
    <2>2. ASSUME NEW i \in 1..Len(items)
          PROVE  /\ Holds(new, items[i].key, items[i].position)
                 /\ readLogValue(new, items[i].position) = readLogValue(log, items[i].position)
        BY <1>1, <2>1, HoldsKept DEF Promised
    <2>3. Promised(new, items, promised)
        BY <2>1, <2>2 DEF Promised
    <2> QED
        BY <2>3 DEF items, promised, log
<1> QED
    BY <1>2, <1>3, <1>4, <1>5 DEF Inv

\* What Set, Delete and their torn writes append is cells.
LEMMA EncodedCells ==
    ASSUME NEW key \in Seq(Cells), NEW value \in Seq(Cells), NEW deleted \in BOOLEAN,
           FitsEntry(key, value, deleted)
    PROVE  /\ EncodedEntry(key, value, deleted) \in Seq(Cells)
           /\ \A n \in 1..(entrySize(key, value, deleted) - 1) :
                SubSeq(EncodedEntry(key, value, deleted), 1, n) \in Seq(Cells)
<1> DEFINE e == EncodedEntry(key, value, deleted)
           w == entrySize(key, value, deleted)
<1>1. EncodedAs(e, key, Body(value, deleted), SizeField(value, deleted)) /\ w = Len(e)
    BY EncodedIs
<1> HIDE DEF e, w
<1>2. e \in Seq(Cells)
    BY <1>1 DEF EncodedAs
<1>3. ASSUME NEW n \in 1..(w - 1) PROVE SubSeq(e, 1, n) \in Seq(Cells)
    <2>1. Len(e) \in Nat
        BY <1>2
    <2>2. n \in Nat /\ \A i \in 1..n : i \in 1..Len(e)
        BY <1>1, <2>1
    <2>3. \A i \in 1..n : e[i] \in Cells
        BY <1>2, <2>2, ElementOfSeq
    <2> QED
        BY <1>2, <2>2, <2>3, SubSeqProperties
<1> QED
    BY <1>2, <1>3 DEF e, w

LEMMA KeyIs ==
    /\ \A k \in Key : k \in Seq(Cells)
    /\ \A value \in Value : value \in Seq(Cells)
    /\ <<>> \in Seq(Cells)
BY BytesAssumption

LEMMA SetInv ==
    ASSUME Inv, NEW p \in Proc, NEW key \in Key, NEW value \in Value, Set(p, key, value)
    PROVE  Inv'
<1> DEFINE log == files["original"]
           e == EncodedEntry(key, value, FALSE)
           d == keydir[p]
           c == Indexed(d, key, EntryPosition(log, key, value, FALSE))
<1>1. /\ phase[p] = "open" /\ FitsEntry(key, value, FALSE)
      /\ files' = [files EXCEPT !["original"] = @ \o e] /\ keydir' = [keydir EXCEPT ![p] = c]
      /\ store' = [store EXCEPT ![key] = value] /\ UNCHANGED <<lock, phase, newKeydir, scan>>
    BY DEF Set, Appendable, AppendCells, Log, KV!Set
<1>2. log \in Seq(Cells) /\ Readable(log, d) /\ key \in Seq(Cells) /\ value \in Seq(Cells)
    BY <1>1, KeyIs DEF Inv, ProcInv
<1>3. e \in Seq(Cells)
    BY <1>1, <1>2, EncodedCells
<1>4. Readable(log \o e, c)
    <2>1. SetIn(log \o e, c, log, d, key, value)
        <3> HIDE DEF log, d
        <3> QED
            BY <1>1, <1>2, ReadableSet
    <2> QED
        BY <2>1 DEF SetIn
<1> HIDE DEF e, c
<1>5. keydir'[p] = c /\ keydir' = [keydir EXCEPT ![p] = keydir'[p]]
    BY <1>1 DEF Inv, TypeOK
<1>6. store' \in [Key -> Value \cup {Nil}]
    BY <1>1 DEF Inv, TypeOK
<1> QED
    BY <1>1, <1>3, <1>4, <1>5, <1>6, AppendInv

LEMMA DeleteInv ==
    ASSUME Inv, NEW p \in Proc, NEW key \in Key, Delete(p, key)
    PROVE  Inv'
<1> DEFINE log == files["original"]
           e == EncodedEntry(key, <<>>, TRUE)
           d == keydir[p]
           c == Unindexed(d, key)
<1>1. /\ phase[p] = "open" /\ FitsEntry(key, <<>>, TRUE)
      /\ files' = [files EXCEPT !["original"] = @ \o e] /\ keydir' = [keydir EXCEPT ![p] = c]
      /\ store' = [store EXCEPT ![key] = Nil] /\ UNCHANGED <<lock, phase, newKeydir, scan>>
    BY DEF Delete, Appendable, AppendCells, KV!Delete
<1>2. log \in Seq(Cells) /\ Readable(log, d) /\ key \in Seq(Cells) /\ <<>> \in Seq(Cells)
    BY <1>1, KeyIs DEF Inv, ProcInv
<1>3. e \in Seq(Cells)
    BY <1>1, <1>2, EncodedCells
<1>4. Readable(log \o e, c)
    <2>1. DeletedIn(log \o e, c, log, d, key)
        <3> HIDE DEF log, d
        <3> QED
            BY <1>1, <1>2, ReadableDelete
    <2> QED
        BY <2>1 DEF DeletedIn
<1> HIDE DEF e, c
<1>5. keydir'[p] = c /\ keydir' = [keydir EXCEPT ![p] = keydir'[p]]
    BY <1>1 DEF Inv, TypeOK
<1>6. store' \in [Key -> Value \cup {Nil}]
    BY <1>1 DEF Inv, TypeOK
<1> QED
    BY <1>1, <1>3, <1>4, <1>5, <1>6, AppendInv

\* A torn write of either kind.
LEMMA TornInv ==
    ASSUME Inv, NEW p \in Proc, phase[p] = "open", NEW key \in Key, NEW value \in Seq(Cells),
           NEW deleted \in BOOLEAN, NEW n \in 1..(entrySize(key, value, deleted) - 1),
           FitsEntry(key, value, deleted),
           AppendCells(SubSeq(EncodedEntry(key, value, deleted), 1, n)),
           UNCHANGED <<lock, phase, keydir, newKeydir, scan, store>>
    PROVE  Inv'
<1> DEFINE log == files["original"]
           x == SubSeq(EncodedEntry(key, value, deleted), 1, n)
<1>1. x \in Seq(Cells)
    BY KeyIs, EncodedCells
<1> HIDE DEF x
<1>2. files' = [files EXCEPT !["original"] = @ \o x]
    BY DEF AppendCells, x
<1>3. log \in Seq(Cells) /\ Readable(log, keydir[p])
    BY DEF Inv, ProcInv
<1>4. Readable(log \o x, keydir[p])
    <2> HIDE DEF log
    <2> QED
        BY <1>1, <1>3, ReadableKept
<1>5. keydir' = [keydir EXCEPT ![p] = keydir'[p]] /\ store' \in [Key -> Value \cup {Nil}]
    BY DEF Inv, TypeOK
<1> QED
    BY <1>1, <1>2, <1>4, <1>5, AppendInv

LEMMA StartScanInv ==
    ASSUME Inv, NEW p \in Proc, NEW range \in Ranges, NEW reverse \in BOOLEAN,
           StartScan(p, range[1], range[2], reverse)
    PROVE  Inv'
<1> DEFINE log == files["original"]
           d == keydir[p]
           contents == [k \in DOMAIN keydir[p] |-> Get(p, k)]
           items == snapshotRange(d, range[1], range[2], reverse)
           promised == MemoryScan(contents, range[1], range[2], reverse)
           s == [closed |-> FALSE, items |-> items, promised |-> promised]
<1>1. /\ phase[p] = "open" /\ scan' = [scan EXCEPT ![p] = s]
      /\ UNCHANGED <<files, lock, phase, keydir, newKeydir, store>>
    BY DEF StartScan
<1>2. log \in Seq(Cells) /\ Readable(log, d)
    BY <1>1 DEF Inv, ProcInv
<1>3. contents = [k \in DOMAIN d |-> readLogValue(log, d[k])]
    BY DEF Get, Log
<1>4. range[1] \in Seq(Cells) \cup {Nil}
    BY BytesAssumption
<1>5. /\ items \in Seq(Item) /\ promised \in Seq(Seq(Cells) \X Seq(Cells))
      /\ Promised(log, items, promised)
    <2> HIDE DEF log, d, contents
    <2> QED
        BY <1>2, <1>3, <1>4, ScanStarts
<1> HIDE DEF items, promised, log
<1>6. s \in ScanState /\ s.items = items /\ s.promised = promised /\ s.closed = FALSE
    BY <1>5 DEF ScanState, Item
<1> HIDE DEF s
<1>7. TypeOK'
    <2>1. scan' \in [Proc -> ScanState \cup {NoScan}]
        BY <1>1, <1>6 DEF Inv, TypeOK
    <2> QED
        BY <1>1, <2>1 DEF Inv, TypeOK
<1>8. \A q \in Proc : ProcInv(q)'
    BY <1>1 DEF Inv, ProcInv
<1>9. ScanInv(p)'
    <2>1. scan'[p] = s
        BY <1>1 DEF Inv, TypeOK
    <2> QED
        BY <1>1, <1>5, <1>6, <2>1 DEF ScanInv, Promised, log
<1>10. \A q \in Proc : q # p => ScanInv(q)'
    <2>1. \A q \in Proc : q # p => scan'[q] = scan[q]
        BY <1>1 DEF Inv, TypeOK
    <2> QED
        BY <1>1, <2>1 DEF Inv, ScanInv
<1> QED
    BY <1>7, <1>8, <1>9, <1>10 DEF Inv

\* A step that only takes the scan of p on, or ends it.
LEMMA ScanStepInv ==
    ASSUME Inv, NEW p \in Proc, readScanItem(p) \/ EndScan(p)
    PROVE  Inv'
<1>1. UNCHANGED <<files, lock, phase, keydir, newKeydir, store>>
    BY DEF readScanItem, EndScan
<1>2. /\ scan' = [scan EXCEPT ![p] = scan'[p]]
      /\ scan'[p] \in ScanState \cup {NoScan}
      /\ ScanInv(p)'
    <2>1. CASE EndScan(p)
        BY <1>1, <2>1 DEF EndScan, Inv, TypeOK, ScanInv
    <2>2. CASE readScanItem(p)
        <3> DEFINE s == scan[p]
                   t == [closed |-> FALSE, items |-> Tail(s.items), promised |-> Tail(s.promised)]
                   log == files["original"]
        <3>1. /\ s # NoScan /\ ~s.closed /\ s.items # <<>>
              /\ scan' = [scan EXCEPT ![p] = t]
            BY <2>2 DEF readScanItem
        <3>2. s \in ScanState
            BY <3>1 DEF Inv, TypeOK
        <3>3. phase[p] = "open" /\ Promised(log, s.items, s.promised)
            BY <3>1 DEF Inv, ScanInv
        <3>4. t \in ScanState /\ Promised(log, t.items, t.promised)
            <4> HIDE DEF s, log
            <4> QED
                BY <3>1, <3>2, <3>3, ScanAdvances
        <3> HIDE DEF t
        <3>5. scan'[p] = t /\ scan' = [scan EXCEPT ![p] = scan'[p]]
            BY <3>1 DEF Inv, TypeOK
        <3> QED
            BY <1>1, <3>3, <3>4, <3>5 DEF ScanInv, Promised
    <2> QED
        BY <2>1, <2>2
<1>3. TypeOK'
    <2>1. scan' \in [Proc -> ScanState \cup {NoScan}]
        BY <1>2 DEF Inv, TypeOK
    <2> QED
        BY <1>1, <2>1 DEF Inv, TypeOK
<1>4. \A q \in Proc : ProcInv(q)'
    BY <1>1 DEF Inv, ProcInv
<1>5. \A q \in Proc : q # p => ScanInv(q)'
    <2>1. \A q \in Proc : q # p => scan'[q] = scan[q]
        BY <1>2 DEF Inv, TypeOK
    <2> QED
        BY <1>1, <2>1 DEF Inv, ScanInv
<1> QED
    BY <1>2, <1>3, <1>4, <1>5 DEF Inv

LEMMA CompactInv ==
    ASSUME Inv, NEW p \in Proc, Compact(p)
    PROVE  Inv'
<1>t. /\ files \in [FileName -> Seq(Cells) \cup {Missing}] /\ IsKeydir(newKeydir)
      /\ IsKeydir(keydir[p]) /\ keydir = [keydir EXCEPT ![p] = keydir[p]]
      /\ phase \in [Proc -> Phase]
      /\ "original" \in FileName /\ "temp" \in FileName /\ "backup" \in FileName
    BY DEF Inv, TypeOK, FileName
<1>i. ProcInv(p)
    BY DEF Inv
<1>1. CASE NewDiskEngineCompact(p)
    BY <1>1, OpenInv DEF NewDiskEngineCompact
<1>2. CASE CompactRewrite(p)
    <2> DEFINE log == files["original"]
               r == Rewritten(log, keydir[p])
    <2>1. /\ phase[p] = "opened" /\ files' = [files EXCEPT !["temp"] = r.log]
          /\ newKeydir' = r.keydir /\ phase' = [phase EXCEPT ![p] = "rewritten"]
          /\ UNCHANGED <<lock, keydir, scan, store>>
        BY <1>2 DEF CompactRewrite, Log
    <2>2. log \in Seq(Cells) /\ Readable(log, keydir[p])
        BY <1>i, <2>1 DEF ProcInv
    <2>3. r.log \in Seq(Cells) /\ ~RebuildFails(r.log) /\ r.keydir = rebuildKeydir(r.log)
        <3> HIDE DEF log
        <3> QED
            BY <2>2, RewrittenIs
    <2> HIDE DEF r
    <2>4. Readable(r.log, r.keydir) /\ IsKeydir(r.keydir)
        BY <2>3, ReadableRebuilt, ReadableIs
    <2>5. /\ files' \in [FileName -> Seq(Cells) \cup {Missing}]
          /\ files'["temp"] = r.log /\ files'["original"] = log /\ phase'[p] = "rewritten"
        BY <1>t, <2>1, <2>3
    <2>6. ProcInv(p)'
        BY <1>i, <2>1, <2>2, <2>3, <2>4, <2>5 DEF ProcInv
    <2> QED
        BY <1>t, <2>1, <2>4, <2>5, <2>6, MoveOnInv DEF Phase
<1>3. CASE CompactBackup(p)
    <2>1. /\ phase[p] = "rewritten"
          /\ files' = [files EXCEPT !["original"] = Missing, !["backup"] = files["original"]]
          /\ phase' = [phase EXCEPT ![p] = "backedUp"]
          /\ UNCHANGED <<lock, keydir, newKeydir, scan, store>>
        BY <1>3 DEF CompactBackup
    <2>2. /\ files' \in [FileName -> Seq(Cells) \cup {Missing}] /\ phase'[p] = "backedUp"
          /\ files'["temp"] = files["temp"] /\ files'["backup"] = files["original"]
        BY <1>t, <2>1
    <2>3. ProcInv(p)'
        BY <1>i, <2>1, <2>2 DEF ProcInv
    <2> QED
        BY <1>t, <2>1, <2>2, <2>3, MoveOnInv DEF Phase
<1>4. CASE CompactInstall(p)
    <2>1. /\ phase[p] = "backedUp"
          /\ files' = [files EXCEPT !["original"] = files["temp"], !["temp"] = Missing]
          /\ phase' = [phase EXCEPT ![p] = "installed"]
          /\ UNCHANGED <<lock, keydir, newKeydir, scan, store>>
        BY <1>4 DEF CompactInstall
    <2>2. /\ files' \in [FileName -> Seq(Cells) \cup {Missing}] /\ phase'[p] = "installed"
          /\ files'["original"] = files["temp"] /\ files'["backup"] = files["backup"]
        BY <1>t, <2>1
    <2>3. ProcInv(p)'
        BY <1>i, <2>1, <2>2 DEF ProcInv
    <2> QED
        BY <1>t, <2>1, <2>2, <2>3, MoveOnInv DEF Phase
<1>5. CASE CompactFinish(p)
    <2>1. /\ phase[p] = "installed" /\ files' = [files EXCEPT !["backup"] = Missing]
          /\ keydir' = [keydir EXCEPT ![p] = newKeydir] /\ newKeydir' = EmptyKeydir
          /\ phase' = [phase EXCEPT ![p] = "open"] /\ UNCHANGED <<lock, scan, store>>
        BY <1>5 DEF CompactFinish
    <2>2. /\ files' \in [FileName -> Seq(Cells) \cup {Missing}] /\ phase'[p] = "open"
          /\ files'["original"] = files["original"] /\ keydir'[p] = newKeydir
          /\ keydir' = [keydir EXCEPT ![p] = keydir'[p]]
        BY <1>t, <2>1 DEF Inv, TypeOK
    <2>3. ProcInv(p)'
        BY <1>i, <2>1, <2>2 DEF ProcInv
    <2>4. IsKeydir(keydir'[p]) /\ IsKeydir(newKeydir')
        BY <1>t, <2>1, <2>2, ReadableEmpty
    <2> QED
        BY <2>1, <2>2, <2>3, <2>4, MoveOnInv DEF Phase
<1>6. CASE CompactFails(p) \/ RestoreOriginal(p) \/ RestoreFails(p)
    <2>1. /\ phase[p] # "down" /\ Shut(p) /\ UNCHANGED store
          /\ files' \in [FileName -> Seq(Cells) \cup {Missing}]
        BY <1>6, <1>t DEF CompactFails, RestoreOriginal, RestoreFails
    <2> QED
        BY <2>1, LetGoInv DEF Shut
<1> QED
    BY <1>1, <1>2, <1>3, <1>4, <1>5, <1>6 DEF Compact

LEMMA InvInit == Init => Inv
<1> SUFFICES ASSUME Init PROVE Inv
    OBVIOUS
<1>1. IsKeydir(EmptyKeydir)
    BY ReadableEmpty
<1>2. TypeOK
    BY <1>1 DEF Init, TypeOK, FileName, Phase, KV!Init
<1>3. \A p \in Proc : ProcInv(p) /\ ScanInv(p)
    BY DEF Init, ProcInv, ScanInv
<1> QED
    BY <1>2, <1>3 DEF Inv

LEMMA InvNext == Inv /\ [Next]_vars => Inv'
<1> SUFFICES ASSUME Inv, [Next]_vars PROVE Inv'
    OBVIOUS
<1>1. CASE UNCHANGED vars
    <2>1. TypeOK'
        BY <1>1 DEF vars, Inv, TypeOK
    <2>2. \A p \in Proc : ProcInv(p)' /\ ScanInv(p)'
        BY <1>1 DEF vars, Inv, ProcInv, ScanInv
    <2> QED
        BY <2>1, <2>2 DEF Inv
<1>2. CASE Next
    <2>1. PICK p \in Proc : ProcStep(p)
        BY <1>2 DEF Next
    <2>2. CASE NewDiskEngine(p)
        BY <2>2, OpenInv DEF NewDiskEngine
    <2>3. CASE Close(p)
        <3>1. /\ phase[p] # "down" /\ Shut(p) /\ UNCHANGED store
              /\ files' \in [FileName -> Seq(Cells) \cup {Missing}]
            BY <2>3 DEF Close, Inv, TypeOK
        <3> QED
            BY <3>1, LetGoInv DEF Shut
    <2>4. CASE Crash(p)
        <3>1. files' \in [FileName -> Seq(Cells) \cup {Missing}]
            BY <2>4 DEF Crash, Inv, TypeOK, FileName
        <3> QED
            BY <2>4, <3>1, LetGoInv DEF Crash
    <2>5. CASE \E k \in Key, value \in Value : Set(p, k, value)
        BY <2>5, SetInv
    <2>6. CASE \E k \in Key : Delete(p, k)
        BY <2>6, DeleteInv
    <2>7. CASE \E k \in Key, value \in Value : \E n \in 1..(entrySize(k, value, FALSE) - 1) :
                    SetStopsShort(p, k, value, n)
        <3>1. PICK k \in Key, value \in Value : \E n \in 1..(entrySize(k, value, FALSE) - 1) :
                    SetStopsShort(p, k, value, n)
            BY <2>7
        <3>2. PICK n \in 1..(entrySize(k, value, FALSE) - 1) : SetStopsShort(p, k, value, n)
            BY <3>1
        <3>3. /\ phase[p] = "open" /\ FitsEntry(k, value, FALSE)
              /\ AppendCells(SubSeq(EncodedEntry(k, value, FALSE), 1, n))
              /\ UNCHANGED <<lock, phase, keydir, newKeydir, scan, store>>
            BY <3>2 DEF SetStopsShort, Appendable
        <3> QED
            BY <3>3, KeyIs, TornInv
    <2>8. CASE \E k \in Key : \E n \in 1..(entrySize(k, <<>>, TRUE) - 1) : DeleteStopsShort(p, k, n)
        <3>1. PICK k \in Key : \E n \in 1..(entrySize(k, <<>>, TRUE) - 1) : DeleteStopsShort(p, k, n)
            BY <2>8
        <3>2. PICK n \in 1..(entrySize(k, <<>>, TRUE) - 1) : DeleteStopsShort(p, k, n)
            BY <3>1
        <3>3. /\ phase[p] = "open" /\ FitsEntry(k, <<>>, TRUE)
              /\ AppendCells(SubSeq(EncodedEntry(k, <<>>, TRUE), 1, n))
              /\ UNCHANGED <<lock, phase, keydir, newKeydir, scan, store>>
            BY <3>2 DEF DeleteStopsShort, Appendable
        <3> QED
            BY <3>3, KeyIs, TornInv
    <2>9. CASE Compact(p)
        BY <2>9, CompactInv
    <2>10. CASE Scan(p)
        BY <2>10, StartScanInv, ScanStepInv DEF Scan
    <2> QED
        BY <2>1, <2>2, <2>3, <2>4, <2>5, <2>6, <2>7, <2>8, <2>9, <2>10 DEF ProcStep
<1> QED
    BY <1>1, <1>2

\* Whatever fails, one process has the files at a time, and every position in
\* its index, in the index compaction builds and in a running scan is the
\* start of a whole entry of its key.
THEOREM Invariance == Spec => []Inv
BY InvInit, InvNext, PTL DEF Spec

\* The variables keep their types: no offset, size or length leaves its range.
THEOREM TypeCorrect == Spec => []TypeOK
<1>1. Inv => TypeOK
    BY DEF Inv
<1> QED
    BY <1>1, Invariance, PTL

\* A scan yields what the memory engine would have yielded when it started,
\* whatever is written, torn or closed between two of its reads.
THEOREM ScanIsSnapshotAlways == Spec => []ScanIsSnapshot
<1>1. Inv => ScanIsSnapshot
    <2> SUFFICES ASSUME Inv, NEW p \in Proc, scan[p] # NoScan
                 PROVE  /\ Len(scan[p].items) = Len(scan[p].promised)
                        /\ ~scan[p].closed =>
                            [i \in 1..Len(scan[p].items) |-> ScanItem(p, scan[p].items[i])] = scan[p].promised
        BY DEF ScanIsSnapshot
    <2>1. Len(scan[p].items) = Len(scan[p].promised)
        BY DEF Inv, ScanInv
    <2>2. ASSUME ~scan[p].closed
          PROVE  [i \in 1..Len(scan[p].items) |-> ScanItem(p, scan[p].items[i])] = scan[p].promised
        <3> DEFINE s == scan[p]
                   Pair == Seq(Cells) \X Seq(Cells)
        <3>1. s \in ScanState
            BY DEF Inv, TypeOK
        <3>2. s.promised \in Seq(Pair)
            <4> HIDE DEF s
            <4> QED
                BY <3>1, ScanStateIs
        <3>3. Promised(Log, s.items, s.promised)
            BY <2>2 DEF Inv, ScanInv, Log
        <3>4. \A i \in 1..Len(s.items) : ScanItem(p, s.items[i]) = s.promised[i]
            BY <3>3 DEF ScanItem, Promised
        <3>5. s.promised = [i \in 1..Len(s.promised) |-> s.promised[i]]
            <4> HIDE DEF s, Pair
            <4> QED
                BY <3>2
        <3> QED
            BY <2>1, <3>4, <3>5
    <2> QED
        BY <2>1, <2>2
<1> QED
    BY <1>1, Invariance, PTL

-----------------------------------------------------------------------------
(***************************************************************************)
(* Reading one's own writes.                                               *)
(***************************************************************************)
\* While p has the engine open, other processes change nothing of it.
LEMMA OthersWait ==
    ASSUME Inv, NEW p \in Proc, phase[p] = "open", NEW q \in Proc, q # p, ProcStep(q)
    PROVE  UNCHANGED <<files, keydir>>
<1>1. phase[q] = "down" /\ lock = p /\ lock # NoProc
    <2>1. phase[q] = "down"
        BY Alone
    <2>2. lock = p
        BY DEF Inv, ProcInv
    <2> QED
        BY <2>1, <2>2, AbsentAssumption
<1>2. ~NewDiskEngine(q) /\ ~Close(q) /\ ~Crash(q) /\ ~Compact(q)
    BY <1>1 DEF NewDiskEngine, Open, CanLock, Close, Crash, Compact, NewDiskEngineCompact,
                CompactRewrite, CompactBackup, CompactInstall, CompactFinish, CompactFails,
                RestoreOriginal, RestoreFails
<1>3. /\ \A k \in Key, value \in Value : ~Set(q, k, value)
      /\ \A k \in Key : ~Delete(q, k)
      /\ \A k, value, n : ~SetStopsShort(q, k, value, n)
      /\ \A k, n : ~DeleteStopsShort(q, k, n)
    BY <1>1 DEF Set, Delete, SetStopsShort, DeleteStopsShort
<1>4. Scan(q)
    BY <1>2, <1>3 DEF ProcStep
<1> QED
    BY <1>4 DEF Scan, StartScan, readScanItem, EndScan

\* The log and the index of p before and after a Set or a Delete of its own.
LEMMA SetReads ==
    ASSUME Inv, NEW p \in Proc, NEW key \in Key, NEW value \in Value, Set(p, key, value)
    PROVE  SetIn(files'["original"], keydir'[p], files["original"], keydir[p], key, value)
<1> DEFINE log == files["original"]
           e == EncodedEntry(key, value, FALSE)
           d == keydir[p]
           c == Indexed(d, key, EntryPosition(log, key, value, FALSE))
<1>1. /\ phase[p] = "open" /\ FitsEntry(key, value, FALSE)
      /\ files' = [files EXCEPT !["original"] = @ \o e] /\ keydir' = [keydir EXCEPT ![p] = c]
    BY DEF Set, Appendable, AppendCells, Log
<1>2. log \in Seq(Cells) /\ Readable(log, d) /\ key \in Seq(Cells) /\ value \in Seq(Cells)
    BY <1>1, KeyIs DEF Inv, ProcInv
<1>3. SetIn(log \o e, c, log, d, key, value)
    <2> HIDE DEF log, d
    <2> QED
        BY <1>1, <1>2, ReadableSet
<1> HIDE DEF e, c
<1>4. files'["original"] = log \o e /\ keydir'[p] = c
    BY <1>1 DEF Inv, TypeOK, FileName
<1> QED
    BY <1>3, <1>4

LEMMA DeleteReads ==
    ASSUME Inv, NEW p \in Proc, NEW key \in Key, Delete(p, key)
    PROVE  DeletedIn(files'["original"], keydir'[p], files["original"], keydir[p], key)
<1> DEFINE log == files["original"]
           e == EncodedEntry(key, <<>>, TRUE)
           d == keydir[p]
           c == Unindexed(d, key)
<1>1. /\ phase[p] = "open" /\ FitsEntry(key, <<>>, TRUE)
      /\ files' = [files EXCEPT !["original"] = @ \o e] /\ keydir' = [keydir EXCEPT ![p] = c]
    BY DEF Delete, Appendable, AppendCells
<1>2. log \in Seq(Cells) /\ Readable(log, d) /\ key \in Seq(Cells)
    BY <1>1, KeyIs DEF Inv, ProcInv
<1>3. DeletedIn(log \o e, c, log, d, key)
    <2> HIDE DEF log, d
    <2> QED
        BY <1>1, <1>2, ReadableDelete
<1> HIDE DEF e, c
<1>4. files'["original"] = log \o e /\ keydir'[p] = c
    BY <1>1 DEF Inv, TypeOK, FileName
<1> QED
    BY <1>3, <1>4

LEMMA TornReads ==
    ASSUME Inv, NEW p \in Proc, phase[p] = "open", NEW key \in Key, NEW value \in Seq(Cells),
           NEW deleted \in BOOLEAN, NEW n \in 1..(entrySize(key, value, deleted) - 1),
           FitsEntry(key, value, deleted),
           AppendCells(SubSeq(EncodedEntry(key, value, deleted), 1, n)), UNCHANGED keydir
    PROVE  \A k \in Key : Get(p, k)' = Get(p, k)
<1> DEFINE log == files["original"]
           x == SubSeq(EncodedEntry(key, value, deleted), 1, n)
           d == keydir[p]
<1>1. x \in Seq(Cells)
    BY KeyIs, EncodedCells
<1> HIDE DEF x
<1>2. files'["original"] = log \o x
    BY DEF AppendCells, x, Inv, TypeOK, FileName
<1>3. log \in Seq(Cells) /\ Readable(log, d)
    BY DEF Inv, ProcInv
<1>4. \A k \in DOMAIN d : readLogValue(log \o x, d[k]) = readLogValue(log, d[k])
    <2> HIDE DEF log, d
    <2> QED
        BY <1>1, <1>3, ReadableKept
<1>5. Log' = log \o x /\ Log = log /\ keydir'[p] = d
    BY <1>2 DEF Log
<1> HIDE DEF log
<1> QED
    BY <1>4, <1>5 DEF Get

LEMMA OwnStepReads ==
    ASSUME Inv, NEW p \in Proc, phase[p] = "open", phase'[p] = "open", ProcStep(p), NEW k \in Key
    PROVE  \/ Get(p, k)' = Get(p, k)
           \/ Delete(p, k) \/ \E value \in Value : Set(p, k, value)
<1>1. ~NewDiskEngine(p) /\ ~Close(p) /\ ~Crash(p) /\ ~Compact(p)
    <2>1. phase \in [Proc -> Phase]
        BY DEF Inv, TypeOK
    <2> QED
        BY <2>1 DEF NewDiskEngine, Open, Close, Shut, Crash, Compact, NewDiskEngineCompact,
                    CompactRewrite, CompactBackup, CompactInstall, CompactFinish, CompactFails,
                    RestoreOriginal, RestoreFails
<1>2. CASE \E key \in Key, value \in Value : Set(p, key, value)
    <2>1. PICK key \in Key, value \in Value : Set(p, key, value)
        BY <1>2
    <2>2. SetIn(files'["original"], keydir'[p], files["original"], keydir[p], key, value)
        BY <2>1, SetReads
    <2>3. CASE key # k
        BY <2>2, <2>3 DEF SetIn, Get, Log
    <2> QED
        BY <2>1, <2>3
<1>3. CASE \E key \in Key : Delete(p, key)
    <2>1. PICK key \in Key : Delete(p, key)
        BY <1>3
    <2>2. DeletedIn(files'["original"], keydir'[p], files["original"], keydir[p], key)
        BY <2>1, DeleteReads
    <2>3. CASE key # k
        BY <2>2, <2>3 DEF DeletedIn, Get, Log
    <2> QED
        BY <2>1, <2>3
<1>4. CASE \E key \in Key, value \in Value : \E n \in 1..(entrySize(key, value, FALSE) - 1) :
                SetStopsShort(p, key, value, n)
    <2>1. PICK key \in Key, value \in Value : \E n \in 1..(entrySize(key, value, FALSE) - 1) :
                SetStopsShort(p, key, value, n)
        BY <1>4
    <2>2. PICK n \in 1..(entrySize(key, value, FALSE) - 1) : SetStopsShort(p, key, value, n)
        BY <2>1
    <2>3. /\ FitsEntry(key, value, FALSE) /\ UNCHANGED keydir
          /\ AppendCells(SubSeq(EncodedEntry(key, value, FALSE), 1, n))
        BY <2>2 DEF SetStopsShort, Appendable
    <2> QED
        BY <2>3, KeyIs, TornReads
<1>5. CASE \E key \in Key : \E n \in 1..(entrySize(key, <<>>, TRUE) - 1) : DeleteStopsShort(p, key, n)
    <2>1. PICK key \in Key : \E n \in 1..(entrySize(key, <<>>, TRUE) - 1) : DeleteStopsShort(p, key, n)
        BY <1>5
    <2>2. PICK n \in 1..(entrySize(key, <<>>, TRUE) - 1) : DeleteStopsShort(p, key, n)
        BY <2>1
    <2>3. /\ FitsEntry(key, <<>>, TRUE) /\ UNCHANGED keydir
          /\ AppendCells(SubSeq(EncodedEntry(key, <<>>, TRUE), 1, n))
        BY <2>2 DEF DeleteStopsShort, Appendable
    <2> QED
        BY <2>3, KeyIs, TornReads
<1>6. CASE Scan(p)
    <2>1. UNCHANGED <<files, keydir>>
        BY <1>6 DEF Scan, StartScan, readScanItem, EndScan
    <2> QED
        BY <2>1 DEF Get, Log
<1> QED
    BY <1>1, <1>2, <1>3, <1>4, <1>5, <1>6 DEF ProcStep

\* Whatever fails, a running engine answers a Get with what the last Set or
\* Delete of the key that succeeded left; nothing else changes an answer.
THEOREM ReadsLastWriteAlways == Spec => ReadsLastWrite
<1> DEFINE A == \A p \in Proc : phase[p] = "open" /\ phase'[p] = "open" =>
                    \A k \in Key :
                        /\ \A value \in Value : Set(p, k, value) => Get(p, k)' = value
                        /\ Delete(p, k) => Get(p, k)' = Nil
                        /\ \/ Get(p, k)' = Get(p, k)
                           \/ Delete(p, k) \/ \E value \in Value : Set(p, k, value)
<1>1. Inv /\ [Next]_vars => [A]_vars
    <2> SUFFICES ASSUME Inv, Next, NEW p \in Proc, phase[p] = "open", phase'[p] = "open", NEW k \in Key
                 PROVE  /\ \A value \in Value : Set(p, k, value) => Get(p, k)' = value
                        /\ Delete(p, k) => Get(p, k)' = Nil
                        /\ \/ Get(p, k)' = Get(p, k)
                           \/ Delete(p, k) \/ \E value \in Value : Set(p, k, value)
        OBVIOUS
    <2>1. ASSUME NEW value \in Value, Set(p, k, value) PROVE Get(p, k)' = value
        <3>1. SetIn(files'["original"], keydir'[p], files["original"], keydir[p], k, value)
            BY <2>1, SetReads
        <3> QED
            BY <3>1 DEF SetIn, Get, Log
    <2>2. ASSUME Delete(p, k) PROVE Get(p, k)' = Nil
        <3>1. DeletedIn(files'["original"], keydir'[p], files["original"], keydir[p], k)
            BY <2>2, DeleteReads
        <3> QED
            BY <3>1 DEF DeletedIn, Get, Log
    <2>3. \/ Get(p, k)' = Get(p, k)
          \/ Delete(p, k) \/ \E value \in Value : Set(p, k, value)
        <3>1. PICK q \in Proc : ProcStep(q)
            BY DEF Next
        <3>2. CASE q = p
            BY <3>1, <3>2, OwnStepReads
        <3>3. CASE q # p
            <4>1. UNCHANGED <<files, keydir>>
                BY <3>1, <3>3, OthersWait
            <4> QED
                BY <4>1 DEF Get, Log
        <3> QED
            BY <3>2, <3>3
    <2> QED
        BY <2>1, <2>2, <2>3
<1> QED
    BY <1>1, Invariance, PTL DEF Spec, ReadsLastWrite

-----------------------------------------------------------------------------
(***************************************************************************)
(* The index is the one a restart would build.                             *)
(***************************************************************************)
\* Only p can be up after a step of p that is not part of a scan.
LEMMA OthersDown ==
    ASSUME Inv, NEW p \in Proc, ProcStep(p), ~Scan(p)
    PROVE  /\ phase[p] # "down" \/ lock = NoProc
           /\ \A q \in Proc : q # p => phase[q] = "down" /\ phase'[q] = "down"
<1>1. phase[p] # "down" \/ lock = NoProc
    BY DEF ProcStep, NewDiskEngine, Open, CanLock, Close, Crash, Set, Delete, SetStopsShort,
           DeleteStopsShort, Compact, NewDiskEngineCompact, CompactRewrite, CompactBackup,
           CompactInstall, CompactFinish, CompactFails, RestoreOriginal, RestoreFails
<1>2. ASSUME NEW q \in Proc, q # p PROVE phase[q] = "down" /\ phase'[q] = "down"
    <2>1. phase[q] = "down"
        BY <1>1, <1>2, Alone
    <2>2. phase \in [Proc -> Phase]
        BY DEF Inv, TypeOK
    <2>3. phase'[q] = phase[q]
        BY <1>2, <2>2 DEF ProcStep, NewDiskEngine, Open, Close, Shut, Crash, Set, Delete,
                SetStopsShort, DeleteStopsShort, Compact, NewDiskEngineCompact, CompactRewrite,
                CompactBackup, CompactInstall, CompactFinish, CompactFails, RestoreOriginal,
                RestoreFails
    <2> QED
        BY <2>1, <2>3
<1> QED
    BY <1>1, <1>2

\* A scan's steps, and no step at all, leave files and indexes as they are.
LEMMA ScanChangesNothing ==
    ASSUME NEW p \in Proc, Scan(p)
    PROVE  UNCHANGED <<files, lock, phase, keydir, newKeydir, store>>
BY DEF Scan, StartScan, readScanItem, EndScan

LEMMA WriteIndexes ==
    ASSUME NEW log \in Seq(Cells), ~RebuildFails(log), NEW key \in Seq(Cells)
    PROVE  /\ \A value \in Seq(Cells) : FitsEntry(key, value, FALSE) =>
                /\ ~RebuildFails(log \o EncodedEntry(key, value, FALSE))
                /\ rebuildKeydir(log \o EncodedEntry(key, value, FALSE)) =
                    Indexed(rebuildKeydir(log), key, EntryPosition(log, key, value, FALSE))
           /\ FitsEntry(key, <<>>, TRUE) =>
                /\ ~RebuildFails(log \o EncodedEntry(key, <<>>, TRUE))
                /\ rebuildKeydir(log \o EncodedEntry(key, <<>>, TRUE)) =
                    Unindexed(rebuildKeydir(log), key)
<1>1. <<>> \in Seq(Cells) /\ TRUE \in BOOLEAN /\ FALSE \in BOOLEAN
    OBVIOUS
<1> QED
    BY <1>1, RebuildAppended

LEMMA IndexStep ==
    ASSUME Inv, IndexInv, "short_write" \notin Faults, NEW p \in Proc, ProcStep(p), ~Scan(p)
    PROVE  /\ files'["original"] # Missing => ~RebuildFails(files'["original"])
           /\ ProcIndex(p)'
<1>t. /\ files \in [FileName -> Seq(Cells) \cup {Missing}] /\ phase \in [Proc -> Phase]
      /\ keydir = [q \in Proc |-> keydir[q]]
      /\ "original" \in FileName /\ "temp" \in FileName /\ "backup" \in FileName
    BY DEF Inv, TypeOK, FileName
<1>i. ProcInv(p) /\ ProcIndex(p)
    BY DEF Inv, IndexInv
<1>c. files["original"] # Missing => ~RebuildFails(files["original"])
    BY DEF IndexInv
<1>s. Missing \notin Seq(Cells)
    BY AbsentAssumption
<1>1. CASE NewDiskEngine(p) \/ NewDiskEngineCompact(p)
    <2>1. /\ ~RebuildFails(OpenedLog) /\ files'["original"] = OpenedLog
          /\ keydir'[p] = rebuildKeydir(OpenedLog) /\ phase'[p] \in {"open", "opened"}
        BY <1>1, <1>t DEF NewDiskEngine, NewDiskEngineCompact, Open
    <2> QED
        BY <2>1 DEF ProcIndex
<1>2. CASE Close(p) \/ Crash(p) \/ CompactFails(p)
    <2>1. phase'[p] = "down" /\ files'["original"] = files["original"]
        BY <1>2, <1>t DEF Close, Crash, CompactFails, Shut
    <2> QED
        BY <1>c, <2>1 DEF ProcIndex
<1>3. CASE RestoreOriginal(p)
    <2>1. /\ phase[p] \in {"backedUp", "installed"} /\ phase'[p] = "down"
          /\ files'["original"] = files["backup"]
        BY <1>3, <1>t DEF RestoreOriginal, Shut
    <2> QED
        BY <1>i, <2>1 DEF ProcIndex
<1>4. CASE RestoreFails(p)
    <2>1. phase'[p] = "down" /\ files'["original"] = Missing
        BY <1>4, <1>t DEF RestoreFails, Shut
    <2> QED
        BY <2>1 DEF ProcIndex
<1>5. CASE \E key \in Key, value \in Value : Set(p, key, value)
    <2>1. PICK key \in Key, value \in Value : Set(p, key, value)
        BY <1>5
    <2> DEFINE log == files["original"]
               e == EncodedEntry(key, value, FALSE)
               c == Indexed(keydir[p], key, EntryPosition(log, key, value, FALSE))
    <2>2. /\ phase[p] = "open" /\ phase'[p] = "open" /\ FitsEntry(key, value, FALSE)
          /\ files'["original"] = log \o e /\ keydir'[p] = c
        BY <2>1, <1>t DEF Set, Appendable, AppendCells, Log
    <2>3. log \in Seq(Cells) /\ ~RebuildFails(log) /\ keydir[p] = rebuildKeydir(log)
        BY <1>i, <1>c, <1>s, <2>2 DEF ProcInv, ProcIndex
    <2>4. ~RebuildFails(log \o e) /\ rebuildKeydir(log \o e) = c
        <3> HIDE DEF log
        <3> QED
            BY <2>2, <2>3, KeyIs, WriteIndexes
    <2> HIDE DEF e, c, log
    <2> QED
        BY <2>2, <2>4 DEF ProcIndex
<1>6. CASE \E key \in Key : Delete(p, key)
    <2>1. PICK key \in Key : Delete(p, key)
        BY <1>6
    <2> DEFINE log == files["original"]
               e == EncodedEntry(key, <<>>, TRUE)
               c == Unindexed(keydir[p], key)
    <2>2. /\ phase[p] = "open" /\ phase'[p] = "open" /\ FitsEntry(key, <<>>, TRUE)
          /\ files'["original"] = log \o e /\ keydir'[p] = c
        BY <2>1, <1>t DEF Delete, Appendable, AppendCells
    <2>3. log \in Seq(Cells) /\ ~RebuildFails(log) /\ keydir[p] = rebuildKeydir(log)
        BY <1>i, <1>c, <1>s, <2>2 DEF ProcInv, ProcIndex
    <2>4. ~RebuildFails(log \o e) /\ rebuildKeydir(log \o e) = c
        <3> HIDE DEF log
        <3> QED
            BY <2>2, <2>3, KeyIs, WriteIndexes
    <2> HIDE DEF e, c, log
    <2> QED
        BY <2>2, <2>4 DEF ProcIndex
<1>7. CASE CompactRewrite(p)
    <2> DEFINE log == files["original"]
               r == Rewritten(log, keydir[p])
    <2>1. /\ phase[p] = "opened" /\ phase'[p] = "rewritten" /\ files'["original"] = log
          /\ files'["temp"] = r.log /\ newKeydir' = r.keydir /\ keydir' = keydir
        BY <1>7, <1>t DEF CompactRewrite, Log
    <2>2. log \in Seq(Cells) /\ Readable(log, keydir[p])
        BY <1>i, <2>1 DEF ProcInv
    <2>3. ~RebuildFails(r.log) /\ r.keydir = rebuildKeydir(r.log)
        <3> HIDE DEF log
        <3> QED
            BY <2>2, RewrittenIs
    <2> HIDE DEF r
    <2> QED
        BY <1>i, <1>c, <2>1, <2>3 DEF ProcIndex
<1>8. CASE CompactBackup(p)
    <2>1. /\ phase[p] = "rewritten" /\ phase'[p] = "backedUp" /\ files'["original"] = Missing
          /\ files'["temp"] = files["temp"] /\ files'["backup"] = files["original"]
          /\ newKeydir' = newKeydir
        BY <1>8, <1>t DEF CompactBackup
    <2>2. ~RebuildFails(files["original"])
        BY <1>i, <1>c, <1>s, <2>1 DEF ProcInv
    <2> QED
        BY <1>i, <2>1, <2>2 DEF ProcIndex
<1>9. CASE CompactInstall(p)
    <2>1. /\ phase[p] = "backedUp" /\ phase'[p] = "installed"
          /\ files'["original"] = files["temp"] /\ files'["backup"] = files["backup"]
          /\ newKeydir' = newKeydir
        BY <1>9, <1>t DEF CompactInstall
    <2> QED
        BY <1>i, <2>1 DEF ProcIndex
<1>10. CASE CompactFinish(p)
    <2>1. /\ phase[p] = "installed" /\ phase'[p] = "open"
          /\ files'["original"] = files["original"] /\ keydir'[p] = newKeydir
        BY <1>10, <1>t DEF CompactFinish
    <2> QED
        BY <1>i, <1>c, <2>1 DEF ProcIndex
<1>11. /\ \A k, value, n : ~SetStopsShort(p, k, value, n)
       /\ \A k, n : ~DeleteStopsShort(p, k, n)
    BY DEF SetStopsShort, DeleteStopsShort
<1> QED
    BY <1>1, <1>2, <1>3, <1>4, <1>5, <1>6, <1>7, <1>8, <1>9, <1>10, <1>11 DEF ProcStep, Compact

LEMMA IndexNext ==
    ASSUME "short_write" \notin Faults, Inv, IndexInv, [Next]_vars
    PROVE  IndexInv'
<1>1. CASE UNCHANGED vars
    BY <1>1 DEF vars, IndexInv, ProcIndex
<1>2. CASE Next
    <2>1. PICK p \in Proc : ProcStep(p)
        BY <1>2 DEF Next
    <2>2. CASE Scan(p)
        <3>1. UNCHANGED <<files, lock, phase, keydir, newKeydir, store>>
            BY <2>2, ScanChangesNothing
        <3> QED
            BY <3>1 DEF IndexInv, ProcIndex
    <2>3. CASE ~Scan(p)
        <3>1. /\ files'["original"] # Missing => ~RebuildFails(files'["original"])
              /\ ProcIndex(p)'
            BY <2>1, <2>3, IndexStep
        <3>2. \A q \in Proc : q # p => ProcIndex(q)'
            BY <2>1, <2>3, OthersDown DEF ProcIndex
        <3> QED
            BY <3>1, <3>2 DEF IndexInv
    <2> QED
        BY <2>2, <2>3
<1> QED
    BY <1>1, <1>2

LEMMA IndexInit == Init => IndexInv
BY DEF Init, IndexInv, ProcIndex, FileName

\* As long as no write stops short, the log always opens, and the index in
\* memory is the one rebuildKeydir would make of it: after any number of
\* Sets, Deletes, compactions, failures of compactions and crashes.
THEOREM IndexMatchesLogAlways ==
    ASSUME "short_write" \notin Faults
    PROVE  Spec => []IndexMatchesLog
<1>1. Inv /\ IndexInv => IndexMatchesLog
    <2> SUFFICES ASSUME Inv, IndexInv, NEW p \in Proc, phase[p] = "open"
                 PROVE  ~RebuildFails(OpenedLog) /\ keydir[p] = rebuildKeydir(OpenedLog)
        BY DEF IndexMatchesLog
    <2>1. files["original"] \in Seq(Cells) /\ OpenedLog = files["original"]
        BY AbsentAssumption DEF Inv, ProcInv, OpenedLog
    <2> QED
        BY <2>1, AbsentAssumption DEF IndexInv, ProcIndex
<1>2. Inv /\ Inv' /\ IndexInv /\ [Next]_vars => IndexInv'
    BY IndexNext
<1> QED
    BY <1>1, <1>2, IndexInit, Invariance, PTL DEF Spec

-----------------------------------------------------------------------------
(***************************************************************************)
(* The engine is a durable map.                                            *)
(***************************************************************************)
LEMMA ContentsSet ==
    ASSUME NEW log, NEW new, NEW key \in Key, NEW value,
           SetIn(new, rebuildKeydir(new), log, rebuildKeydir(log), key, value)
    PROVE  Contents(new) = [Contents(log) EXCEPT ![key] = value]
<1> DEFINE c == rebuildKeydir(new)
           d == rebuildKeydir(log)
<1>1. /\ DOMAIN c = DOMAIN d \cup {key} /\ readLogValue(new, c[key]) = value
      /\ \A k \in DOMAIN d : k # key => readLogValue(new, c[k]) = readLogValue(log, d[k])
    BY DEF SetIn
<1> HIDE DEF c, d
<1>2. /\ Contents(new) = [k \in Key |-> IF k \in DOMAIN c THEN readLogValue(new, c[k]) ELSE Nil]
      /\ Contents(log) = [k \in Key |-> IF k \in DOMAIN d THEN readLogValue(log, d[k]) ELSE Nil]
    BY DEF Contents, c, d
<1> QED
    BY <1>1, <1>2

LEMMA ContentsDeleted ==
    ASSUME NEW log, NEW new, NEW key \in Key,
           DeletedIn(new, rebuildKeydir(new), log, rebuildKeydir(log), key)
    PROVE  Contents(new) = [Contents(log) EXCEPT ![key] = Nil]
<1> DEFINE c == rebuildKeydir(new)
           d == rebuildKeydir(log)
<1>1. /\ DOMAIN c = DOMAIN d \ {key}
      /\ \A k \in DOMAIN c : readLogValue(new, c[k]) = readLogValue(log, d[k])
    BY DEF DeletedIn
<1> HIDE DEF c, d
<1>2. /\ Contents(new) = [k \in Key |-> IF k \in DOMAIN c THEN readLogValue(new, c[k]) ELSE Nil]
      /\ Contents(log) = [k \in Key |-> IF k \in DOMAIN d THEN readLogValue(log, d[k]) ELSE Nil]
    BY DEF Contents, c, d
<1> QED
    BY <1>1, <1>2

LEMMA ContentsRewritten ==
    ASSUME NEW log \in Seq(Cells), Readable(log, rebuildKeydir(log))
    PROVE  Contents(Rewritten(log, rebuildKeydir(log)).log) = Contents(log)
<1> DEFINE d == rebuildKeydir(log)
           new == Rewritten(log, d).log
           c == rebuildKeydir(new)
<1>1. /\ DOMAIN c = DOMAIN d
      /\ \A k \in DOMAIN d : readLogValue(new, c[k]) = readLogValue(log, d[k])
    <2>1. Readable(log, d)
        OBVIOUS
    <2> HIDE DEF d
    <2> QED
        BY <2>1, RewrittenIs
<1>2. /\ Contents(new) = [k \in Key |-> IF k \in DOMAIN c THEN readLogValue(new, c[k]) ELSE Nil]
      /\ Contents(log) = [k \in Key |-> IF k \in DOMAIN d THEN readLogValue(log, d[k]) ELSE Nil]
    BY DEF Contents
<1> HIDE DEF c, d, new
<1>3. Contents(new) = Contents(log)
    BY <1>1, <1>2
<1> QED
    BY <1>3 DEF new, d

LEMMA StoreStep ==
    ASSUME Inv, IndexInv, IndexInv', StoreInv, Faults = {}, NEW p \in Proc, ProcStep(p), ~Scan(p)
    PROVE  /\ phase'[p] # "backedUp" => Contents(OpenedLog') = store'
           /\ ProcStore(p)'
<1>t. /\ files \in [FileName -> Seq(Cells) \cup {Missing}] /\ phase \in [Proc -> Phase]
      /\ keydir = [q \in Proc |-> keydir[q]]
      /\ "original" \in FileName /\ "temp" \in FileName /\ "backup" \in FileName
    BY DEF Inv, TypeOK, FileName
<1>i. ProcInv(p) /\ ProcIndex(p) /\ ProcStore(p) /\ ProcIndex(p)'
    BY DEF Inv, IndexInv, StoreInv
<1>o. phase[p] # "backedUp" => Contents(OpenedLog) = store
    BY OthersDown DEF StoreInv
<1>s. Missing \notin Seq(Cells)
    BY AbsentAssumption
<1>l. /\ files["original"] \in Seq(Cells) => OpenedLog = files["original"]
      /\ files'["original"] \in Seq(Cells) => OpenedLog' = files'["original"]
    BY <1>s DEF OpenedLog
<1>1. CASE NewDiskEngine(p) \/ NewDiskEngineCompact(p)
    <2>1. /\ files'["original"] = OpenedLog /\ store' = store
          /\ phase[p] = "down" /\ phase'[p] \in {"open", "opened"}
        BY <1>1, <1>t DEF NewDiskEngine, NewDiskEngineCompact, Open
    <2>2. OpenedLog \in Seq(Cells)
        BY <1>t DEF OpenedLog
    <2> QED
        BY <1>o, <1>l, <2>1, <2>2 DEF ProcStore
<1>2. CASE Close(p) \/ Crash(p) \/ CompactFails(p)
    <2>1. /\ phase[p] # "backedUp" /\ phase'[p] = "down" /\ store' = store
          /\ files'["original"] = files["original"]
        BY <1>2, <1>t DEF Close, Crash, CompactFails, Shut
    <2>2. OpenedLog' = OpenedLog
        BY <2>1 DEF OpenedLog
    <2> QED
        BY <1>o, <2>1, <2>2 DEF ProcStore
<1>3. CASE RestoreOriginal(p)
    <2>1. /\ phase[p] \in {"backedUp", "installed"} /\ phase'[p] = "down"
          /\ files'["original"] = files["backup"] /\ store' = store
        BY <1>3, <1>t DEF RestoreOriginal, Shut
    <2>2. files["backup"] \in Seq(Cells) /\ Contents(files["backup"]) = store
        BY <1>i, <2>1 DEF ProcInv, ProcStore
    <2> QED
        BY <1>l, <2>1, <2>2 DEF ProcStore
<1>4. CASE \E key \in Key, value \in Value : Set(p, key, value)
    <2>1. PICK key \in Key, value \in Value : Set(p, key, value)
        BY <1>4
    <2> DEFINE log == files["original"]
               new == files'["original"]
    <2>2. phase[p] = "open" /\ phase'[p] = "open" /\ store' = [store EXCEPT ![key] = value]
        BY <2>1, <1>t DEF Set, KV!Set
    <2>3. SetIn(new, keydir'[p], log, keydir[p], key, value)
        BY <2>1, SetReads
    <2>4. log \in Seq(Cells) /\ keydir[p] = rebuildKeydir(log) /\ keydir'[p] = rebuildKeydir(new)
        BY <1>i, <2>2 DEF ProcInv, ProcIndex
    <2>5. new \in Seq(Cells)
        BY <2>3 DEF SetIn
    <2>6. Contents(log) = store
        BY <1>o, <1>l, <2>2, <2>4
    <2>7. OpenedLog' = new
        BY <1>l, <2>5
    <2> HIDE DEF log, new
    <2>8. Contents(new) = [Contents(log) EXCEPT ![key] = value]
        <3>1. SetIn(new, rebuildKeydir(new), log, rebuildKeydir(log), key, value)
            BY <2>3, <2>4
        <3> QED
            BY ONLY <3>1, key \in Key, ContentsSet
    <2> QED
        BY <2>2, <2>6, <2>7, <2>8 DEF ProcStore
<1>5. CASE \E key \in Key : Delete(p, key)
    <2>1. PICK key \in Key : Delete(p, key)
        BY <1>5
    <2> DEFINE log == files["original"]
               new == files'["original"]
    <2>2. phase[p] = "open" /\ phase'[p] = "open" /\ store' = [store EXCEPT ![key] = Nil]
        BY <2>1, <1>t DEF Delete, KV!Delete
    <2>3. DeletedIn(new, keydir'[p], log, keydir[p], key)
        BY <2>1, DeleteReads
    <2>4. log \in Seq(Cells) /\ keydir[p] = rebuildKeydir(log) /\ keydir'[p] = rebuildKeydir(new)
        BY <1>i, <2>2 DEF ProcInv, ProcIndex
    <2>5. new \in Seq(Cells)
        BY <2>3 DEF DeletedIn
    <2>6. Contents(log) = store
        BY <1>o, <1>l, <2>2, <2>4
    <2>7. OpenedLog' = new
        BY <1>l, <2>5
    <2> HIDE DEF log, new
    <2>8. Contents(new) = [Contents(log) EXCEPT ![key] = Nil]
        <3>1. DeletedIn(new, rebuildKeydir(new), log, rebuildKeydir(log), key)
            BY <2>3, <2>4
        <3> QED
            BY <3>1, ContentsDeleted, Zenon
    <2> QED
        BY <2>2, <2>6, <2>7, <2>8 DEF ProcStore
<1>6. CASE CompactRewrite(p)
    <2> DEFINE log == files["original"]
    <2>1. /\ phase[p] = "opened" /\ phase'[p] = "rewritten" /\ files'["original"] = log
          /\ files'["temp"] = Rewritten(log, keydir[p]).log /\ store' = store
        BY <1>6, <1>t DEF CompactRewrite, Log
    <2>2. log \in Seq(Cells) /\ Readable(log, keydir[p]) /\ keydir[p] = rebuildKeydir(log)
        BY <1>i, <2>1 DEF ProcInv, ProcIndex
    <2>3. Contents(log) = store
        BY <1>o, <1>l, <2>1, <2>2
    <2>4. OpenedLog' = log
        BY <1>l, <2>1, <2>2
    <2> HIDE DEF log
    <2>5. Contents(files'["temp"]) = Contents(log)
        BY <2>1, <2>2, ContentsRewritten
    <2> QED
        BY <2>1, <2>3, <2>4, <2>5 DEF ProcStore
<1>7. CASE CompactBackup(p)
    <2>1. /\ phase[p] = "rewritten" /\ phase'[p] = "backedUp" /\ files'["original"] = Missing
          /\ files'["temp"] = files["temp"] /\ files'["backup"] = files["original"]
          /\ store' = store
        BY <1>7, <1>t DEF CompactBackup
    <2>2. Contents(files["original"]) = store
        BY <1>i, <1>o, <1>l, <2>1 DEF ProcInv
    <2> QED
        BY <1>i, <2>1, <2>2 DEF ProcStore
<1>8. CASE CompactInstall(p)
    <2>1. /\ phase[p] = "backedUp" /\ phase'[p] = "installed"
          /\ files'["original"] = files["temp"] /\ files'["backup"] = files["backup"]
          /\ store' = store
        BY <1>8, <1>t DEF CompactInstall
    <2>2. files["temp"] \in Seq(Cells)
        BY <1>i, <2>1 DEF ProcInv
    <2> QED
        BY <1>i, <1>l, <2>1, <2>2 DEF ProcStore
<1>9. CASE CompactFinish(p)
    <2>1. /\ phase[p] = "installed" /\ phase'[p] = "open" /\ store' = store
          /\ files'["original"] = files["original"]
        BY <1>9, <1>t DEF CompactFinish
    <2>2. OpenedLog' = OpenedLog
        BY <2>1 DEF OpenedLog
    <2> QED
        BY <1>o, <2>1, <2>2 DEF ProcStore
<1>10. /\ \A k, value, n : ~SetStopsShort(p, k, value, n)
       /\ \A k, n : ~DeleteStopsShort(p, k, n)
       /\ ~RestoreFails(p)
    BY DEF SetStopsShort, DeleteStopsShort, RestoreFails
<1> QED
    BY <1>1, <1>2, <1>3, <1>4, <1>5, <1>6, <1>7, <1>8, <1>9, <1>10 DEF ProcStep, Compact

LEMMA StoreNext ==
    ASSUME Faults = {}, Inv, IndexInv, IndexInv', StoreInv, [Next]_vars
    PROVE  StoreInv'
<1>1. CASE UNCHANGED vars
    BY <1>1 DEF vars, StoreInv, ProcStore, OpenedLog
<1>2. CASE Next
    <2>1. PICK p \in Proc : ProcStep(p)
        BY <1>2 DEF Next
    <2>2. CASE Scan(p)
        <3>1. UNCHANGED <<files, lock, phase, keydir, newKeydir, store>>
            BY <2>2, ScanChangesNothing
        <3> QED
            BY <3>1 DEF StoreInv, ProcStore, OpenedLog
    <2>3. CASE ~Scan(p)
        <3>1. /\ phase'[p] # "backedUp" => Contents(OpenedLog') = store'
              /\ ProcStore(p)'
            BY <2>1, <2>3, StoreStep
        <3>2. \A q \in Proc : q # p => ProcStore(q)'
            BY <2>1, <2>3, OthersDown DEF ProcStore
        <3> QED
            BY <3>1, <3>2 DEF StoreInv
    <2> QED
        BY <2>2, <2>3
<1> QED
    BY <1>1, <1>2

LEMMA StoreInit == Init => StoreInv
<1> SUFFICES ASSUME Init PROVE StoreInv
    OBVIOUS
<1>1. OpenedLog = <<>> /\ store = [k \in Key |-> Nil] /\ \A p \in Proc : phase[p] = "down"
    BY DEF Init, KV!Init, OpenedLog, FileName
<1>2. DOMAIN rebuildKeydir(<<>>) = {}
    BY RebuildEmpty DEF EmptyKeydir
<1>3. Contents(<<>>) = [k \in Key |-> Nil]
    BY <1>2 DEF Contents
<1> QED
    BY <1>1, <1>3 DEF StoreInv, ProcStore

LEMMA StoreIsDurable ==
    ASSUME Inv, IndexInv, StoreInv
    PROVE  DurableIsStore
<1>1. ~RebuildFails(DurableLog) /\ Contents(DurableLog) = store
    <2>1. CASE \E p \in Proc : phase[p] = "backedUp"
        <3>1. PICK p \in Proc : phase[p] = "backedUp"
            BY <2>1
        <3>2. files["original"] = Missing /\ DurableLog = files["backup"]
            BY <3>1 DEF DurableLog, StoreInv, ProcStore
        <3> QED
            BY <3>1, <3>2 DEF StoreInv, ProcStore, IndexInv, ProcIndex
    <2>2. CASE \A p \in Proc : phase[p] # "backedUp"
        <3>1. DurableLog = OpenedLog
            BY <2>2 DEF DurableLog
        <3>2. ~RebuildFails(OpenedLog)
            BY RebuildEmpty DEF IndexInv, OpenedLog
        <3> QED
            BY <2>2, <3>1, <3>2 DEF StoreInv
    <2> QED
        BY <2>1, <2>2
<1> DEFINE index == rebuildKeydir(DurableLog)
<1>2. Durable = [k \in Key |-> IF k \in DOMAIN index THEN readLogValue(DurableLog, index[k]) ELSE Nil]
    BY <1>1 DEF Durable
<1>3. Durable = Contents(DurableLog)
    BY <1>2 DEF Contents
<1> QED
    BY <1>1, <1>3 DEF DurableIsStore

\* When nothing fails but single steps of a compaction, a restart finds at
\* every moment exactly what the Sets and Deletes that succeeded left.
THEOREM DurableIsStoreAlways ==
    ASSUME Faults = {}
    PROVE  Spec => []DurableIsStore
<1>1. Inv /\ IndexInv /\ StoreInv => DurableIsStore
    BY StoreIsDurable
<1>2. Inv /\ Inv' /\ IndexInv /\ [Next]_vars => IndexInv'
    BY IndexNext
<1>3. Inv /\ IndexInv /\ IndexInv' /\ StoreInv /\ [Next]_vars => StoreInv'
    BY StoreNext
<1> QED
    BY <1>1, <1>2, <1>3, IndexInit, StoreInit, Invariance, PTL DEF Spec

=============================================================================
