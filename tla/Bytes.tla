-------------------------------- MODULE Bytes --------------------------------
(***************************************************************************)
(* Byte strings as the storage layer compares them.                        *)
(***************************************************************************)
EXTENDS Integers, Sequences, FiniteSets

\* bytes.Compare(a, b) < 0: the first difference decides, a prefix is smaller.
Less(a, b) ==
    \E n \in 0..Len(a) :
        /\ n < Len(b)
        /\ \A i \in 1..n : a[i] = b[i]
        /\ n = Len(a) \/ a[n + 1] < b[n + 1]

AtMost(a, b) == a = b \/ Less(a, b)

\* Finitely many strings in their order, as a B-tree hands them out.
Ascending(strings) ==
    CHOOSE s \in [1..Cardinality(strings) -> strings] :
        \A i, j \in 1..Cardinality(strings) : i < j => Less(s[i], s[j])

\* prefixEnd: the smallest string above every string with this prefix, or
\* none when all bytes are at their maximum.
prefixEnd(prefix, maxByte, none) ==
    LET below == {i \in 1..Len(prefix) : prefix[i] # maxByte}
    IN  IF below = {} THEN none
        ELSE LET last == CHOOSE i \in below : \A j \in below : j <= i
             IN  [SubSeq(prefix, 1, last) EXCEPT ![last] = @ + 1]

\* base to the n-th.
Power(base, n) ==
    LET power[k \in 0..n] == IF k = 0 THEN 1 ELSE base * power[k - 1]
    IN  power[n]

\* binary.BigEndian.PutUint64, for words of n bytes.
BigEndian(word, n, maxByte) ==
    [i \in 1..n |-> (word \div Power(maxByte + 1, n - i)) % (maxByte + 1)]

\* Is k in [start, end)?  A missing bound does not exclude anything.
InRange(k, start, end, none) ==
    /\ start = none \/ AtMost(start, k)
    /\ end = none \/ Less(k, end)

=============================================================================
