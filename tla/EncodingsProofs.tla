--------------------------- MODULE EncodingsProofs ---------------------------
(***************************************************************************)
(* The properties of module Encodings, for raw keys, names and texts of    *)
(* any length, and for bytes and words of any width.                       *)
(***************************************************************************)
EXTENDS Encodings, Foundations

-----------------------------------------------------------------------------
(***************************************************************************)
(* The order of byte strings that are put together from parts.             *)
(***************************************************************************)

\* a is below b at a byte that both have: nothing that follows can change it.
Below(a, b) ==
    \E n \in Nat :
        /\ n < Len(a) /\ n < Len(b)
        /\ \A i \in 1..n : a[i] = b[i]
        /\ a[n + 1] < b[n + 1]

Starts(p, x) == Len(p) <= Len(x) /\ \A i \in 1..Len(p) : p[i] = x[i]

LEMMA LessIs ==
    ASSUME NEW a \in Seq(Int), NEW b \in Seq(Int)
    PROVE  Less(a, b) <=> Below(a, b) \/ (Starts(a, b) /\ Len(a) < Len(b))
<1>1. Len(a) \in Nat /\ Len(b) \in Nat
    OBVIOUS
<1>2. ASSUME Less(a, b) PROVE Below(a, b) \/ (Starts(a, b) /\ Len(a) < Len(b))
    <2>1. PICK n \in 0..Len(a) : /\ n < Len(b) /\ \A i \in 1..n : a[i] = b[i]
                                 /\ n = Len(a) \/ a[n + 1] < b[n + 1]
        BY <1>2 DEF Less
    <2>2. CASE n = Len(a)
        BY <1>1, <2>1, <2>2 DEF Starts
    <2>3. CASE n # Len(a)
        <3>1. n \in Nat /\ n < Len(a)
            BY <1>1, <2>1, <2>3
        <3> QED
            BY <2>1, <2>3, <3>1 DEF Below
    <2> QED
        BY <2>2, <2>3
<1>3. ASSUME Below(a, b) PROVE Less(a, b)
    <2>1. PICK n \in Nat : /\ n < Len(a) /\ n < Len(b)
                           /\ \A i \in 1..n : a[i] = b[i]
                           /\ a[n + 1] < b[n + 1]
        BY <1>3 DEF Below
    <2>2. n \in 0..Len(a)
        BY <1>1, <2>1
    <2> QED
        BY <2>1, <2>2 DEF Less
<1>4. ASSUME Starts(a, b), Len(a) < Len(b) PROVE Less(a, b)
    <2>1. Len(a) \in 0..Len(a)
        BY <1>1
    <2> QED
        BY <1>4, <2>1 DEF Less, Starts
<1> QED
    BY <1>2, <1>3, <1>4

LEMMA BelowJoined ==
    ASSUME NEW a \in Seq(Int), NEW b \in Seq(Int), NEW x \in Seq(Int), NEW y \in Seq(Int),
           Below(a, b)
    PROVE  Below(a \o x, b \o y)
<1>1. PICK n \in Nat : /\ n < Len(a) /\ n < Len(b)
                       /\ \A i \in 1..n : a[i] = b[i]
                       /\ a[n + 1] < b[n + 1]
    BY DEF Below
<1>2. Len(a) \in Nat /\ Len(b) \in Nat /\ Len(x) \in Nat /\ Len(y) \in Nat
    OBVIOUS
<1>3. /\ Len(a \o x) = Len(a) + Len(x) /\ \A i \in 1..Len(a) : (a \o x)[i] = a[i]
      /\ Len(b \o y) = Len(b) + Len(y) /\ \A i \in 1..Len(b) : (b \o y)[i] = b[i]
    OBVIOUS
<1>4. /\ n < Len(a \o x) /\ n < Len(b \o y) /\ n + 1 \in 1..Len(a) /\ n + 1 \in 1..Len(b)
      /\ \A i \in 1..n : i \in 1..Len(a) /\ i \in 1..Len(b)
    BY <1>1, <1>2, <1>3
<1> QED
    BY <1>1, <1>3, <1>4 DEF Below

LEMMA BelowApart ==
    ASSUME NEW a \in Seq(Int), NEW b \in Seq(Int), Below(a, b)
    PROVE  /\ Less(a, b) /\ ~Less(b, a) /\ a # b
           /\ ~Starts(a, b) /\ ~Starts(b, a)
<1>1. PICK n \in Nat : /\ n < Len(a) /\ n < Len(b)
                       /\ \A i \in 1..n : a[i] = b[i]
                       /\ a[n + 1] < b[n + 1]
    BY DEF Below
<1>2. Len(a) \in Nat /\ Len(b) \in Nat /\ n + 1 \in 1..Len(a) /\ n + 1 \in 1..Len(b)
    BY <1>1
<1>3. a[n + 1] \in Int /\ b[n + 1] \in Int
    BY <1>2, ElementOfSeq
<1>4. a[n + 1] # b[n + 1]
    BY <1>1, <1>3
<1>5. Less(a, b)
    BY LessIs
<1>6. ~Less(b, a)
    BY <1>5, LessTransitive, LessIrreflexive
<1> QED
    BY <1>2, <1>4, <1>5, <1>6 DEF Starts

LEMMA Joins ==
    ASSUME NEW c \in Seq(Int), NEW a \in Seq(Int)
    PROVE  /\ c \o a \in Seq(Int)
           /\ Len(c \o a) = Len(c) + Len(a)
           /\ \A i \in 1..Len(c) : (c \o a)[i] = c[i]
           /\ \A i \in 1..Len(a) : (c \o a)[Len(c) + i] = a[i]
OBVIOUS

LEMMA PartOf ==
    ASSUME NEW S, NEW s \in Seq(S), NEW m \in Nat \ {0}, NEW n \in Nat, n <= Len(s)
    PROVE  /\ SubSeq(s, m, n) \in Seq(S)
           /\ Len(SubSeq(s, m, n)) = IF m <= n THEN n - m + 1 ELSE 0
<1>1. m \in Int /\ n \in Int /\ Len(s) \in Nat
    OBVIOUS
<1>2. \A i \in m..n : i \in 1..Len(s)
    BY <1>1
<1>3. \A i \in m..n : s[i] \in S
    BY <1>2, ElementOfSeq
<1> QED
    BY <1>1, <1>3, SubSeqProperties

\* What two strings start with in common does not matter.
LEMMA CommonStart ==
    ASSUME NEW c \in Seq(Int), NEW a \in Seq(Int), NEW b \in Seq(Int)
    PROVE  /\ Below(c \o a, c \o b) <=> Below(a, b)
           /\ Starts(c \o a, c \o b) <=> Starts(a, b)
           /\ Less(c \o a, c \o b) <=> Less(a, b)
           /\ c \o a = c \o b <=> a = b
<1>1. Len(a) \in Nat /\ Len(b) \in Nat /\ Len(c) \in Nat
    OBVIOUS
<1>2. /\ c \o a \in Seq(Int) /\ Len(c \o a) = Len(c) + Len(a)
      /\ \A i \in 1..Len(c) : (c \o a)[i] = c[i]
      /\ \A i \in 1..Len(a) : (c \o a)[Len(c) + i] = a[i]
    BY Joins
<1>3. /\ c \o b \in Seq(Int) /\ Len(c \o b) = Len(c) + Len(b)
      /\ \A i \in 1..Len(c) : (c \o b)[i] = c[i]
      /\ \A i \in 1..Len(b) : (c \o b)[Len(c) + i] = b[i]
    BY Joins
<1> DEFINE ca == c \o a
           cb == c \o b
<1> HIDE DEF ca, cb
<1>4. /\ ca \in Seq(Int) /\ Len(ca) = Len(c) + Len(a)
      /\ \A i \in 1..Len(c) : ca[i] = c[i]
      /\ \A i \in 1..Len(a) : ca[Len(c) + i] = a[i]
      /\ cb \in Seq(Int) /\ Len(cb) = Len(c) + Len(b)
      /\ \A i \in 1..Len(c) : cb[i] = c[i]
      /\ \A i \in 1..Len(b) : cb[Len(c) + i] = b[i]
    BY <1>2, <1>3 DEF ca, cb
<1>5. ASSUME Below(a, b) PROVE Below(ca, cb)
    <2>1. PICK n \in Nat : /\ n < Len(a) /\ n < Len(b)
                           /\ \A i \in 1..n : a[i] = b[i]
                           /\ a[n + 1] < b[n + 1]
        BY <1>5 DEF Below
    <2> DEFINE k == Len(c) + n
    <2>2. k \in Nat /\ k < Len(ca) /\ k < Len(cb)
        <3>1. Len(ca) = Len(c) + Len(a) /\ Len(cb) = Len(c) + Len(b)
            BY <1>4
        <3>2. n < Len(a) /\ n < Len(b)
            BY <2>1
        <3> QED
            BY <1>1, <3>1, <3>2
    <2>3. k + 1 = Len(c) + (n + 1) /\ n + 1 \in 1..Len(a) /\ n + 1 \in 1..Len(b)
        BY <1>1, <2>1
    <2>4. ca[k + 1] < cb[k + 1]
        <3> HIDE DEF k
        <3>1. ca[Len(c) + (n + 1)] = a[n + 1] /\ cb[Len(c) + (n + 1)] = b[n + 1]
            BY <1>4, <2>3
        <3>2. ca[k + 1] = a[n + 1] /\ cb[k + 1] = b[n + 1]
            BY <2>3, <3>1, Zenon
        <3> QED
            BY <2>1, <3>2, Zenon
    <2>5. ASSUME NEW i \in 1..k PROVE ca[i] = cb[i]
        <3>1. CASE i <= Len(c)
            BY <1>1, <1>4, <3>1
        <3>2. CASE i > Len(c)
            <4>1. /\ i - Len(c) \in 1..n /\ i - Len(c) \in 1..Len(a) /\ i - Len(c) \in 1..Len(b)
                  /\ i = Len(c) + (i - Len(c))
                BY <1>1, <2>1, <3>2
            <4> QED
                BY <1>4, <2>1, <4>1, ZenonT(30)
        <3> QED
            BY <1>1, <3>1, <3>2
    <2> QED
        BY <2>2, <2>4, <2>5 DEF Below
<1>6. ASSUME Starts(a, b) PROVE Starts(ca, cb)
    <2>1. ASSUME NEW i \in 1..Len(ca) PROVE ca[i] = cb[i]
        <3>1. CASE i <= Len(c)
            BY <1>1, <1>4, <3>1
        <3>2. CASE i > Len(c)
            <4>1. /\ i - Len(c) \in 1..Len(a) /\ i - Len(c) \in 1..Len(b)
                  /\ i = Len(c) + (i - Len(c))
                BY <1>1, <1>4, <1>6, <3>2 DEF Starts
            <4> QED
                BY <1>4, <1>6, <4>1, ZenonT(30) DEF Starts
        <3> QED
            BY <1>1, <3>1, <3>2
    <2> QED
        BY <1>1, <1>4, <1>6, <2>1 DEF Starts
<1>7. ASSUME Starts(ca, cb) PROVE Starts(a, b)
    <2>1. Len(a) <= Len(b)
        BY <1>1, <1>4, <1>7 DEF Starts
    <2>2. ASSUME NEW i \in 1..Len(a) PROVE a[i] = b[i]
        <3>0. Len(ca) = Len(c) + Len(a)
            BY <1>4
        <3>1. Len(c) + i \in 1..Len(ca) /\ i \in 1..Len(b)
            BY <1>1, <2>1, <3>0
        <3>2. ca[Len(c) + i] = cb[Len(c) + i]
            BY <1>7, <3>1 DEF Starts
        <3> QED
            BY <1>4, <3>1, <3>2
    <2> QED
        BY <2>1, <2>2 DEF Starts
<1>8. ASSUME Below(ca, cb) PROVE Below(a, b)
    <2>1. PICK k \in Nat : /\ k < Len(ca) /\ k < Len(cb)
                           /\ \A i \in 1..k : ca[i] = cb[i]
                           /\ ca[k + 1] < cb[k + 1]
        BY <1>8 DEF Below
    <2>2. k >= Len(c)
        <3> SUFFICES ASSUME k < Len(c) PROVE FALSE
            BY <1>1
        <3>1. k + 1 \in 1..Len(c)
            BY <1>1
        <3>2. c[k + 1] \in Int
            BY <3>1, ElementOfSeq
        <3> QED
            BY <1>4, <2>1, <3>1, <3>2, SMTT(30)
    <2> DEFINE n == k - Len(c)
    <2>3. /\ n \in Nat /\ n < Len(a) /\ n < Len(b)
          /\ n + 1 \in 1..Len(a) /\ n + 1 \in 1..Len(b) /\ Len(c) + (n + 1) = k + 1
        BY <1>1, <1>4, <2>1, <2>2
    <2>4. a[n + 1] < b[n + 1]
        <3> HIDE DEF n
        <3>1. ca[Len(c) + (n + 1)] = a[n + 1] /\ cb[Len(c) + (n + 1)] = b[n + 1]
            BY <1>4, <2>3
        <3>2. ca[k + 1] = a[n + 1] /\ cb[k + 1] = b[n + 1]
            BY <2>3, <3>1, Zenon
        <3> QED
            BY <2>1, <3>2, Zenon
    <2>5. ASSUME NEW i \in 1..n PROVE a[i] = b[i]
        <3>1. Len(c) + i \in 1..k /\ i \in 1..Len(a) /\ i \in 1..Len(b)
            BY <1>1, <2>3
        <3> QED
            BY <1>4, <2>1, <3>1
    <2> QED
        BY <2>3, <2>4, <2>5 DEF Below
<1>9. Len(ca) < Len(cb) <=> Len(a) < Len(b)
    BY <1>1, <1>4
<1>10. Less(ca, cb) <=> Less(a, b)
    BY <1>4, <1>5, <1>6, <1>7, <1>8, <1>9, LessIs
<1>11. ASSUME ca = cb PROVE a = b
    <2>1. Len(a) = Len(b) /\ \A i \in 1..Len(a) : a[i] = b[i]
        BY <1>1, <1>4, <1>11
    <2> QED
        BY <2>1, SeqEqual
<1> QED
    BY <1>5, <1>6, <1>7, <1>8, <1>10, <1>11 DEF ca, cb

LEMMA IsPrefixIs ==
    ASSUME NEW p \in Seq(Int), NEW x \in Seq(Int)
    PROVE  IsPrefix(p, x) <=> Starts(p, x)
<1>1. Len(p) \in Nat /\ Len(x) \in Nat /\ SubSeq(p, 1, Len(p)) = p
    OBVIOUS
<1>2. ASSUME Len(p) <= Len(x) PROVE SubSeq(x, 1, Len(p)) = p <=> \A i \in 1..Len(p) : p[i] = x[i]
    <2> DEFINE y == SubSeq(x, 1, Len(p))
    <2>1. y \in Seq(Int) /\ Len(y) = Len(p) /\ \A i \in 1..Len(p) : y[i] = x[i]
        BY <1>1, <1>2
    <2> HIDE DEF y
    <2>2. (\A i \in 1..Len(p) : p[i] = x[i]) => y = p
        <3> SUFFICES ASSUME \A i \in 1..Len(p) : p[i] = x[i] PROVE y = p
            OBVIOUS
        <3>1. \A i \in 1..Len(y) : y[i] = p[i]
            BY <2>1
        <3> QED
            BY <2>1, <3>1, SeqEqual
    <2>3. y = p => \A i \in 1..Len(p) : p[i] = x[i]
        BY <2>1
    <2> QED
        BY <2>2, <2>3 DEF y
<1> QED
    BY <1>1, <1>2 DEF IsPrefix, Starts

\* Strings of one length are ordered at a byte or are the same.
LEMMA SameLength ==
    ASSUME NEW a \in Seq(Int), NEW b \in Seq(Int), Len(a) = Len(b)
    PROVE  /\ Less(a, b) <=> Below(a, b)
           /\ Below(a, b) \/ Below(b, a) \/ a = b
<1>1. Len(a) \in Nat /\ ~(Len(a) < Len(b)) /\ ~(Len(b) < Len(a))
    OBVIOUS
<1> QED
    BY <1>1, LessIs, LessTotal

\* Any two strings: ordered at a byte, or one starts with the other.
LEMMA Compared ==
    ASSUME NEW a \in Seq(Int), NEW b \in Seq(Int)
    PROVE  \/ Below(a, b) \/ Below(b, a) \/ a = b
           \/ Starts(a, b) /\ Len(a) < Len(b)
           \/ Starts(b, a) /\ Len(b) < Len(a)
BY LessIs, LessTotal

LEMMA RestOf ==
    ASSUME NEW S \in SUBSET Int, NEW p \in Seq(S), NEW x \in Seq(S), Starts(p, x)
    PROVE  \E r \in Seq(S) : x = p \o r /\ Len(r) = Len(x) - Len(p)
<1> DEFINE r == SubSeq(x, Len(p) + 1, Len(x))
<1>1. Len(p) \in Nat /\ Len(x) \in Nat /\ Len(p) <= Len(x)
    BY DEF Starts
<1>2. /\ r \in Seq(S) /\ Len(r) = Len(x) - Len(p)
      /\ \A i \in 1..Len(r) : r[i] = x[Len(p) + i]
    BY <1>1
<1> HIDE DEF r
<1>3. p \o r \in Seq(S) /\ Len(p \o r) = Len(x)
    BY <1>1, <1>2
<1>4. ASSUME NEW i \in 1..Len(x) PROVE (p \o r)[i] = x[i]
    <2>1. CASE i <= Len(p)
        <3>1. (p \o r)[i] = p[i]
            BY <1>1, <1>2, <2>1
        <3>2. p[i] = x[i]
            BY <1>1, <2>1 DEF Starts
        <3> QED
            BY <3>1, <3>2, Zenon
    <2>2. CASE i > Len(p)
        <3>1. i - Len(p) \in 1..Len(r) /\ Len(p) + (i - Len(p)) = i
            BY <1>1, <1>2, <2>2
        <3>2. (p \o r)[i] = r[i - Len(p)]
            BY <1>1, <1>2, <2>2
        <3> QED
            BY <1>2, <3>1, <3>2
    <2>3. i <= Len(p) \/ i > Len(p)
        BY <1>1
    <2> QED
        BY <2>1, <2>2, <2>3, Zenon
<1>5. x = p \o r
    BY <1>3, <1>4, SeqEqual
<1> QED
    BY <1>2, <1>5

\* Where one string is below another: what they share, and the two bytes.
Parts(a, b, S) ==
    \E c, x, y \in Seq(S) : \E u, w \in S :
        a = c \o (<<u>> \o x) /\ b = c \o (<<w>> \o y) /\ u < w

LEMMA Parted ==
    ASSUME NEW S \in SUBSET Int, NEW a \in Seq(S), NEW b \in Seq(S), Below(a, b)
    PROVE  Parts(a, b, S)
<1>1. PICK n \in Nat : /\ n < Len(a) /\ n < Len(b)
                       /\ \A i \in 1..n : a[i] = b[i]
                       /\ a[n + 1] < b[n + 1]
    BY DEF Below
<1>2. Len(a) \in Nat /\ Len(b) \in Nat /\ n + 1 \in 1..Len(a) /\ n + 1 \in 1..Len(b)
    BY <1>1
<1>3. a[n + 1] \in S /\ b[n + 1] \in S
    BY <1>2, ElementOfSeq
<1> DEFINE c == SubSeq(a, 1, n)
           u == a[n + 1]
           w == b[n + 1]
<1>4. c \in Seq(S) /\ Len(c) = n /\ \A i \in 1..n : c[i] = a[i]
    BY <1>1, <1>2
<1>5. u \in S /\ w \in S /\ u < w /\ <<u>> \in Seq(S) /\ <<w>> \in Seq(S)
    BY <1>1, <1>3
<1>6. u = a[n + 1] /\ w = b[n + 1]
    OBVIOUS
<1> HIDE DEF c, u, w
<1>7. c \o <<u>> \in Seq(S) /\ c \o <<w>> \in Seq(S)
    BY <1>4, <1>5
<1>8. Starts(c \o <<u>>, a)
    BY <1>2, <1>4, <1>5, <1>6 DEF Starts
<1>9. Starts(c \o <<w>>, b)
    BY <1>1, <1>2, <1>4, <1>5, <1>6 DEF Starts
<1>10. PICK x \in Seq(S) : a = (c \o <<u>>) \o x
    BY <1>7, <1>8, RestOf
<1>11. PICK y \in Seq(S) : b = (c \o <<w>>) \o y
    BY <1>7, <1>9, RestOf
<1>12. a = c \o (<<u>> \o x) /\ b = c \o (<<w>> \o y)
    BY <1>4, <1>5, <1>10, <1>11, ConcatAssociative, SMTT(30)
<1> QED
    BY <1>4, <1>5, <1>12 DEF Parts

\* A zero byte more makes the smallest string above y.
LEMMA NextString ==
    ASSUME NEW x \in Seq(Nat), NEW y \in Seq(Nat)
    PROVE  Less(x, y \o <<0>>) <=> AtMost(x, y)
<1> DEFINE z == y \o <<0>>
<1>1. Len(x) \in Nat /\ Len(y) \in Nat
    OBVIOUS
<1>2. /\ z \in Seq(Int) /\ x \in Seq(Int) /\ y \in Seq(Int) /\ Len(z) = Len(y) + 1
      /\ \A i \in 1..Len(y) : z[i] = y[i]
      /\ z[Len(y) + 1] = 0
    OBVIOUS
<1> HIDE DEF z
<1>3. ASSUME Less(x, z) PROVE AtMost(x, y)
    <2>1. PICK n \in 0..Len(x) : /\ n < Len(z) /\ \A i \in 1..n : x[i] = z[i]
                                 /\ n = Len(x) \/ x[n + 1] < z[n + 1]
        BY <1>3 DEF Less
    <2>2. CASE n < Len(y)
        <3>1. \A i \in 1..n : x[i] = y[i]
            BY <1>1, <1>2, <2>1, <2>2
        <3>2. n = Len(x) \/ x[n + 1] < y[n + 1]
            BY <1>1, <1>2, <2>1, <2>2, SMTT(30)
        <3>3. Less(x, y)
            BY <2>1, <2>2, <3>1, <3>2 DEF Less
        <3> QED
            BY <3>3 DEF AtMost
    <2>3. CASE n = Len(y)
        <3>1. n = Len(x)
            <4> SUFFICES ASSUME n # Len(x) PROVE FALSE
                OBVIOUS
            <4>1. n + 1 \in 1..Len(x)
                BY <1>1, <2>1
            <4>2. x[n + 1] \in Nat
                BY <4>1, ElementOfSeq
            <4>3. x[n + 1] < 0
                BY <1>2, <2>1, <2>3
            <4> QED
                BY <4>2, <4>3
        <3>2. \A i \in 1..Len(x) : x[i] = y[i]
            BY <1>2, <2>1, <2>3, <3>1
        <3>3. x = y
            BY <2>3, <3>1, <3>2, SeqEqual
        <3> QED
            BY <3>3 DEF AtMost
    <2> QED
        BY <1>1, <1>2, <2>1, <2>2, <2>3
<1>4. Less(y, z)
    <2>1. Starts(y, z) /\ Len(y) < Len(z)
        BY <1>1, <1>2 DEF Starts
    <2> QED
        BY <1>2, <2>1, LessIs
<1>5. ASSUME AtMost(x, y) PROVE Less(x, z)
    BY <1>2, <1>4, <1>5, LessTransitive DEF AtMost
<1> QED
    BY <1>3, <1>5 DEF z

-----------------------------------------------------------------------------
(***************************************************************************)
(* Scans by prefix: [prefix, prefixEnd) holds what starts with the prefix. *)
(***************************************************************************)
Strings == Seq(0..MaxByte)

LEMMA StringsAre ==
    /\ MaxByte \in Nat /\ Strings \subseteq Seq(Int) /\ Strings \subseteq Seq(Nat)
    /\ <<>> \in Strings /\ None \notin Strings
    /\ \A s, t \in Strings : s \o t \in Strings
    /\ \A b \in 0..MaxByte : <<b>> \in Strings
BY EncodingsAssumption DEF Strings

Regroups(a, b, c) == (a \o b) \o c = a \o (b \o c)

LEMMA JoinedTwice == \A a, b, c \in Strings : Regroups(a, b, c)
BY ConcatAssociative DEF Strings, Regroups

LEMMA PrefixIs ==
    ASSUME NEW x \in Strings, NEW p \in Strings
    PROVE  InPrefix(x, p) <=> Starts(p, x)
<1>1. /\ MaxByte \in Nat /\ x \in Seq(Int) /\ p \in Seq(Int) /\ p # None
      /\ Len(x) \in Nat /\ Len(p) \in Nat
    BY StringsAre
<1>2. /\ \A i \in 1..Len(x) : x[i] \in 0..MaxByte
      /\ \A i \in 1..Len(p) : p[i] \in 0..MaxByte
    BY ElementOfSeq DEF Strings
<1> DEFINE below == {i \in 1..Len(p) : p[i] # MaxByte}
           end == prefixEnd(p, MaxByte, None)
<1>3. InPrefix(x, p) <=> AtMost(p, x) /\ (end = None \/ Less(x, end))
    BY <1>1 DEF InPrefix, InRange
<1>4. AtMost(p, x) => ~Less(x, p)
    BY <1>1, LessTransitive, LessIrreflexive DEF AtMost
<1>5. Starts(p, x) => AtMost(p, x)
    <2> SUFFICES ASSUME Starts(p, x) PROVE AtMost(p, x)
        OBVIOUS
    <2>1. CASE Len(p) = Len(x)
        BY <2>1, SeqEqual DEF Starts, AtMost, Strings
    <2>2. CASE Len(p) # Len(x)
        <3>1. Len(p) < Len(x)
            BY <1>1, <2>2 DEF Starts
        <3> QED
            BY <1>1, <3>1, LessIs DEF AtMost
    <2> QED
        BY <2>1, <2>2
\* Only bytes at their maximum can follow where p and x part.
<1>6. ASSUME AtMost(p, x), NEW k \in 0..Len(p), k <= Len(x), \A i \in 1..k : p[i] = x[i],
             \A i \in 1..Len(p) : i > k => p[i] = MaxByte
      PROVE  Starts(p, x)
    <2>1. CASE p = x
        BY <1>1, <2>1 DEF Starts
    <2>2. CASE Less(p, x)
        <3>1. PICK n \in 0..Len(p) : /\ n < Len(x) /\ \A i \in 1..n : p[i] = x[i]
                                     /\ n = Len(p) \/ p[n + 1] < x[n + 1]
            BY <2>2 DEF Less
        <3>2. n = Len(p)
            <4> SUFFICES ASSUME n # Len(p) PROVE FALSE
                OBVIOUS
            <4>1. n + 1 \in 1..Len(p) /\ n + 1 \in 1..Len(x)
                BY <1>1, <3>1
            <4>2. p[n + 1] \in 0..MaxByte /\ x[n + 1] \in 0..MaxByte /\ p[n + 1] < x[n + 1]
                BY <1>2, <3>1, <4>1
            <4>3. CASE n + 1 <= k
                BY <1>1, <1>6, <4>1, <4>2, <4>3
            <4>4. CASE n + 1 > k
                BY <1>1, <1>6, <4>1, <4>2, <4>4
            <4> QED
                BY <1>1, <3>1, <4>3, <4>4
        <3> QED
            BY <1>1, <3>1, <3>2 DEF Starts
    <2> QED
        BY <1>6, <2>1, <2>2 DEF AtMost
<1>7. CASE below = {}
    <2>1. end = None
        BY <1>7 DEF prefixEnd
    <2>2. AtMost(p, x) => Starts(p, x)
        <3> SUFFICES ASSUME AtMost(p, x) PROVE Starts(p, x)
            OBVIOUS
        <3>1. 0 \in 0..Len(p) /\ 0 <= Len(x) /\ \A i \in 1..0 : p[i] = x[i]
            BY <1>1
        <3>2. \A i \in 1..Len(p) : i > 0 => p[i] = MaxByte
            BY <1>7
        <3> HIDE DEF below, end
        <3> QED
            BY <1>6, <3>1, <3>2
    <2> QED
        BY <1>3, <1>5, <2>1, <2>2
<1>8. CASE below # {}
    <2> DEFINE last == CHOOSE i \in below : \A j \in below : j <= i
    <2>1. last \in below /\ \A j \in below : j <= last
        <3> DEFINE Mirror == {Len(p) - i : i \in below}
        <3>1. Mirror \in SUBSET Nat /\ Mirror # {}
            BY <1>1, <1>8
        <3>2. PICK m \in Mirror : \A j \in Mirror : m <= j
            <4> HIDE DEF Mirror
            <4> QED
                BY <3>1, LeastNumber
        <3>3. PICK i \in below : m = Len(p) - i
            BY <3>2
        <3>4. ASSUME NEW j \in below PROVE j <= i
            <4>1. Len(p) - j \in Mirror
                OBVIOUS
            <4>2. m <= Len(p) - j
                <5> HIDE DEF Mirror, below
                <5> QED
                    BY <3>2, <4>1
            <4> QED
                BY <1>1, <3>3, <4>2
        <3> HIDE DEF below, Mirror
        <3> QED
            BY <3>3, <3>4
    <2> DEFINE z == [SubSeq(p, 1, last) EXCEPT ![last] = @ + 1]
    <2>2. end = z
        <3>1. end = [SubSeq(p, 1, last) EXCEPT ![last] = @ + 1]
            BY <1>8 DEF prefixEnd
        <3> QED
            BY <3>1
    <2>3. last \in 1..Len(p) /\ p[last] # MaxByte /\ \A i \in 1..Len(p) : i > last => p[i] = MaxByte
        <3>1. last \in 1..Len(p) /\ p[last] # MaxByte
            BY <2>1
        <3>2. ASSUME NEW i \in 1..Len(p), i > last PROVE p[i] = MaxByte
            <4>1. i \notin below
                <5> HIDE DEF below, last
                <5> QED
                    BY <1>1, <2>1, <3>1, <3>2
            <4> QED
                BY <4>1
        <3> QED
            BY <3>1, <3>2
    <2> HIDE DEF last, below, end
    <2>4. /\ SubSeq(p, 1, last) \in Strings /\ Len(SubSeq(p, 1, last)) = last
          /\ \A i \in 1..last : SubSeq(p, 1, last)[i] = p[i]
        BY <1>1, <2>3 DEF Strings
    <2>5. p[last] + 1 \in 0..MaxByte
        BY <1>1, <1>2, <2>3
    <2>6. z = [SubSeq(p, 1, last) EXCEPT ![last] = p[last] + 1]
        BY <2>3, <2>4
    <2>7. /\ z \in Strings /\ Len(z) = last /\ z[last] = p[last] + 1
          /\ \A i \in 1..last : i # last => z[i] = p[i]
        <3> HIDE DEF z
        <3>1. last \in 1..Len(SubSeq(p, 1, last))
            BY <2>3, <2>4
        <3> DEFINE head == SubSeq(p, 1, last)
        <3>2. head \in Seq(0..MaxByte) /\ last \in 1..Len(head) /\ z = [head EXCEPT ![last] = p[last] + 1]
            BY <2>4, <2>6, <3>1 DEF Strings
        <3>3. Len(head) = last /\ \A i \in 1..last : head[i] = p[i]
            BY <2>4
        <3> HIDE DEF head
        <3>4. /\ z \in Seq(0..MaxByte) /\ Len(z) = Len(head)
              /\ \A j \in 1..Len(head) : z[j] = IF j = last THEN p[last] + 1 ELSE head[j]
            BY <2>5, <3>2, ExceptSeq
        <3> QED
            BY <3>2, <3>3, <3>4 DEF Strings
    <2> HIDE DEF z
    <2>8. z # None /\ z \in Seq(Int)
        BY <2>7, StringsAre
    <2>9. ASSUME AtMost(p, x), Less(x, z) PROVE Starts(p, x)
        <3>1. PICK m \in 0..Len(x) : /\ m < Len(z) /\ \A i \in 1..m : x[i] = z[i]
                                     /\ m = Len(x) \/ x[m + 1] < z[m + 1]
            BY <2>9 DEF Less
        <3>2. \A i \in 1..m : x[i] = p[i]
            BY <1>1, <2>3, <2>7, <3>1
        <3>3. m < Len(p)
            BY <1>1, <2>3, <2>7, <3>1
        <3>4. m # Len(x) /\ ~(x[m + 1] < p[m + 1])
            <4>1. ~Less(x, p)
                BY <1>4, <2>9
            <4> QED
                BY <3>1, <3>2, <3>3, <4>1 DEF Less
        <3>5. m + 1 \in 1..Len(x) /\ m + 1 \in 1..Len(p) /\ m + 1 \in 1..last
            BY <1>1, <2>3, <2>7, <3>1, <3>3, <3>4
        <3>6. x[m + 1] \in 0..MaxByte /\ p[m + 1] \in 0..MaxByte /\ x[m + 1] < z[m + 1]
            BY <1>2, <3>1, <3>4, <3>5
        <3>7. m + 1 = last
            BY <2>7, <3>4, <3>5, <3>6
        <3>8. x[m + 1] = p[m + 1]
            BY <1>1, <2>7, <3>4, <3>6, <3>7
        <3>9. last \in 0..Len(p) /\ last <= Len(x) /\ \A i \in 1..last : p[i] = x[i]
            BY <1>1, <2>3, <3>1, <3>2, <3>5, <3>7, <3>8, SMTT(30)
        <3> QED
            BY <1>6, <2>3, <2>9, <3>9
    <2>10. ASSUME Starts(p, x) PROVE Less(x, z)
        <3>1. last - 1 \in Nat /\ last - 1 < Len(x) /\ last - 1 < Len(z) /\ last \in 1..Len(x)
            BY <1>1, <2>3, <2>7, <2>10 DEF Starts
        <3>2. ASSUME NEW i \in 1..(last - 1) PROVE x[i] = z[i]
            <4>1. i \in 1..last /\ i # last /\ i \in 1..Len(p)
                BY <1>1, <2>3
            <4>2. z[i] = p[i]
                BY <2>7, <4>1
            <4>3. p[i] = x[i]
                BY <2>10, <4>1 DEF Starts
            <4> QED
                BY <4>2, <4>3
        <3>3. x[last] = p[last] /\ p[last] \in 0..MaxByte
            BY <1>2, <2>3, <2>10 DEF Starts
        <3>4. x[(last - 1) + 1] < z[(last - 1) + 1]
            <4>1. (last - 1) + 1 = last
                BY <2>3
            <4>2. x[last] < z[last]
                BY <1>1, <2>7, <3>3
            <4> QED
                BY <4>1, <4>2, Zenon
        <3>5. Below(x, z)
            BY <3>1, <3>2, <3>4 DEF Below
        <3> QED
            BY <1>1, <2>8, <3>5, LessIs
    <2> QED
        BY <1>3, <1>5, <2>2, <2>8, <2>9, <2>10
<1> QED
    BY <1>7, <1>8

-----------------------------------------------------------------------------
(***************************************************************************)
(* Numbers in big endian.                                                  *)
(***************************************************************************)
IsPower(f, b, n) == f = [k \in 0..n |-> IF k = 0 THEN 1 ELSE b * f[k - 1]]

LEMMA PowerExists ==
    ASSUME NEW b \in Nat, NEW n \in Nat
    PROVE  \E f \in [0..n -> Nat] : IsPower(f, b, n)
<1> DEFINE h == [k \in 0..n |-> [f \in [0..n -> Nat] |-> IF k = 0 THEN 1 ELSE b * f[k - 1]]]
<1>1. \A k \in 0..n : k # 0 => k - 1 \in 0..n /\ k - 1 < k
    OBVIOUS
<1>2. \A k \in 0..n : \A f \in [0..n -> Nat] :
            /\ h[k][f] = IF k = 0 THEN 1 ELSE b * f[k - 1]
            /\ h[k][f] \in Nat
    BY <1>1
<1>3. h \in [0..n -> [[0..n -> Nat] -> Nat]]
    BY <1>1
<1> HIDE DEF h
<1>4. \A k \in 0..n : \A f, g \in [0..n -> Nat] :
            (\A j \in 0..n : j < k => f[j] = g[j]) => h[k][f] = h[k][g]
    BY <1>1, <1>2
<1>5. PICK f \in [0..n -> Nat] : Follows(f, h, n)
    <2>1. 1 \in Nat
        OBVIOUS
    <2>2. Recurs(h, Nat, n)
        BY <1>3, <1>4 DEF Recurs
    <2> QED
        BY <2>1, <2>2, Recursion, Zenon
<1>6. f = [k \in 0..n |-> IF k = 0 THEN 1 ELSE b * f[k - 1]]
    BY <1>2, <1>5 DEF Follows
<1> QED
    BY <1>6 DEF IsPower

LEMMA PowerIs ==
    ASSUME NEW b \in Nat, NEW n \in Nat
    PROVE  \E f \in [0..n -> Nat] : IsPower(f, b, n) /\ Power(b, n) = f[n]
<1> DEFINE f == CHOOSE f : IsPower(f, b, n)
<1>1. IsPower(f, b, n)
    BY PowerExists
<1>2. Power(b, n) = f[n]
    BY DEF Power, IsPower
<1> HIDE DEF f
<1>3. PICK g \in [0..n -> Nat] : IsPower(g, b, n)
    BY PowerExists
<1>4. \A k \in 0..n : f[k] = g[k]
    <2>1. f[0] = g[0]
        BY <1>1, <1>3 DEF IsPower
    <2>2. \A k \in 1..n : f[k - 1] = g[k - 1] => f[k] = g[k]
        BY <1>1, <1>3 DEF IsPower
    <2>3. GoOnAlike(f, g, n)
        BY <2>1, <2>2 DEF GoOnAlike
    <2>4. Alike(f, g, n)
        BY <2>3, Agreement, Zenon
    <2> QED
        BY <2>4 DEF Alike
<1>5. f = g
    BY <1>1, <1>4 DEF IsPower
<1> QED
    BY <1>1, <1>2, <1>3, <1>5

LEMMA PowerStep ==
    ASSUME NEW b \in Nat, NEW n \in Nat
    PROVE  /\ Power(b, 0) = 1 /\ Power(b, n) \in Nat
           /\ Power(b, n + 1) = b * Power(b, n)
<1>1. PICK f \in [0..n -> Nat] : IsPower(f, b, n) /\ Power(b, n) = f[n]
    BY PowerIs
<1>2. PICK g \in [0..(n + 1) -> Nat] : IsPower(g, b, n + 1) /\ Power(b, n + 1) = g[n + 1]
    <2>1. n + 1 \in Nat
        OBVIOUS
    <2> QED
        BY <2>1, PowerIs, Zenon
<1>3. PICK z \in [0..0 -> Nat] : IsPower(z, b, 0) /\ Power(b, 0) = z[0]
    BY PowerIs
<1>4. Power(b, 0) = 1
    BY <1>3 DEF IsPower
<1>5. \A k \in 0..n : f[k] = g[k]
    <2>1. f[0] = g[0]
        BY <1>1, <1>2 DEF IsPower
    <2>2. \A k \in 1..n : f[k - 1] = g[k - 1] => f[k] = g[k]
        BY <1>1, <1>2 DEF IsPower
    <2>3. GoOnAlike(f, g, n)
        BY <2>1, <2>2 DEF GoOnAlike
    <2>4. Alike(f, g, n)
        BY <2>3, Agreement, Zenon
    <2> QED
        BY <2>4 DEF Alike
<1>6. g[n + 1] = b * g[n]
    BY <1>2 DEF IsPower
<1> QED
    BY <1>1, <1>2, <1>4, <1>5, <1>6

LEMMA PowerPositive ==
    ASSUME NEW b \in Nat \ {0}
    PROVE  \A n \in Nat : Power(b, n) \in Nat \ {0}
<1> DEFINE S == {n \in Nat : Power(b, n) \in Nat \ {0}}
<1>1. 0 \in S
    BY PowerStep
<1>2. ASSUME NEW n \in Nat, n \in S PROVE n + 1 \in S
    <2>1. Power(b, n) \in Nat \ {0} /\ Power(b, n + 1) = b * Power(b, n)
        BY <1>2, PowerStep
    <2>2. \A x, y \in Nat \ {0} : x * y \in Nat \ {0}
        OBVIOUS
    <2> QED
        BY <2>1, <2>2
<1>3. \A n \in Nat : n \in S
    <2> HIDE DEF S
    <2> QED
        BY <1>1, <1>2, Induction
<1> QED
    BY <1>3

LEMMA Divided ==
    ASSUME NEW d \in Nat \ {0}, NEW v \in Nat
    PROVE  v \div d \in Nat /\ v % d \in 0..(d - 1) /\ v = d * (v \div d) + (v % d)
<1>1. d \in Nat /\ d > 0
    OBVIOUS
<1>2. v \div d \in Nat /\ v % d \in 0..(d - 1)
    BY <1>1
<1>3. v = d * (v \div d) + (v % d)
    BY <1>1
<1> QED
    BY <1>2, <1>3

LEMMA QuotientIs ==
    ASSUME NEW d \in Nat \ {0}, NEW q \in Nat, NEW r \in 0..(d - 1)
    PROVE  (d * q + r) \div d = q /\ (d * q + r) % d = r
OBVIOUS

LEMMA DividedTwice ==
    ASSUME NEW a \in Nat \ {0}, NEW b \in Nat \ {0}, NEW v \in Nat
    PROVE  v \div (a * b) = (v \div a) \div b
<1> DEFINE x == v \div a
           r == v % a
           q == x \div b
           s == x % b
<1>1. x \in Nat /\ r \in 0..(a - 1) /\ v = a * x + r
    BY Divided
<1> HIDE DEF x, r
<1>2. q \in Nat /\ s \in 0..(b - 1) /\ x = b * q + s
    BY <1>1, Divided
<1> HIDE DEF q, s
<1>3. a * b \in Nat \ {0}
    OBVIOUS
<1>4. v = (a * b) * q + (a * s + r)
    <2>1. a * (b * q + s) = (a * b) * q + a * s
        BY <1>2
    <2>2. a * s \in Nat /\ (a * b) * q \in Nat
        BY <1>2
    <2> QED
        BY <1>1, <1>2, <2>1, <2>2
<1>5. a * s + r \in 0..(a * b - 1)
    <2>1. a * s + a <= a * b
        <3>1. s + 1 <= b
            BY <1>2
        <3>2. a * (s + 1) <= a * b /\ a * (s + 1) = a * s + a
            BY <1>2, <3>1
        <3> QED
            BY <3>2
    <2>2. a * s \in Nat /\ r \in Nat /\ r < a
        BY <1>1, <1>2
    <2> QED
        BY <1>3, <2>1, <2>2
<1>6. v \div (a * b) = q
    BY <1>2, <1>3, <1>4, <1>5, QuotientIs
<1> QED
    BY <1>6 DEF q, x

Base == MaxByte + 1

LEMMA BaseIs == MaxByte \in Nat /\ Base \in Nat \ {0} /\ Base - 1 = MaxByte
BY EncodingsAssumption DEF Base

LEMMA BigEndianIs ==
    ASSUME NEW v \in Nat, NEW n \in Nat
    PROVE  /\ BigEndian(v, n, MaxByte) \in Strings
           /\ Len(BigEndian(v, n, MaxByte)) = n
           /\ \A i \in 1..n : BigEndian(v, n, MaxByte)[i] = (v \div Power(Base, n - i)) % Base
<1>1. ASSUME NEW i \in 1..n PROVE (v \div Power(Base, n - i)) % Base \in 0..MaxByte
    <2>1. n - i \in Nat
        OBVIOUS
    <2>2. Power(Base, n - i) \in Nat \ {0}
        BY <2>1, BaseIs, PowerPositive
    <2>3. v \div Power(Base, n - i) \in Nat
        BY <2>2, Divided
    <2> QED
        BY <2>3, BaseIs, Divided
<1>2. BigEndian(v, n, MaxByte) = [i \in 1..n |-> (v \div Power(Base, n - i)) % Base]
    BY DEF BigEndian, Base
<1> DEFINE f == [i \in 1..n |-> (v \div Power(Base, n - i)) % Base]
<1>3. /\ f \in [1..n -> 0..MaxByte]
      /\ \A i \in 1..n : f[i] = (v \div Power(Base, n - i)) % Base
    BY <1>1
<1> HIDE DEF f
<1>4. f \in Seq(0..MaxByte) /\ Len(f) = n
    <2>1. f \in Seq(0..MaxByte)
        BY <1>3, SeqDef
    <2>2. DOMAIN f = 1..n /\ DOMAIN f = 1..Len(f) /\ Len(f) \in Nat
        BY <1>3, <2>1, LenProperties
    <2> QED
        BY <2>1, <2>2
<1> QED
    BY <1>2, <1>3, <1>4 DEF f, Strings

\* The last byte is the remainder, the ones before it are those of the quotient.
LEMMA BigEndianStep ==
    ASSUME NEW v \in Nat, NEW n \in Nat
    PROVE  BigEndian(v, n + 1, MaxByte) = BigEndian(v \div Base, n, MaxByte) \o <<v % Base>>
<1> DEFINE q == v \div Base
           whole == BigEndian(v, n + 1, MaxByte)
           front == BigEndian(q, n, MaxByte)
<1>1. q \in Nat /\ v % Base \in 0..MaxByte /\ n + 1 \in Nat
    BY BaseIs, Divided
<1>2. /\ whole \in Strings /\ Len(whole) = n + 1
      /\ \A i \in 1..(n + 1) : whole[i] = (v \div Power(Base, (n + 1) - i)) % Base
    BY <1>1, BigEndianIs
<1> HIDE DEF q
<1>3. /\ front \in Strings /\ Len(front) = n
      /\ \A i \in 1..n : front[i] = (q \div Power(Base, n - i)) % Base
    BY <1>1, BigEndianIs
<1> HIDE DEF whole, front
<1>4. front \o <<v % Base>> \in Strings /\ Len(front \o <<v % Base>>) = n + 1
    BY <1>1, <1>3, StringsAre DEF Strings
<1>5. ASSUME NEW i \in 1..(n + 1) PROVE whole[i] = (front \o <<v % Base>>)[i]
    <2>1. CASE i = n + 1
        <3>1. (front \o <<v % Base>>)[i] = v % Base
            BY <1>1, <1>3, <2>1 DEF Strings
        <3>2. (n + 1) - i = 0
            BY <2>1
        <3>3. whole[i] = (v \div 1) % Base
            BY <1>2, <3>2, BaseIs, PowerStep, ZenonT(30)
        <3>4. v \div 1 = v
            OBVIOUS
        <3> QED
            BY <3>1, <3>3, <3>4
    <2>2. CASE i # n + 1
        <3>1. i \in 1..n /\ n - i \in Nat /\ (n + 1) - i = (n - i) + 1
            BY <2>2
        <3>2. (front \o <<v % Base>>)[i] = front[i]
            BY <1>1, <1>3, <3>1 DEF Strings
        <3>3. Power(Base, (n + 1) - i) = Base * Power(Base, n - i) /\ Power(Base, n - i) \in Nat \ {0}
            BY <3>1, BaseIs, PowerStep, PowerPositive
        <3>4. v \div Power(Base, (n + 1) - i) = q \div Power(Base, n - i)
            BY <3>3, BaseIs, DividedTwice DEF q
        <3> QED
            BY <1>2, <1>3, <3>1, <3>2, <3>4
    <2> QED
        BY <2>1, <2>2
<1>6. whole = front \o <<v % Base>>
    BY <1>2, <1>4, <1>5, SeqEqual DEF Strings
<1> QED
    BY <1>6 DEF whole, front, q

LEMMA Words ==
    ASSUME NEW n \in Nat, NEW v \in Nat
    PROVE  v < Power(Base, n + 1) => v \div Base < Power(Base, n)
<1> SUFFICES ASSUME v < Power(Base, n + 1) PROVE v \div Base < Power(Base, n)
    OBVIOUS
<1> DEFINE q == v \div Base
           p == Power(Base, n)
<1>1. q \in Nat /\ v % Base \in 0..(Base - 1) /\ v = Base * q + (v % Base)
    BY BaseIs, Divided
<1>2. p \in Nat /\ v < Base * p
    BY BaseIs, PowerStep
<1> HIDE DEF q, p
<1>3. Base * q < Base * p
    <2>1. Base * q \in Nat /\ Base * p \in Nat /\ v % Base \in Nat
        BY <1>1, <1>2, BaseIs
    <2> QED
        BY <1>1, <1>2, <2>1
<1>4. q < p
    <2>1. \A b, x, y \in Nat : x <= y => b * x <= b * y
        OBVIOUS
    <2>2. Base * p \in Nat /\ Base * q \in Nat
        BY <1>1, <1>2, BaseIs
    <2>3. p <= q => Base * p <= Base * q
        BY <1>1, <1>2, <2>1, BaseIs
    <2> QED
        BY <1>1, <1>2, <1>3, <2>2, <2>3
<1> QED
    BY <1>4 DEF q, p

\* Numbers of one width sort as their bytes do.
InOrder(n) ==
    \A v, w \in Nat : v < w /\ w < Power(Base, n) =>
        Below(BigEndian(v, n, MaxByte), BigEndian(w, n, MaxByte))

LEMMA BigEndianInOrder == \A n \in Nat : InOrder(n)
<1> DEFINE S == {n \in Nat : InOrder(n)}
<1>1. 0 \in S
    BY BaseIs, PowerStep DEF InOrder
<1>2. ASSUME NEW n \in Nat, n \in S PROVE n + 1 \in S
    <2>1. InOrder(n)
        BY <1>2
    <2>2. ASSUME NEW v \in Nat, NEW w \in Nat, v < w, w < Power(Base, n + 1)
          PROVE  Below(BigEndian(v, n + 1, MaxByte), BigEndian(w, n + 1, MaxByte))
        <3> DEFINE q == v \div Base
                   r == v % Base
                   p == w \div Base
                   t == w % Base
        <3>1. q \in Nat /\ r \in 0..MaxByte /\ v = Base * q + r
            BY BaseIs, Divided
        <3>2. p \in Nat /\ t \in 0..MaxByte /\ w = Base * p + t
            BY BaseIs, Divided
        <3>3. p < Power(Base, n)
            BY <2>2, Words
        <3>4. /\ BigEndian(v, n + 1, MaxByte) = BigEndian(q, n, MaxByte) \o <<r>>
              /\ BigEndian(w, n + 1, MaxByte) = BigEndian(p, n, MaxByte) \o <<t>>
            BY BigEndianStep
        <3> HIDE DEF q, r, p, t
        <3>5. q < p \/ (q = p /\ r < t)
            <4>1. p < q => Base * p + Base <= Base * q
                <5>1. \A b, x, y \in Nat : x + 1 <= y => b * x + b <= b * y
                    OBVIOUS
                <5> QED
                    BY <3>1, <3>2, <5>1, BaseIs
            <4>2. Base * p \in Nat /\ Base * q \in Nat
                BY <3>1, <3>2, BaseIs
            <4>3. ~(p < q)
                BY <2>2, <3>1, <3>2, <4>1, <4>2, BaseIs
            <4>4. p = q => r < t
                BY <2>2, <3>1, <3>2, <4>2
            <4> QED
                BY <3>1, <3>2, <4>3, <4>4
        <3>6. /\ BigEndian(q, n, MaxByte) \in Seq(Int) /\ BigEndian(p, n, MaxByte) \in Seq(Int)
              /\ <<r>> \in Seq(Int) /\ <<t>> \in Seq(Int)
            BY <3>1, <3>2, BigEndianIs, StringsAre
        <3>7. CASE q < p
            <4>1. Below(BigEndian(q, n, MaxByte), BigEndian(p, n, MaxByte))
                BY <2>1, <3>1, <3>2, <3>3, <3>7 DEF InOrder
            <4>2. Below(BigEndian(q, n, MaxByte) \o <<r>>, BigEndian(p, n, MaxByte) \o <<t>>)
                BY <3>6, <4>1, BelowJoined
            <4> QED
                BY <3>4, <4>2, Zenon
        <3>8. CASE q = p /\ r < t
            <4>1. Below(<<r>>, <<t>>)
                <5>1. 0 \in Nat /\ 0 < Len(<<r>>) /\ 0 < Len(<<t>>) /\ \A i \in 1..0 : <<r>>[i] = <<t>>[i]
                    OBVIOUS
                <5>2. <<r>>[0 + 1] < <<t>>[0 + 1]
                    BY <3>8
                <5> QED
                    BY <5>1, <5>2 DEF Below
            <4>2. Below(BigEndian(q, n, MaxByte) \o <<r>>, BigEndian(q, n, MaxByte) \o <<t>>)
                BY <3>6, <4>1, CommonStart
            <4> QED
                BY <3>4, <3>8, <4>2, Zenon
        <3> QED
            BY <3>5, <3>7, <3>8
    <2>3. InOrder(n + 1)
        BY <2>2 DEF InOrder
    <2> QED
        BY <2>3
<1>3. \A n \in Nat : n \in S
    <2> HIDE DEF S
    <2> QED
        BY <1>1, <1>2, Induction
<1> QED
    BY <1>3

LEMMA VersionBytes ==
    /\ MaxVersion \in Nat /\ WordBytes \in Nat /\ MaxVersion = Power(Base, WordBytes) - 1
    /\ \A v \in 0..MaxVersion : encodeVersion(v) \in Strings /\ Len(encodeVersion(v)) = WordBytes
    /\ \A v, w \in 0..MaxVersion : v < w => Below(encodeVersion(v), encodeVersion(w))
<1>1. WordBytes \in Nat
    BY EncodingsAssumption
<1>2. Power(Base, WordBytes) \in Nat \ {0}
    BY <1>1, BaseIs, PowerPositive
<1>3. MaxVersion = Power(Base, WordBytes) - 1
    BY DEF MaxVersion, Base
<1>4. \A v \in 0..MaxVersion : v \in Nat /\ v < Power(Base, WordBytes)
    BY <1>2, <1>3
<1>5. \A v \in 0..MaxVersion : encodeVersion(v) \in Strings /\ Len(encodeVersion(v)) = WordBytes
    BY <1>1, <1>4, BigEndianIs DEF encodeVersion
<1>6. InOrder(WordBytes)
    BY <1>1, BigEndianInOrder
<1>7. \A v, w \in 0..MaxVersion : v < w => Below(encodeVersion(v), encodeVersion(w))
    BY <1>4, <1>6 DEF InOrder, encodeVersion
<1> QED
    BY <1>1, <1>2, <1>3, <1>5, <1>7

\* Versions have different bytes, and sort as their bytes do.
LEMMA VersionsCompare ==
    ASSUME NEW v \in 0..MaxVersion, NEW w \in 0..MaxVersion
    PROVE  /\ Less(encodeVersion(v), encodeVersion(w)) <=> v < w
           /\ encodeVersion(v) = encodeVersion(w) => v = w
           /\ Starts(encodeVersion(v), encodeVersion(w)) => v = w
<1>1. v \in Nat /\ w \in Nat /\ encodeVersion(v) \in Seq(Int) /\ encodeVersion(w) \in Seq(Int)
    BY VersionBytes, StringsAre
<1>2. CASE v < w
    <2>1. Below(encodeVersion(v), encodeVersion(w))
        BY <1>2, VersionBytes
    <2> QED
        BY <1>1, <1>2, <2>1, BelowApart
<1>3. CASE w < v
    <2>1. Below(encodeVersion(w), encodeVersion(v))
        BY <1>3, VersionBytes
    <2> QED
        BY <1>1, <1>3, <2>1, BelowApart
<1>4. CASE v = w
    BY <1>1, <1>4, LessIrreflexive
<1> QED
    BY <1>1, <1>2, <1>3, <1>4

-----------------------------------------------------------------------------
(***************************************************************************)
(* Raw keys and their escapes.                                             *)
(***************************************************************************)
EscapedByte(b) == IF b = 0 THEN <<0, MaxByte>> ELSE <<b>>

LEMMA EscapedByteIs ==
    ASSUME NEW b \in 0..MaxByte
    PROVE  /\ EscapedByte(b) \in Strings /\ EscapedByte(b)[1] = b
           /\ Len(EscapedByte(b)) = IF b = 0 THEN 2 ELSE 1
           /\ b = 0 => EscapedByte(b) = <<0>> \o <<MaxByte>>
           /\ b # 0 => EscapedByte(b) = <<b>>
<1>1. MaxByte \in 0..MaxByte /\ 0 \in 0..MaxByte
    BY BaseIs
<1>2. CASE b = 0
    <2>1. EscapedByte(b) = <<0, MaxByte>> /\ <<0, MaxByte>> = <<0>> \o <<MaxByte>>
        BY <1>2 DEF EscapedByte
    <2>2. <<0, MaxByte>> \in Strings /\ <<0, MaxByte>>[1] = 0 /\ Len(<<0, MaxByte>>) = 2
        BY <1>1 DEF Strings
    <2> QED
        BY <1>2, <2>1, <2>2
<1>3. CASE b # 0
    BY <1>3 DEF EscapedByte, Strings
<1> QED
    BY <1>2, <1>3

\* f[n] are the escapes of the first n bytes of r.
Escapes(f, r) ==
    /\ f \in [0..Len(r) -> Strings] /\ f[0] = <<>>
    /\ \A n \in 1..Len(r) : f[n] = f[n - 1] \o EscapedByte(r[n])

LEMMA EscapesExist ==
    ASSUME NEW r \in Strings
    PROVE  \E f : Escapes(f, r)
<1> DEFINE m == Len(r)
           h == [n \in 0..m |-> [f \in [0..m -> Strings] |->
                    IF n = 0 THEN <<>> ELSE f[n - 1] \o EscapedByte(r[n])]]
<1>1. m \in Nat /\ m = Len(r)
    BY DEF Strings
<1>2. \A n \in 1..m : EscapedByte(r[n]) \in Strings
    BY EscapedByteIs, ElementOfSeq DEF Strings
<1> HIDE DEF m
<1>3. \A n \in 0..m : n # 0 => n - 1 \in 0..m /\ n - 1 < n /\ n \in 1..m
    BY <1>1
<1>4. \A n \in 0..m : \A f \in [0..m -> Strings] :
            IF n = 0 THEN h[n][f] = <<>>
            ELSE h[n][f] = f[n - 1] \o EscapedByte(r[n])
    OBVIOUS
<1>5. \A n \in 0..m : \A f \in [0..m -> Strings] :
            (IF n = 0 THEN <<>> ELSE f[n - 1] \o EscapedByte(r[n])) \in Strings
    BY <1>2, <1>3, StringsAre
<1>6. h \in [0..m -> [[0..m -> Strings] -> Strings]]
    BY <1>5
<1> HIDE DEF h
<1>7. Recurs(h, Strings, m)
    <2>1. \A n \in 0..m : \A f, g \in [0..m -> Strings] :
            (\A k \in 0..m : k < n => f[k] = g[k]) => h[n][f] = h[n][g]
        <3> SUFFICES ASSUME NEW n \in 0..m, NEW f \in [0..m -> Strings], NEW g \in [0..m -> Strings],
                            \A k \in 0..m : k < n => f[k] = g[k]
                     PROVE  h[n][f] = h[n][g]
            OBVIOUS
        <3>1. n # 0 => f[n - 1] = g[n - 1]
            BY <1>3
        <3> QED
            BY <1>4, <3>1
    <2> QED
        BY <1>6, <2>1 DEF Recurs
<1>8. PICK f \in [0..m -> Strings] : Follows(f, h, m)
    <2>1. <<>> \in Strings
        BY StringsAre
    <2> QED
        BY <1>1, <1>7, <2>1, Recursion, Zenon
<1>9. f[0] = <<>>
    BY <1>1, <1>4, <1>8 DEF Follows
<1>10. ASSUME NEW n \in 1..m PROVE f[n] = f[n - 1] \o EscapedByte(r[n])
    <2>1. n \in 0..m /\ n # 0
        BY <1>1
    <2> QED
        BY <1>4, <1>8, <2>1 DEF Follows
<1> QED
    BY <1>1, <1>8, <1>9, <1>10 DEF Escapes

LEMMA EscapedIs ==
    ASSUME NEW r \in Strings
    PROVE  \E f : Escapes(f, r) /\ EscapedRawKey(r) = f[Len(r)]
<1> DEFINE s == [i \in 1..Len(r) |-> IF r[i] = 0 THEN <<0, MaxByte>> ELSE <<r[i]>>]
           Flat(g) == g = [i \in 1..Len(s) |-> IF i = 1 THEN s[i] ELSE g[i - 1] \o s[i]]
           g == CHOOSE g : Flat(g)
<1>1. PICK f : Escapes(f, r)
    BY EscapesExist
<1>2. Len(r) \in Nat /\ f[0] = <<>> /\ f \in [0..Len(r) -> Strings]
    BY <1>1 DEF Escapes, Strings
<1>3. EscapedRawKey(r) = FlattenSeq(s)
    BY DEF EscapedRawKey
<1>4. Len(s) = Len(r) /\ \A i \in 1..Len(r) : s[i] = EscapedByte(r[i])
    BY <1>2 DEF EscapedByte
<1>5. FlattenSeq(s) = IF Len(s) = 0 THEN s ELSE g[Len(s)]
    BY DEF FlattenSeq
<1>6. Len(s) = 0 => s = <<>>
    BY <1>4
<1> HIDE DEF s
<1>7. CASE Len(r) = 0
    BY <1>1, <1>2, <1>3, <1>4, <1>5, <1>6, <1>7
<1>8. CASE Len(r) # 0
    <2> DEFINE f1 == [i \in 1..Len(r) |-> f[i]]
    <2>1. ASSUME NEW i \in 1..Len(r) PROVE f1[i] = IF i = 1 THEN s[i] ELSE f1[i - 1] \o s[i]
        <3>1. f1[i] = f[i - 1] \o s[i]
            BY <1>1, <1>4 DEF Escapes
        <3>2. CASE i = 1
            <4>1. f[i - 1] = <<>> /\ s[i] \in Strings
                <5>1. r[i] \in 0..MaxByte
                    BY ElementOfSeq DEF Strings
                <5>2. i - 1 = 0
                    BY <3>2
                <5> QED
                    BY <1>2, <1>4, <5>1, <5>2, EscapedByteIs
            <4>2. <<>> \o s[i] = s[i]
                BY <4>1 DEF Strings
            <4> QED
                BY <3>1, <3>2, <4>1, <4>2
        <3>3. CASE i # 1
            <4>1. i - 1 \in 1..Len(r)
                BY <1>2, <3>3
            <4>2. f1[i - 1] = f[i - 1]
                BY <4>1
            <4> QED
                BY <3>1, <3>3, <4>2
        <3> QED
            BY <3>2, <3>3
    <2>2. Flat(f1)
        <3>1. f1 = [i \in 1..Len(r) |-> f1[i]]
            OBVIOUS
        <3> HIDE DEF f1
        <3>2. f1 = [i \in 1..Len(r) |-> IF i = 1 THEN s[i] ELSE f1[i - 1] \o s[i]]
            BY <2>1, <3>1, Zenon
        <3> QED
            BY <1>4, <3>2
    <2>3. Flat(g)
        <3> HIDE DEF Flat, f1
        <3> QED
            BY <2>2
    <2> HIDE DEF g
    <2>4. \A i \in 1..Len(r) : g[i] = IF i = 1 THEN s[i] ELSE g[i - 1] \o s[i]
        BY <1>4, <2>3
    <2>5. \A i \in 1..Len(r) : g[i] = f[i]
        <3> DEFINE g0 == [i \in 0..Len(r) |-> IF i = 0 THEN <<>> ELSE g[i]]
        <3>1. g0[0] = f[0]
            BY <1>2
        <3>2. ASSUME NEW i \in 1..Len(r), g0[i - 1] = f[i - 1] PROVE g0[i] = f[i]
            <4>1. i \in 0..Len(r) /\ i # 0 /\ i - 1 \in 0..Len(r)
                BY <1>2
            <4>2. g0[i] = g[i] /\ g[i] = IF i = 1 THEN s[i] ELSE g[i - 1] \o s[i]
                BY <2>4, <4>1
            <4>3. f1[i] = f[i] /\ f1[i] = IF i = 1 THEN s[i] ELSE f1[i - 1] \o s[i]
                BY <2>1
            <4>4. i # 1 => g0[i - 1] = g[i - 1] /\ f1[i - 1] = f[i - 1]
                BY <1>2, <4>1
            <4> HIDE DEF g0, f1
            <4> QED
                BY <3>2, <4>2, <4>3, <4>4
        <3>3. GoOnAlike(g0, f, Len(r))
            BY <3>1, <3>2 DEF GoOnAlike
        <3>4. Alike(g0, f, Len(r))
            <4> HIDE DEF g0
            <4> QED
                BY <1>2, <3>3, Agreement, Zenon
        <3>5. ASSUME NEW i \in 1..Len(r) PROVE g[i] = f[i]
            <4>1. i \in 0..Len(r) /\ i # 0
                BY <1>2
            <4>2. g0[i] = g[i]
                BY <4>1
            <4> HIDE DEF g0
            <4> QED
                BY <3>4, <4>1, <4>2 DEF Alike
        <3> QED
            BY <3>5
    <2> HIDE DEF f1
    <2>6. Len(r) \in 1..Len(r)
        BY <1>2, <1>8
    <2> QED
        BY <1>1, <1>3, <1>4, <1>5, <1>8, <2>5, <2>6
<1> QED
    BY <1>7, <1>8

LEMMA EscapedStep ==
    /\ EscapedRawKey(<<>>) = <<>>
    /\ \A r \in Strings : EscapedRawKey(r) \in Strings
    /\ \A r \in Strings : \A b \in 0..MaxByte :
            EscapedRawKey(r \o <<b>>) = EscapedRawKey(r) \o EscapedByte(b)
<1>1. EscapedRawKey(<<>>) = <<>>
    <2>1. <<>> \in Strings /\ Len(<<>>) = 0
        BY StringsAre
    <2> QED
        BY <2>1, EscapedIs DEF Escapes
<1>2. ASSUME NEW r \in Strings PROVE EscapedRawKey(r) \in Strings
    <2>1. Len(r) \in 0..Len(r)
        BY DEF Strings
    <2> QED
        BY <2>1, EscapedIs, ZenonT(30) DEF Escapes
<1>3. ASSUME NEW r \in Strings, NEW b \in 0..MaxByte
      PROVE  EscapedRawKey(r \o <<b>>) = EscapedRawKey(r) \o EscapedByte(b)
    <2> DEFINE t == r \o <<b>>
               n == Len(r)
    <2>1. t \in Strings
        BY StringsAre
    <2>2. Len(t) = n + 1 /\ n \in Nat /\ t[n + 1] = b /\ \A i \in 1..n : t[i] = r[i]
        BY DEF Strings
    <2>3. n = Len(r)
        OBVIOUS
    <2> HIDE DEF t, n
    <2>4. PICK f : Escapes(f, r) /\ EscapedRawKey(r) = f[n]
        BY <2>3, EscapedIs
    <2>5. PICK g : Escapes(g, t) /\ EscapedRawKey(t) = g[n + 1]
        BY <2>1, <2>2, EscapedIs
    <2>6. /\ f[0] = <<>> /\ \A k \in 1..n : f[k] = f[k - 1] \o EscapedByte(r[k])
          /\ g[0] = <<>> /\ \A k \in 1..(n + 1) : g[k] = g[k - 1] \o EscapedByte(t[k])
        BY <2>2, <2>3, <2>4, <2>5 DEF Escapes
    <2>7. GoOnAlike(f, g, n)
        <3>1. ASSUME NEW k \in 1..n, f[k - 1] = g[k - 1] PROVE f[k] = g[k]
            <4>1. k \in 1..(n + 1) /\ t[k] = r[k]
                BY <2>2
            <4>2. f[k] = f[k - 1] \o EscapedByte(r[k]) /\ g[k] = g[k - 1] \o EscapedByte(t[k])
                BY <2>6, <4>1
            <4> QED
                BY <3>1, <4>1, <4>2
        <3> QED
            BY <2>6, <3>1 DEF GoOnAlike
    <2>8. Alike(f, g, n)
        BY <2>2, <2>7, Agreement, Zenon
    <2>9. f[n] = g[n]
        BY <2>2, <2>8 DEF Alike
    <2>10. g[n + 1] = g[n] \o EscapedByte(b)
        <3>1. n + 1 \in 1..(n + 1) /\ (n + 1) - 1 = n
            BY <2>2
        <3> QED
            BY <2>2, <2>6, <3>1
    <2> QED
        BY <2>4, <2>5, <2>9, <2>10 DEF t
<1> QED
    BY <1>1, <1>2, <1>3

JoinsAt(n) ==
    \A x, y \in Strings : Len(y) = n => EscapedRawKey(x \o y) = EscapedRawKey(x) \o EscapedRawKey(y)

\* The escapes of a string are those of its parts.
LEMMA EscapedJoin ==
    ASSUME NEW x \in Strings, NEW y \in Strings
    PROVE  EscapedRawKey(x \o y) = EscapedRawKey(x) \o EscapedRawKey(y)
<1> DEFINE S == {n \in Nat : JoinsAt(n)}
<1>1. 0 \in S
    <2>1. ASSUME NEW a \in Strings, NEW b \in Strings, Len(b) = 0
          PROVE  EscapedRawKey(a \o b) = EscapedRawKey(a) \o EscapedRawKey(b)
        <3>1. b = <<>>
            BY <2>1 DEF Strings
        <3>2. EscapedRawKey(a) \in Strings
            BY EscapedStep
        <3>3. a \o <<>> = a /\ EscapedRawKey(a) \o <<>> = EscapedRawKey(a)
            BY <3>2 DEF Strings
        <3> QED
            BY <3>1, <3>3, EscapedStep
    <2> QED
        BY <2>1 DEF JoinsAt
<1>2. ASSUME NEW n \in Nat, n \in S PROVE n + 1 \in S
    <2>1. JoinsAt(n)
        BY <1>2
    <2>2. ASSUME NEW a \in Strings, NEW b \in Strings, Len(b) = n + 1
          PROVE  EscapedRawKey(a \o b) = EscapedRawKey(a) \o EscapedRawKey(b)
        <3> DEFINE f == SubSeq(b, 1, n)
                   l == b[n + 1]
        <3>1. f \in Strings /\ Len(f) = n /\ l \in 0..MaxByte
            <4>1. n + 1 \in 1..Len(b)
                BY <2>2
            <4>2. l \in 0..MaxByte
                BY <4>1, ElementOfSeq DEF Strings
            <4>3. f \in Strings /\ Len(f) = n
                <5>1. 1 \in Nat \ {0} /\ n <= Len(b) /\ (IF 1 <= n THEN n - 1 + 1 ELSE 0) = n
                    BY <2>2
                <5> QED
                    BY <5>1, PartOf DEF Strings
            <4> QED
                BY <4>2, <4>3
        <3>2. b = f \o <<l>>
            BY <2>2 DEF Strings
        <3> HIDE DEF f, l
        <3>3. /\ EscapedRawKey(a \o f) = EscapedRawKey(a) \o EscapedRawKey(f)
              /\ a \o f \in Strings /\ <<l>> \in Strings
            BY <2>1, <3>1, StringsAre DEF JoinsAt
        <3>4. /\ EscapedRawKey((a \o f) \o <<l>>) = EscapedRawKey(a \o f) \o EscapedByte(l)
              /\ EscapedRawKey(f \o <<l>>) = EscapedRawKey(f) \o EscapedByte(l)
            BY <3>1, <3>3, EscapedStep
        <3>5. a \o b = (a \o f) \o <<l>>
            <4>1. Regroups(a, f, <<l>>)
                BY <3>1, <3>3, JoinedTwice, Zenon
            <4> QED
                BY <3>2, <4>1 DEF Regroups
        <3>6. EscapedRawKey(a) \in Strings /\ EscapedRawKey(f) \in Strings /\ EscapedByte(l) \in Strings
            BY <3>1, EscapedStep, EscapedByteIs
        <3>7. (EscapedRawKey(a) \o EscapedRawKey(f)) \o EscapedByte(l)
                = EscapedRawKey(a) \o (EscapedRawKey(f) \o EscapedByte(l))
            <4>1. Regroups(EscapedRawKey(a), EscapedRawKey(f), EscapedByte(l))
                BY <3>6, JoinedTwice, Zenon
            <4> QED
                BY <4>1 DEF Regroups
        <3> QED
            BY <3>2, <3>3, <3>4, <3>5, <3>7, Zenon
    <2>3. JoinsAt(n + 1)
        BY <2>2 DEF JoinsAt
    <2> QED
        BY <2>3
<1>3. \A n \in Nat : n \in S
    <2> HIDE DEF S
    <2> QED
        BY <1>1, <1>2, Induction
<1>4. Len(y) \in Nat
    BY DEF Strings
<1> QED
    BY <1>3, <1>4 DEF JoinsAt

LEMMA EscapedFront ==
    ASSUME NEW b \in 0..MaxByte, NEW y \in Strings
    PROVE  EscapedRawKey(<<b>> \o y) = EscapedByte(b) \o EscapedRawKey(y)
<1>1. <<>> \in Strings /\ <<b>> \in Strings /\ EscapedByte(b) \in Strings
    BY StringsAre, EscapedByteIs
<1>2. <<>> \o <<b>> = <<b>> /\ <<>> \o EscapedByte(b) = EscapedByte(b)
    BY <1>1 DEF Strings
<1>3. EscapedRawKey(<<b>>) = EscapedByte(b)
    BY <1>1, <1>2, EscapedStep
<1> QED
    BY <1>1, <1>3, EscapedJoin

LEMMA FirstByte ==
    ASSUME NEW a \in Seq(Int), NEW b \in Seq(Int), a # <<>>, b # <<>>, a[1] < b[1]
    PROVE  Below(a, b)
<1>1. 0 \in Nat /\ 0 < Len(a) /\ 0 < Len(b) /\ 0 + 1 = 1 /\ \A i \in 1..0 : a[i] = b[i]
    OBVIOUS
<1> QED
    BY <1>1 DEF Below

\* Strings that differ at a byte have escapes that do, in the same order.
LEMMA EscapedBelow ==
    ASSUME NEW a \in Strings, NEW b \in Strings, Below(a, b)
    PROVE  Below(EscapedRawKey(a), EscapedRawKey(b))
<1>1. PICK c, x, y \in Strings : \E u, w \in 0..MaxByte :
               a = c \o (<<u>> \o x) /\ b = c \o (<<w>> \o y) /\ u < w
    <2>1. 0..MaxByte \in SUBSET Int
        BY BaseIs
    <2>2. Parts(a, b, 0..MaxByte)
        BY <2>1, Parted DEF Strings
    <2> QED
        BY <2>2 DEF Parts, Strings
<1>2. PICK u, w \in 0..MaxByte :
               a = c \o (<<u>> \o x) /\ b = c \o (<<w>> \o y) /\ u < w
    BY <1>1
<1>3. <<u>> \o x \in Strings /\ <<w>> \o y \in Strings
    BY StringsAre
<1> DEFINE ea == EscapedByte(u) \o EscapedRawKey(x)
           eb == EscapedByte(w) \o EscapedRawKey(y)
<1>4. /\ EscapedRawKey(a) = EscapedRawKey(c) \o ea
      /\ EscapedRawKey(b) = EscapedRawKey(c) \o eb
    <2>1. EscapedRawKey(<<u>> \o x) = ea /\ EscapedRawKey(<<w>> \o y) = eb
        BY EscapedFront
    <2>2. /\ EscapedRawKey(c \o (<<u>> \o x)) = EscapedRawKey(c) \o EscapedRawKey(<<u>> \o x)
          /\ EscapedRawKey(c \o (<<w>> \o y)) = EscapedRawKey(c) \o EscapedRawKey(<<w>> \o y)
        BY <1>3, EscapedJoin
    <2> QED
        BY <1>2, <2>1, <2>2, Zenon
<1>5. /\ EscapedRawKey(c) \in Strings /\ EscapedRawKey(x) \in Strings /\ EscapedRawKey(y) \in Strings
      /\ EscapedByte(u) \in Strings /\ EscapedByte(w) \in Strings
    BY EscapedStep, EscapedByteIs
<1>6. ea \in Strings /\ eb \in Strings
    BY <1>5, StringsAre
<1>7. ea # <<>> /\ ea[1] = u
    BY <1>5, EscapedByteIs DEF Strings
<1>8. eb # <<>> /\ eb[1] = w
    BY <1>5, EscapedByteIs DEF Strings
<1> HIDE DEF ea, eb
<1>9. Below(ea, eb)
    BY <1>2, <1>6, <1>7, <1>8, FirstByte, StringsAre
<1>10. Below(EscapedRawKey(c) \o ea, EscapedRawKey(c) \o eb)
    BY <1>5, <1>6, <1>9, CommonStart, StringsAre
<1> QED
    BY <1>4, <1>10, Zenon

\* A terminated key is below every key that goes on after it.
LEMMA EscapedLonger ==
    ASSUME NEW a \in Strings, NEW b \in Strings, Starts(a, b), Len(a) < Len(b)
    PROVE  Below(TerminatedRawKey(a), EscapedRawKey(b))
<1>1. PICK r \in Strings : b = a \o r /\ Len(r) = Len(b) - Len(a)
    BY RestOf DEF Strings
<1>2. Len(a) \in Nat /\ Len(b) \in Nat /\ Len(r) \in Nat /\ Len(r) # 0
    BY <1>1 DEF Strings
<1> DEFINE w == r[1]
           y == SubSeq(r, 2, Len(r))
<1>3. w \in 0..MaxByte /\ y \in Strings
    <2>1. 1 \in 1..Len(r)
        BY <1>2
    <2>2. w \in 0..MaxByte
        BY <2>1, ElementOfSeq DEF Strings
    <2>3. y \in Strings
        <3>1. 2 \in Nat \ {0} /\ Len(r) <= Len(r)
            BY <1>2
        <3> QED
            BY <1>2, <3>1, PartOf DEF Strings
    <2> QED
        BY <2>2, <2>3
<1>4. r = <<w>> \o y
    BY <1>2 DEF Strings
<1> HIDE DEF w, y
<1> DEFINE e == EscapedByte(w) \o EscapedRawKey(y)
<1>5. EscapedRawKey(b) = EscapedRawKey(a) \o e
    BY <1>1, <1>3, <1>4, EscapedJoin, EscapedFront, ZenonT(30)
<1>6. /\ EscapedRawKey(a) \in Strings /\ EscapedRawKey(y) \in Strings /\ EscapedByte(w) \in Strings
      /\ <<0, 0>> \in Strings
    BY <1>3, EscapedStep, EscapedByteIs, BaseIs DEF Strings
<1>7. e \in Strings
    BY <1>6, StringsAre
<1>8. Below(<<0, 0>>, EscapedByte(w))
    <2>1. CASE w = 0
        <3>1. EscapedByte(w) = <<0, MaxByte>> /\ MaxByte > 0
            BY <2>1, EncodingsAssumption DEF EscapedByte
        <3>2. /\ 1 \in Nat /\ 1 < Len(<<0, 0>>) /\ 1 < Len(<<0, MaxByte>>)
              /\ \A i \in 1..1 : <<0, 0>>[i] = <<0, MaxByte>>[i]
            OBVIOUS
        <3>3. <<0, 0>>[1 + 1] < <<0, MaxByte>>[1 + 1]
            BY <3>1
        <3>4. Below(<<0, 0>>, <<0, MaxByte>>)
            BY <3>2, <3>3 DEF Below
        <3> QED
            BY <3>1, <3>4
    <2>2. CASE w # 0
        <3>1. EscapedByte(w) = <<w>> /\ 0 < w
            BY <1>3, <2>2 DEF EscapedByte
        <3>2. Below(<<0, 0>>, <<w>>)
            <4>1. <<0, 0>> \in Seq(Int) /\ <<w>> \in Seq(Int) /\ <<0, 0>>[1] < <<w>>[1]
                BY <1>3, <3>1
            <4> QED
                BY <4>1, FirstByte
        <3> QED
            BY <3>1, <3>2
    <2> QED
        BY <2>1, <2>2
<1>9. Below(<<0, 0>> \o <<>>, EscapedByte(w) \o EscapedRawKey(y))
    BY <1>6, <1>8, BelowJoined, StringsAre
<1>10. <<0, 0>> \o <<>> = <<0, 0>>
    OBVIOUS
<1>11. Below(<<0, 0>>, e)
    BY <1>9, <1>10
<1> HIDE DEF e
<1>12. Below(EscapedRawKey(a) \o <<0, 0>>, EscapedRawKey(a) \o e)
    BY <1>6, <1>7, <1>11, CommonStart, StringsAre
<1> QED
    BY <1>5, <1>12 DEF TerminatedRawKey

LEMMA TerminatedIs ==
    ASSUME NEW a \in Strings, NEW b \in Strings
    PROVE  /\ TerminatedRawKey(a) \in Strings
           /\ Less(a, b) => Below(TerminatedRawKey(a), TerminatedRawKey(b))
<1>1. /\ EscapedRawKey(a) \in Strings /\ EscapedRawKey(b) \in Strings /\ <<0, 0>> \in Strings
    BY EscapedStep, BaseIs DEF Strings
<1>2. TerminatedRawKey(a) \in Strings /\ TerminatedRawKey(b) \in Strings
    BY <1>1, StringsAre DEF TerminatedRawKey
<1>3. ASSUME Below(a, b) PROVE Below(TerminatedRawKey(a), TerminatedRawKey(b))
    BY <1>1, <1>3, EscapedBelow, BelowJoined, StringsAre DEF TerminatedRawKey
<1>4. ASSUME Starts(a, b), Len(a) < Len(b) PROVE Below(TerminatedRawKey(a), TerminatedRawKey(b))
    <2>1. Below(TerminatedRawKey(a), EscapedRawKey(b))
        BY <1>4, EscapedLonger
    <2>2. Below(TerminatedRawKey(a) \o <<>>, EscapedRawKey(b) \o <<0, 0>>)
        BY <1>1, <1>2, <2>1, BelowJoined, StringsAre
    <2>3. TerminatedRawKey(a) \o <<>> = TerminatedRawKey(a)
        BY <1>2 DEF Strings
    <2> QED
        BY <2>2, <2>3 DEF TerminatedRawKey
<1> QED
    BY <1>2, <1>3, <1>4, LessIs, StringsAre

-----------------------------------------------------------------------------
(***************************************************************************)
(* The records of the MVCC layer.                                          *)
(***************************************************************************)
Kinds == {mvccKeyNextVersion, mvccKeyTxnActive, mvccKeyTxnWrite, mvccKeyVersion}

LEMMA KindsAre ==
    /\ Kinds \subseteq 0..MaxByte /\ Kinds \subseteq Nat
    /\ \A kind \in Kinds : mvccKeyKindPrefix(kind) \in Strings
    /\ \A kind \in Kinds : mvccKeyKindPrefix(kind) = Namespace \o <<kind>>
    /\ Namespace \in Strings
<1>1. Kinds \subseteq 0..MaxByte
    BY EncodingsAssumption
        DEF Kinds, mvccKeyNextVersion, mvccKeyTxnActive, mvccKeyTxnWrite, mvccKeyVersion
<1>2. Namespace \in Strings
    BY EncodingsAssumption DEF Strings
<1>3. Kinds \subseteq Nat
    BY <1>1, BaseIs
<1>4. \A kind \in Kinds : mvccKeyKindPrefix(kind) = Namespace \o <<kind>>
    BY DEF mvccKeyKindPrefix
<1>5. \A kind \in Kinds : mvccKeyKindPrefix(kind) \in Strings
    BY <1>1, <1>2, <1>4, StringsAre
<1> QED
    BY <1>1, <1>2, <1>3, <1>4, <1>5

LEMMA KindsApart ==
    ASSUME NEW j \in Kinds, NEW k \in Kinds, j < k, NEW x \in Strings, NEW y \in Strings
    PROVE  Below(mvccKeyKindPrefix(j) \o x, mvccKeyKindPrefix(k) \o y)
<1>1. /\ mvccKeyKindPrefix(j) = Namespace \o <<j>> /\ mvccKeyKindPrefix(k) = Namespace \o <<k>>
      /\ mvccKeyKindPrefix(j) \in Strings /\ mvccKeyKindPrefix(k) \in Strings
      /\ Namespace \in Strings /\ j \in 0..MaxByte /\ k \in 0..MaxByte
    BY KindsAre
<1>2. <<j>> \in Seq(Int) /\ <<k>> \in Seq(Int) /\ <<j>>[1] < <<k>>[1]
    BY <1>1
<1>3. Below(<<j>>, <<k>>)
    BY <1>2, FirstByte
<1>4. Below(Namespace \o <<j>>, Namespace \o <<k>>)
    BY <1>1, <1>2, <1>3, CommonStart, StringsAre
<1> QED
    BY <1>1, <1>4, BelowJoined, StringsAre

LEMMA EncodeIs ==
    ASSUME NEW r \in Strings, NEW v \in 0..MaxVersion
    PROVE  /\ encode(nextVersionKey) = mvccKeyKindPrefix(mvccKeyNextVersion) \o <<>>
           /\ encode(activeTransactionKey(v)) = mvccKeyKindPrefix(mvccKeyTxnActive) \o encodeVersion(v)
           /\ encode(transactionWriteKey(v, r)) =
                mvccKeyKindPrefix(mvccKeyTxnWrite) \o (encodeVersion(v) \o TerminatedRawKey(r))
           /\ encode(versionedKey(r, v)) =
                mvccKeyKindPrefix(mvccKeyVersion) \o (TerminatedRawKey(r) \o encodeVersion(v))
           /\ encodeVersion(v) \in Strings /\ TerminatedRawKey(r) \in Strings
           /\ encodeVersion(v) \o TerminatedRawKey(r) \in Strings
           /\ TerminatedRawKey(r) \o encodeVersion(v) \in Strings
<1>1. encode(nextVersionKey) = mvccKeyKindPrefix(mvccKeyNextVersion) \o <<>>
    BY DEF encode, nextVersionKey, mvccKeyNextVersion, mvccKeyTxnActive, mvccKeyTxnWrite,
           mvccKeyVersion
<1>2. encode(activeTransactionKey(v)) = mvccKeyKindPrefix(mvccKeyTxnActive) \o encodeVersion(v)
    BY DEF encode, activeTransactionKey, mvccKeyNextVersion, mvccKeyTxnActive, mvccKeyTxnWrite,
           mvccKeyVersion
<1>3. encode(transactionWriteKey(v, r)) =
                mvccKeyKindPrefix(mvccKeyTxnWrite) \o (encodeVersion(v) \o TerminatedRawKey(r))
    BY DEF encode, transactionWriteKey, mvccKeyNextVersion, mvccKeyTxnActive, mvccKeyTxnWrite,
           mvccKeyVersion
<1>4. encode(versionedKey(r, v)) =
                mvccKeyKindPrefix(mvccKeyVersion) \o (TerminatedRawKey(r) \o encodeVersion(v))
    BY DEF encode, versionedKey, mvccKeyNextVersion, mvccKeyTxnActive, mvccKeyTxnWrite,
           mvccKeyVersion
<1>5. encodeVersion(v) \in Strings /\ TerminatedRawKey(r) \in Strings
    BY VersionBytes, TerminatedIs
<1> QED
    BY <1>1, <1>2, <1>3, <1>4, <1>5, StringsAre

LEMMA VersionsInOrder ==
    ASSUME NEW l \in Strings, NEW r \in Strings, NEW v \in 0..MaxVersion, NEW w \in 0..MaxVersion
    PROVE  /\ Less(encode(versionedKey(l, v)), encode(versionedKey(r, w))) <=>
                Less(l, r) \/ (l = r /\ v < w)
           /\ encode(versionedKey(l, v)) = encode(versionedKey(r, w)) <=> l = r /\ v = w
           /\ encode(versionedKey(l, v)) \in Strings
<1> DEFINE x == TerminatedRawKey(l) \o encodeVersion(v)
           y == TerminatedRawKey(r) \o encodeVersion(w)
           k == mvccKeyKindPrefix(mvccKeyVersion)
           tl == TerminatedRawKey(l)
           tr == TerminatedRawKey(r)
           ev == encodeVersion(v)
           ew == encodeVersion(w)
<1>1. k \in Strings
    BY KindsAre DEF Kinds
<1>2. /\ encode(versionedKey(l, v)) = k \o x /\ encode(versionedKey(r, w)) = k \o y
      /\ x \in Strings /\ y \in Strings /\ tl \in Strings /\ tr \in Strings
      /\ ev \in Strings /\ ew \in Strings
    BY EncodeIs
<1>3. /\ Less(l, r) => Below(tl, tr)
      /\ Less(r, l) => Below(tr, tl)
      /\ l = r => tl = tr
    BY TerminatedIs
<1>4. /\ Less(ev, ew) <=> v < w
      /\ ev = ew <=> v = w
    BY VersionsCompare
<1>5. x = tl \o ev /\ y = tr \o ew
    OBVIOUS
<1> HIDE DEF x, y, k, tl, tr, ev, ew
<1>6. l \in Seq(Int) /\ r \in Seq(Int)
    BY StringsAre
<1>7. /\ Less(k \o x, k \o y) <=> Less(x, y)
      /\ k \o x = k \o y <=> x = y
      /\ k \o x \in Strings
    BY <1>1, <1>2, CommonStart, StringsAre
<1>8. CASE Less(l, r)
    <2>1. Below(x, y)
        BY <1>2, <1>3, <1>5, <1>8, BelowJoined, StringsAre
    <2>2. Less(x, y) /\ x # y
        BY <1>2, <2>1, BelowApart, StringsAre
    <2>3. l # r
        BY <1>6, <1>8, LessIrreflexive
    <2> QED
        BY <1>2, <1>8, <1>7, <2>2, <2>3
<1>9. CASE Less(r, l)
    <2>1. Below(y, x)
        BY <1>2, <1>3, <1>5, <1>9, BelowJoined, StringsAre
    <2>2. ~Less(x, y) /\ x # y
        BY <1>2, <2>1, BelowApart, StringsAre
    <2>3. l # r /\ ~Less(l, r)
        BY <1>6, <1>9, LessIrreflexive, LessTransitive
    <2> QED
        BY <1>2, <1>7, <2>2, <2>3
<1>10. CASE l = r
    <2>1. tl = tr
        BY <1>3, <1>10
    <2>2. Less(x, y) <=> Less(ev, ew)
        BY <1>2, <1>5, <2>1, CommonStart, StringsAre
    <2>3. x = y <=> ev = ew
        BY <1>2, <1>5, <2>1, CommonStart, StringsAre
    <2>4. ~Less(l, r)
        BY <1>6, <1>10, LessIrreflexive
    <2> QED
        BY <1>2, <1>4, <1>10, <1>7, <2>2, <2>3, <2>4
<1> QED
    BY <1>6, <1>8, <1>9, <1>10, LessTotal

Regrouped(a, b, c, d, x) == (((a \o b) \o c) \o d) \o x = a \o (b \o ((c \o d) \o x))

LEMMA JoinedOften ==
    ASSUME NEW a \in Strings, NEW b \in Strings, NEW c \in Strings, NEW d \in Strings, NEW x \in Strings
    PROVE  Regrouped(a, b, c, d, x)
<1> DEFINE ab == a \o b
           cd == c \o d
           cdx == cd \o x
<1>1. ab \in Strings /\ cd \in Strings /\ cdx \in Strings
    BY StringsAre
<1>2. cdx = cd \o x
    OBVIOUS
<1> HIDE DEF cdx
<1>3. Regroups(a, b, cdx)
    BY <1>1, JoinedTwice, Zenon
<1>4. cd = c \o d /\ ab = a \o b
    OBVIOUS
<1> HIDE DEF ab, cd
<1>5. Regroups(ab, c, d) /\ Regroups(ab, cd, x)
    BY <1>1, JoinedTwice, Zenon
<1>6. ((ab \o c) \o d) \o x = a \o (b \o (cd \o x))
    BY <1>2, <1>3, <1>4, <1>5, Zenon DEF Regroups
<1> QED
    BY <1>6 DEF ab, cd, Regrouped

\* The two parts of a string that was put together.
LEMMA JoinIs ==
    ASSUME NEW a \in Strings, NEW b \in Strings
    PROVE  /\ a \o b \in Strings /\ Len(a) \in Nat /\ Len(b) \in Nat
           /\ Len(a \o b) = Len(a) + Len(b)
           /\ \A i \in 1..Len(a) : (a \o b)[i] = a[i]
           /\ \A i \in 1..Len(b) : (a \o b)[Len(a) + i] = b[i]
BY DEF Strings

LEMMA PartsOfJoin ==
    ASSUME NEW a \in Strings, NEW b \in Strings
    PROVE  /\ SubSeq(a \o b, 1, Len(a)) = a
           /\ SubSeq(a \o b, Len(a) + 1, Len(a \o b)) = b
<1> DEFINE s == a \o b
           t == SubSeq(s, 1, Len(a))
           u == SubSeq(s, Len(a) + 1, Len(s))
<1>1. /\ s \in Strings /\ Len(a) \in Nat /\ Len(b) \in Nat
      /\ Len(s) = Len(a) + Len(b)
      /\ \A i \in 1..Len(a) : s[i] = a[i]
      /\ \A i \in 1..Len(b) : s[Len(a) + i] = b[i]
    BY JoinIs
<1> HIDE DEF s
<1>2. \A i \in 1..Len(s) : s[i] \in 0..MaxByte
    BY <1>1, ElementOfSeq DEF Strings
<1>3. t = a
    <2>1. \A i \in 1..Len(a) : i \in 1..Len(s)
        BY <1>1
    <2>2. \A i \in 1..Len(a) : s[i] \in 0..MaxByte
        BY <1>2, <2>1
    <2>3. /\ t \in Seq(0..MaxByte) /\ Len(t) = IF 1 <= Len(a) THEN Len(a) - 1 + 1 ELSE 0
          /\ \A i \in 1..(Len(a) - 1 + 1) : t[i] = s[1 + i - 1]
        <3>1. 1 \in Int /\ Len(a) \in Int
            BY <1>1
        <3> QED
            BY <2>2, <3>1, SubSeqProperties
    <2> HIDE DEF t
    <2>4. Len(t) = Len(a) /\ \A i \in 1..Len(a) : t[i] = a[i]
        BY <1>1, <2>3
    <2> QED
        BY <2>3, <2>4, SeqEqual DEF Strings
<1>4. u = b
    <2> DEFINE m == Len(a) + 1
    <2>1. \A i \in m..Len(s) : i \in 1..Len(s)
        BY <1>1
    <2>2. \A i \in m..Len(s) : s[i] \in 0..MaxByte
        BY <1>2, <2>1
    <2>3. m \in Int /\ Len(s) \in Int /\ Len(s) - m + 1 = Len(b)
        BY <1>1
    <2> HIDE DEF m
    <2>4. /\ u \in Seq(0..MaxByte) /\ Len(u) = IF m <= Len(s) THEN Len(s) - m + 1 ELSE 0
          /\ \A i \in 1..(Len(s) - m + 1) : u[i] = s[m + i - 1]
        BY <2>2, <2>3, SubSeqProperties DEF m
    <2> HIDE DEF u
    <2>5. Len(u) = Len(b)
        BY <1>1, <2>3, <2>4 DEF m
    <2>6. \A i \in 1..Len(b) : m + i - 1 = Len(a) + i
        BY <1>1 DEF m
    <2>7. \A i \in 1..Len(b) : u[i] = b[i]
        BY <1>1, <2>3, <2>4, <2>6
    <2> QED
        BY <2>4, <2>5, <2>7, SeqEqual DEF Strings
<1> QED
    BY <1>3, <1>4 DEF s

LEMMA BelowLonger ==
    ASSUME NEW a \in Strings, NEW b \in Strings, NEW x \in Strings, Below(a, b)
    PROVE  Below(a \o x, b) /\ Below(a, b \o x)
<1>1. <<>> \in Strings /\ a \o <<>> = a /\ b \o <<>> = b
    BY StringsAre DEF Strings
<1>2. Below(a \o x, b \o <<>>) /\ Below(a \o <<>>, b \o x)
    BY <1>1, BelowJoined, StringsAre
<1> QED
    BY <1>1, <1>2

LEMMA StartsJoined ==
    ASSUME NEW a \in Strings, NEW x \in Strings
    PROVE  Starts(a, a) /\ Starts(a, a \o x)
<1>1. a \in Seq(Int) /\ x \in Seq(Int)
    BY StringsAre
<1> QED
    BY <1>1, Joins DEF Starts

\* The escapes of a prefix, not terminated, are a prefix of the keys it is
\* a prefix of, and of no others.
LEMMA EscapedPrefix ==
    ASSUME NEW l \in Strings, NEW r \in Strings, NEW z \in Strings
    PROVE  Starts(EscapedRawKey(l), TerminatedRawKey(r) \o z) <=> Starts(l, r)
<1> DEFINE el == EscapedRawKey(l)
           er == EscapedRawKey(r)
           tr == TerminatedRawKey(r)
<1>1. el \in Strings /\ er \in Strings /\ tr \in Strings /\ <<0, 0>> \in Strings /\ tr \o z \in Strings
    BY EscapedStep, TerminatedIs, StringsAre, BaseIs DEF Strings
<1>2. tr = er \o <<0, 0>>
    BY DEF TerminatedRawKey
<1>3. l \in Seq(Int) /\ r \in Seq(Int) /\ el \in Seq(Int) /\ tr \o z \in Seq(Int)
    BY <1>1, StringsAre
<1>4. CASE Starts(l, r)
    <2>1. PICK x \in Strings : r = l \o x
        <3>1. 0..MaxByte \in SUBSET Int
            BY BaseIs
        <3> QED
            BY <1>4, <3>1, RestOf DEF Strings
    <2> DEFINE ex == EscapedRawKey(x)
               d == <<0, 0>>
    <2>2. er = el \o ex /\ ex \in Strings /\ d \in Strings /\ tr = er \o d
        BY <1>1, <1>2, <2>1, EscapedJoin, EscapedStep
    <2> HIDE DEF el, er, tr, ex, d
    <2>3. ex \o d \in Strings /\ (ex \o d) \o z \in Strings
        BY <2>2, StringsAre
    <2>s. el \in Strings /\ z \in Strings
        BY <1>1
    <2>4. tr = el \o (ex \o d)
        <3>1. Regroups(el, ex, d)
            BY <2>2, <2>s, JoinedTwice, Zenon
        <3> QED
            BY <2>2, <3>1, Zenon DEF Regroups
    <2>5. tr \o z = el \o ((ex \o d) \o z)
        <3>1. Regroups(el, ex \o d, z)
            BY <2>3, <2>s, JoinedTwice, Zenon
        <3> QED
            BY <2>4, <3>1, Zenon DEF Regroups
    <2>6. Starts(el, el \o ((ex \o d) \o z))
        BY <1>1, <2>3, StartsJoined
    <2>7. Starts(el, tr \o z)
        BY <2>5, <2>6, Zenon
    <2> QED
        BY <1>4, <2>7 DEF el, tr
<1>5. CASE Below(l, r)
    <2>1. Below(el, er)
        BY <1>5, EscapedBelow
    <2> HIDE DEF el, er, tr
    <2>2. Below(el, tr)
        BY <1>1, <1>2, <2>1, BelowLonger
    <2>3. Below(el, tr \o z)
        BY <1>1, <2>2, BelowLonger
    <2>4. ~Starts(el, tr \o z) /\ ~Starts(l, r)
        BY <1>3, <1>5, <2>3, BelowApart
    <2> QED
        BY <2>4 DEF el, tr
<1>6. CASE Below(r, l)
    <2>1. Below(er, el)
        BY <1>6, EscapedBelow
    <2> HIDE DEF el, er, tr
    <2>2. Below(tr, el)
        BY <1>1, <1>2, <2>1, BelowLonger
    <2>3. Below(tr \o z, el)
        BY <1>1, <2>2, BelowLonger
    <2>4. ~Starts(el, tr \o z) /\ ~Starts(l, r)
        BY <1>3, <1>6, <2>3, BelowApart
    <2> QED
        BY <2>4 DEF el, tr
<1>7. CASE Starts(r, l) /\ Len(r) < Len(l)
    <2>1. Below(tr, el)
        BY <1>7, EscapedLonger
    <2> HIDE DEF el, er, tr
    <2>2. Below(tr \o z, el)
        BY <1>1, <2>1, BelowLonger
    <2>3. ~Starts(el, tr \o z)
        BY <1>3, <2>2, BelowApart
    <2>4. ~Starts(l, r)
        <3>1. Len(l) \in Nat /\ Len(r) \in Nat
            BY <1>3
        <3> QED
            BY <1>7, <3>1 DEF Starts
    <2> QED
        BY <2>3, <2>4 DEF el, tr
<1>8. l = r => Starts(l, r)
    BY StartsJoined
<1> HIDE DEF el, er, tr
<1> QED
    BY <1>3, <1>4, <1>5, <1>6, <1>7, <1>8, Compared

LEMMA PrefixOfKind ==
    ASSUME NEW j \in Kinds, NEW k \in Kinds, NEW x \in Strings, NEW y \in Strings
    PROVE  Starts(mvccKeyKindPrefix(j) \o x, mvccKeyKindPrefix(k) \o y) <=> j = k /\ Starts(x, y)
<1> DEFINE a == mvccKeyKindPrefix(j)
           b == mvccKeyKindPrefix(k)
<1>1. a \in Strings /\ b \in Strings /\ j \in Nat /\ k \in Nat
    BY KindsAre
<1>2. a \o x \in Seq(Int) /\ b \o y \in Seq(Int)
    BY <1>1, StringsAre
<1>3. CASE j = k
    BY <1>1, <1>3, CommonStart, StringsAre
<1>4. CASE j < k
    <2>1. Below(a \o x, b \o y)
        BY <1>4, KindsApart
    <2>2. ~Starts(a \o x, b \o y)
        BY <1>2, <2>1, BelowApart
    <2>3. j # k
        BY <1>1, <1>4
    <2> QED
        BY <2>2, <2>3
<1>5. CASE k < j
    <2>1. Below(b \o y, a \o x)
        BY <1>5, KindsApart
    <2>2. ~Starts(a \o x, b \o y)
        BY <1>2, <2>1, BelowApart
    <2>3. j # k
        BY <1>1, <1>5
    <2> QED
        BY <2>2, <2>3
<1> QED
    BY <1>1, <1>3, <1>4, <1>5

\* The prefixes of the three scans by prefix.
LEMMA PrefixForms ==
    ASSUME NEW l \in Strings, NEW v \in 0..MaxVersion
    PROVE  /\ versionedKeyPrefix(l) = mvccKeyKindPrefix(mvccKeyVersion) \o EscapedRawKey(l)
           /\ activeTransactionPrefix = mvccKeyKindPrefix(mvccKeyTxnActive) \o <<>>
           /\ transactionWritePrefix(v) = mvccKeyKindPrefix(mvccKeyTxnWrite) \o encodeVersion(v)
           /\ versionedKeyPrefix(l) \in Strings /\ activeTransactionPrefix \in Strings
           /\ transactionWritePrefix(v) \in Strings
<1>1. mvccKeyVersion \in Kinds /\ mvccKeyTxnActive \in Kinds /\ mvccKeyTxnWrite \in Kinds
    BY DEF Kinds
<1>2. /\ mvccKeyKindPrefix(mvccKeyVersion) \in Strings /\ mvccKeyKindPrefix(mvccKeyTxnActive) \in Strings
      /\ mvccKeyKindPrefix(mvccKeyTxnWrite) \in Strings
      /\ EscapedRawKey(l) \in Strings /\ encodeVersion(v) \in Strings
    BY <1>1, KindsAre, EscapedStep, VersionBytes
<1>3. mvccKeyKindPrefix(mvccKeyTxnActive) = mvccKeyKindPrefix(mvccKeyTxnActive) \o <<>>
    BY <1>2 DEF Strings
<1> QED
    BY <1>2, <1>3, StringsAre DEF versionedKeyPrefix, activeTransactionPrefix, transactionWritePrefix

LEMMA VersionsWithin == Versions \subseteq 0..MaxVersion
BY EncodingsAssumption

\* A record's stored key: its kind, and what follows it.
StoredAs(r, R, y) ==
    /\ r.kind \in Kinds /\ y \in Strings
    /\ encode(r) = mvccKeyKindPrefix(r.kind) \o y
    /\ r.kind = mvccKeyTxnWrite =>
            r.version \in Versions /\ y = encodeVersion(r.version) \o TerminatedRawKey(R)
    /\ r.kind = mvccKeyVersion =>
            /\ r.version \in Versions /\ r.rawKey = R /\ r = versionedKey(R, r.version)
            /\ y = TerminatedRawKey(R) \o encodeVersion(r.version)

LEMMA RecordForms ==
    ASSUME NEW R, NEW r \in Records(R)
    PROVE  \/ r = nextVersionKey
           \/ \E v \in Versions :
                r = activeTransactionKey(v) \/ r = transactionWriteKey(v, R) \/ r = versionedKey(R, v)
<1> DEFINE Of(v) == {versionedKey(R, v), transactionWriteKey(v, R), activeTransactionKey(v)}
           All == UNION {Of(v) : v \in Versions}
<1>1. r \in All \/ r = nextVersionKey
    <2>1. Records(R) = {nextVersionKey} \cup All
        BY DEF Records
    <2> HIDE DEF All
    <2> QED
        BY <2>1
<1>2. ASSUME r \in All PROVE \E v \in Versions : r \in Of(v)
    <2> HIDE DEF Of
    <2> QED
        BY <1>2
<1> QED
    BY <1>1, <1>2

LEMMA RecordStored ==
    ASSUME NEW R \in Strings, NEW r \in Records(R)
    PROVE  \E y : StoredAs(r, R, y)
<1> USE DEF Kinds, mvccKeyNextVersion, mvccKeyTxnActive, mvccKeyTxnWrite, mvccKeyVersion
<1>1. CASE r = nextVersionKey
    <2>1. 0 \in 0..MaxVersion
        BY VersionBytes
    <2>2. r.kind = mvccKeyNextVersion /\ encode(r) = mvccKeyKindPrefix(mvccKeyNextVersion) \o <<>>
        BY <1>1, <2>1, EncodeIs DEF nextVersionKey
    <2>3. StoredAs(r, R, <<>>)
        BY <2>2, StringsAre DEF StoredAs
    <2> QED
        BY <2>3
<1>2. ASSUME NEW v \in Versions, r = activeTransactionKey(v) PROVE \E y : StoredAs(r, R, y)
    <2>1. v \in 0..MaxVersion
        BY VersionsWithin
    <2>2. /\ r.kind = mvccKeyTxnActive /\ encodeVersion(v) \in Strings
          /\ encode(r) = mvccKeyKindPrefix(mvccKeyTxnActive) \o encodeVersion(v)
        BY <1>2, <2>1, EncodeIs DEF activeTransactionKey
    <2>3. StoredAs(r, R, encodeVersion(v))
        BY <2>2 DEF StoredAs
    <2> QED
        BY <2>3
<1>3. ASSUME NEW v \in Versions, r = transactionWriteKey(v, R) PROVE \E y : StoredAs(r, R, y)
    <2> DEFINE y == encodeVersion(v) \o TerminatedRawKey(R)
    <2>1. v \in 0..MaxVersion
        BY VersionsWithin
    <2>2. /\ r.kind = mvccKeyTxnWrite /\ r.version = v /\ y \in Strings
          /\ encode(r) = mvccKeyKindPrefix(mvccKeyTxnWrite) \o y
        BY <1>3, <2>1, EncodeIs DEF transactionWriteKey
    <2>3. StoredAs(r, R, y)
        BY <2>2 DEF StoredAs
    <2> QED
        BY <2>3
<1>4. ASSUME NEW v \in Versions, r = versionedKey(R, v) PROVE \E y : StoredAs(r, R, y)
    <2> DEFINE y == TerminatedRawKey(R) \o encodeVersion(v)
    <2>1. v \in 0..MaxVersion
        BY VersionsWithin
    <2>2. /\ r.kind = mvccKeyVersion /\ r.version = v /\ r.rawKey = R /\ y \in Strings
          /\ encode(r) = mvccKeyKindPrefix(mvccKeyVersion) \o y
        BY <1>4, <2>1, EncodeIs DEF versionedKey
    <2>3. StoredAs(r, R, y)
        BY <1>4, <2>2 DEF StoredAs
    <2> QED
        BY <2>3
<1> QED
    BY <1>1, <1>2, <1>3, <1>4, RecordForms, Zenon

\* Only a stored version can lie above the first version of a key.
LEMMA BelowVersions ==
    ASSUME NEW R \in Strings, NEW r \in Records(R), r.kind # mvccKeyVersion,
           NEW l \in Strings, NEW v \in 0..MaxVersion
    PROVE  ~AtMost(encode(versionedKey(l, v)), encode(r))
<1>1. PICK y : StoredAs(r, R, y)
    BY RecordStored
<1>2. r.kind \in Kinds /\ y \in Strings /\ encode(r) = mvccKeyKindPrefix(r.kind) \o y
    BY <1>1 DEF StoredAs
<1> DEFINE z == TerminatedRawKey(l) \o encodeVersion(v)
           k == mvccKeyVersion
<1>3. z \in Strings /\ encode(versionedKey(l, v)) = mvccKeyKindPrefix(k) \o z
    BY EncodeIs
<1> HIDE DEF z
<1>4. k \in Kinds /\ r.kind < k
    BY <1>2 DEF Kinds, mvccKeyNextVersion, mvccKeyTxnActive, mvccKeyTxnWrite, mvccKeyVersion
<1> HIDE DEF k
<1>5. Below(encode(r), encode(versionedKey(l, v)))
    BY <1>2, <1>3, <1>4, KindsApart
<1>6. encode(r) \in Seq(Int) /\ encode(versionedKey(l, v)) \in Seq(Int)
    BY <1>2, <1>3, <1>4, KindsAre, StringsAre
<1> QED
    BY <1>5, <1>6, BelowApart DEF AtMost

LEMMA RangesExact ==
    ASSUME NEW l \in Strings, NEW R \in Strings, NEW r \in Records(R), NEW v \in 0..MaxVersion
    PROVE  /\ v < MaxVersion =>
                (InGetRange(encode(r), l, v) <=>
                    r.kind = mvccKeyVersion /\ r.rawKey = l /\ r.version <= v)
           /\ InWriteRange(encode(r), l, v) <=>
                    r.kind = mvccKeyVersion /\ r.rawKey = l /\ r.version >= v
<1>1. MaxVersion \in Nat /\ 0 \in 0..MaxVersion /\ MaxVersion \in 0..MaxVersion
    BY VersionBytes
<1>2. ASSUME NEW w \in 0..MaxVersion
      PROVE  /\ encode(versionedKey(l, w)) \in Strings
             /\ encode(versionedKey(l, w)) # None
             /\ encode(versionedKey(l, w)) \o <<0>> \in Strings
             /\ encode(versionedKey(l, w)) \o <<0>> # None
    <2>1. encode(versionedKey(l, w)) \in Strings
        BY VersionsInOrder
    <2>2. <<0>> \in Strings
        BY StringsAre
    <2> QED
        BY <2>1, <2>2, StringsAre
<1>3. /\ InWriteRange(encode(r), l, v) <=>
            /\ AtMost(encode(versionedKey(l, v)), encode(r))
            /\ Less(encode(r), encode(versionedKey(l, MaxVersion)) \o <<0>>)
      /\ v < MaxVersion => (InGetRange(encode(r), l, v) <=>
            /\ AtMost(encode(versionedKey(l, 0)), encode(r))
            /\ Less(encode(r), encode(versionedKey(l, v + 1))))
    BY <1>1, <1>2 DEF InWriteRange, InGetRange, InRange
<1>4. CASE r.kind # mvccKeyVersion
    BY <1>1, <1>3, <1>4, BelowVersions
<1>5. CASE r.kind = mvccKeyVersion
    <2> DEFINE w == r.version
    <2>1. w \in 0..MaxVersion /\ r.rawKey = R /\ r = versionedKey(R, w)
        BY <1>5, RecordStored, VersionsWithin DEF StoredAs
    <2>2. encode(r) \in Strings /\ encode(r) \in Seq(Nat)
        BY <2>1, VersionsInOrder, StringsAre
    <2>3. R \in Seq(Int) /\ l \in Seq(Int)
        BY StringsAre
    <2>4. ~(Less(l, R) /\ Less(R, l)) /\ (l = R => ~Less(l, R) /\ ~Less(R, l))
        BY <2>3, LessTransitive, LessIrreflexive
    <2> HIDE DEF w
    <2>5. \A u \in 0..MaxVersion :
            AtMost(encode(versionedKey(l, u)), encode(r)) <=> Less(l, R) \/ (l = R /\ u <= w)
        BY <2>1, VersionsInOrder DEF AtMost
    <2>6. \A u \in 0..MaxVersion :
            Less(encode(r), encode(versionedKey(l, u))) <=> Less(R, l) \/ (l = R /\ w < u)
        BY <2>1, VersionsInOrder
    <2>7. v < MaxVersion =>
                (InGetRange(encode(r), l, v) <=> l = R /\ w <= v)
        <3> SUFFICES ASSUME v < MaxVersion PROVE InGetRange(encode(r), l, v) <=> l = R /\ w <= v
            OBVIOUS
        <3>1. v + 1 \in 0..MaxVersion /\ (w < v + 1 <=> w <= v) /\ 0 <= w
            BY <1>1, <2>1
        <3> QED
            BY <1>1, <1>3, <2>4, <2>5, <2>6, <3>1
    <2>8. InWriteRange(encode(r), l, v) <=> l = R /\ w >= v
        <3>1. Less(encode(r), encode(versionedKey(l, MaxVersion)) \o <<0>>) <=>
                AtMost(encode(r), encode(versionedKey(l, MaxVersion)))
            BY <1>1, <1>2, <2>2, NextString, StringsAre
        <3>2. AtMost(encode(r), encode(versionedKey(l, MaxVersion))) <=>
                Less(R, l) \/ (l = R /\ w <= MaxVersion)
            BY <1>1, <2>1, VersionsInOrder DEF AtMost
        <3>3. w <= MaxVersion /\ (v <= w <=> w >= v)
            BY <1>1, <2>1
        <3> QED
            BY <1>3, <2>4, <2>5, <3>1, <3>2, <3>3
    <2> QED
        BY <1>5, <2>1, <2>7, <2>8 DEF w
<1> QED
    BY <1>4, <1>5

LEMMA PrefixesExact ==
    ASSUME NEW l \in Strings, NEW R \in Strings, NEW r \in Records(R), NEW v \in 0..MaxVersion
    PROVE  /\ InPrefix(encode(r), versionedKeyPrefix(l)) <=>
                    r.kind = mvccKeyVersion /\ IsPrefix(l, r.rawKey)
           /\ InPrefix(encode(r), activeTransactionPrefix) <=> r.kind = mvccKeyTxnActive
           /\ InPrefix(encode(r), transactionWritePrefix(v)) <=>
                    r.kind = mvccKeyTxnWrite /\ r.version = v
<1>1. PICK y : StoredAs(r, R, y)
    BY RecordStored
<1>2. r.kind \in Kinds /\ y \in Strings /\ encode(r) = mvccKeyKindPrefix(r.kind) \o y
    BY <1>1 DEF StoredAs
<1>3. encode(r) \in Strings
    BY <1>2, KindsAre, StringsAre
<1>4. mvccKeyVersion \in Kinds /\ mvccKeyTxnActive \in Kinds /\ mvccKeyTxnWrite \in Kinds
    BY DEF Kinds
<1>5. EscapedRawKey(l) \in Strings /\ <<>> \in Strings /\ encodeVersion(v) \in Strings
    BY EscapedStep, StringsAre, VersionBytes
<1>6. InPrefix(encode(r), versionedKeyPrefix(l)) <=>
            r.kind = mvccKeyVersion /\ IsPrefix(l, r.rawKey)
    <2>1. InPrefix(encode(r), versionedKeyPrefix(l)) <=>
            r.kind = mvccKeyVersion /\ Starts(EscapedRawKey(l), y)
        <3>1. /\ versionedKeyPrefix(l) \in Strings
              /\ versionedKeyPrefix(l) = mvccKeyKindPrefix(mvccKeyVersion) \o EscapedRawKey(l)
            BY PrefixForms
        <3>2. InPrefix(encode(r), versionedKeyPrefix(l)) <=> Starts(versionedKeyPrefix(l), encode(r))
            BY <1>3, <3>1, PrefixIs
        <3>3. Starts(mvccKeyKindPrefix(mvccKeyVersion) \o EscapedRawKey(l), mvccKeyKindPrefix(r.kind) \o y)
                <=> mvccKeyVersion = r.kind /\ Starts(EscapedRawKey(l), y)
            BY <1>2, <1>4, <1>5, PrefixOfKind
        <3> QED
            BY <1>2, <3>1, <3>2, <3>3
    <2>2. ASSUME r.kind = mvccKeyVersion
          PROVE  Starts(EscapedRawKey(l), y) <=> IsPrefix(l, r.rawKey)
        <3>1. /\ r.version \in 0..MaxVersion /\ r.rawKey = R
              /\ y = TerminatedRawKey(R) \o encodeVersion(r.version)
            BY <1>1, <2>2, VersionsWithin DEF StoredAs
        <3>2. encodeVersion(r.version) \in Strings
            BY <3>1, VersionBytes
        <3>3. Starts(EscapedRawKey(l), y) <=> Starts(l, R)
            BY <3>1, <3>2, EscapedPrefix
        <3> QED
            BY <3>1, <3>3, IsPrefixIs, StringsAre
    <2> QED
        BY <2>1, <2>2
<1>7. InPrefix(encode(r), activeTransactionPrefix) <=> r.kind = mvccKeyTxnActive
    <2>1. InPrefix(encode(r), activeTransactionPrefix) <=>
            r.kind = mvccKeyTxnActive /\ Starts(<<>>, y)
        <3>1. /\ activeTransactionPrefix \in Strings
              /\ activeTransactionPrefix = mvccKeyKindPrefix(mvccKeyTxnActive) \o <<>>
            BY PrefixForms
        <3>2. InPrefix(encode(r), activeTransactionPrefix) <=> Starts(activeTransactionPrefix, encode(r))
            BY <1>3, <3>1, PrefixIs
        <3>3. Starts(mvccKeyKindPrefix(mvccKeyTxnActive) \o <<>>, mvccKeyKindPrefix(r.kind) \o y)
                <=> mvccKeyTxnActive = r.kind /\ Starts(<<>>, y)
            BY <1>2, <1>4, <1>5, PrefixOfKind, ZenonT(30)
        <3> QED
            BY <1>2, <3>1, <3>2, <3>3
    <2>2. Starts(<<>>, y)
        BY <1>2 DEF Starts, Strings
    <2> QED
        BY <2>1, <2>2
<1>8. InPrefix(encode(r), transactionWritePrefix(v)) <=>
            r.kind = mvccKeyTxnWrite /\ r.version = v
    <2>1. InPrefix(encode(r), transactionWritePrefix(v)) <=>
            r.kind = mvccKeyTxnWrite /\ Starts(encodeVersion(v), y)
        <3>1. /\ transactionWritePrefix(v) \in Strings
              /\ transactionWritePrefix(v) = mvccKeyKindPrefix(mvccKeyTxnWrite) \o encodeVersion(v)
            BY PrefixForms
        <3>2. InPrefix(encode(r), transactionWritePrefix(v)) <=> Starts(transactionWritePrefix(v), encode(r))
            BY <1>3, <3>1, PrefixIs
        <3>3. Starts(mvccKeyKindPrefix(mvccKeyTxnWrite) \o encodeVersion(v), mvccKeyKindPrefix(r.kind) \o y)
                <=> mvccKeyTxnWrite = r.kind /\ Starts(encodeVersion(v), y)
            BY <1>2, <1>4, <1>5, PrefixOfKind
        <3> QED
            BY <1>2, <3>1, <3>2, <3>3
    <2>2. ASSUME r.kind = mvccKeyTxnWrite
          PROVE  Starts(encodeVersion(v), y) <=> r.version = v
        <3> DEFINE w == r.version
                   ev == encodeVersion(v)
                   ew == encodeVersion(w)
        <3>1. w \in 0..MaxVersion /\ y = ew \o TerminatedRawKey(R)
            BY <1>1, <2>2, VersionsWithin DEF StoredAs
        <3>2. /\ ev \in Strings /\ Len(ev) = WordBytes /\ ew \in Strings /\ Len(ew) = WordBytes
              /\ WordBytes \in Nat
            BY <3>1, VersionBytes
        <3>3. TerminatedRawKey(R) \in Strings
            BY TerminatedIs
        <3>4. v = w => Starts(ev, y)
            BY <3>1, <3>2, <3>3, StartsJoined
        <3>5. Starts(ev, ew) => v = w
            BY <3>1, VersionsCompare
        <3> HIDE DEF ev, ew, w
        <3>6. Starts(ev, y) => Starts(ev, ew)
            <4>1. \A i \in 1..Len(ew) : y[i] = ew[i]
                BY <3>1, <3>2, <3>3, Joins, StringsAre
            <4> QED
                BY <3>2, <4>1 DEF Starts
        <3>7. Starts(ev, y) <=> w = v
            BY <3>4, <3>5, <3>6
        <3> QED
            BY <3>7 DEF ev, w
    <2> QED
        BY <2>1, <2>2
<1> QED
    BY <1>6, <1>7, <1>8

-----------------------------------------------------------------------------
(***************************************************************************)
(* Decoding.                                                               *)
(***************************************************************************)
IsValue(f, s) == f = [n \in 0..Len(s) |-> IF n = 0 THEN 0 ELSE f[n - 1] * (MaxByte + 1) + s[n]]

LEMMA ValueExists ==
    ASSUME NEW s \in Strings
    PROVE  \E f : IsValue(f, s)
<1> DEFINE m == Len(s)
           h == [n \in 0..m |-> [f \in [0..m -> Nat] |->
                    IF n = 0 THEN 0 ELSE f[n - 1] * (MaxByte + 1) + s[n]]]
<1>1. m \in Nat /\ m = Len(s) /\ MaxByte + 1 \in Nat
    BY BaseIs DEF Strings
<1>2. \A n \in 1..m : s[n] \in Nat
    <2>1. s \in Seq(Nat)
        BY StringsAre
    <2> QED
        BY <2>1, ElementOfSeq
<1> HIDE DEF m
<1>3. \A n \in 0..m : n # 0 => n - 1 \in 0..m /\ n - 1 < n /\ n \in 1..m
    BY <1>1
<1>4. \A n \in 0..m : \A f \in [0..m -> Nat] :
            IF n = 0 THEN h[n][f] = 0 ELSE h[n][f] = f[n - 1] * (MaxByte + 1) + s[n]
    OBVIOUS
<1>5. ASSUME NEW n \in 0..m, NEW f \in [0..m -> Nat]
      PROVE  (IF n = 0 THEN 0 ELSE f[n - 1] * (MaxByte + 1) + s[n]) \in Nat
    <2>1. CASE n # 0
        <3>1. f[n - 1] \in Nat /\ s[n] \in Nat
            BY <1>2, <1>3, <2>1
        <3>2. \A x, y, z \in Nat : x * y + z \in Nat
            OBVIOUS
        <3> QED
            BY <1>1, <2>1, <3>1, <3>2
    <2> QED
        BY <2>1
<1>6. h \in [0..m -> [[0..m -> Nat] -> Nat]]
    BY <1>5
<1> HIDE DEF h
<1>7. Recurs(h, Nat, m)
    <2>1. ASSUME NEW n \in 0..m, NEW f \in [0..m -> Nat], NEW g \in [0..m -> Nat],
                 \A k \in 0..m : k < n => f[k] = g[k]
          PROVE  h[n][f] = h[n][g]
        <3>1. n # 0 => f[n - 1] = g[n - 1]
            BY <1>3, <2>1
        <3> QED
            BY <1>4, <3>1
    <2> QED
        BY <1>6, <2>1 DEF Recurs
<1>8. PICK f \in [0..m -> Nat] : Follows(f, h, m)
    <2>1. 0 \in Nat
        OBVIOUS
    <2> QED
        BY <1>1, <1>7, <2>1, Recursion, Zenon
<1>9. f = [n \in 0..m |-> IF n = 0 THEN 0 ELSE f[n - 1] * (MaxByte + 1) + s[n]]
    BY <1>4, <1>8 DEF Follows
<1> QED
    BY <1>1, <1>9 DEF IsValue

\* Reading the bytes of a version gives the version.
LEMMA DecodedVersion ==
    ASSUME NEW v \in 0..MaxVersion
    PROVE  decodeVersion(encodeVersion(v)) = v
<1> DEFINE s == encodeVersion(v)
           value == CHOOSE value : IsValue(value, s)
           n == WordBytes
<1>1. v \in Nat /\ n \in Nat /\ v < Power(Base, n) /\ Power(Base, n) \in Nat \ {0}
    BY VersionBytes, BaseIs, PowerPositive
<1>2. s \in Strings /\ Len(s) = n
    BY VersionBytes
<1>3. \A i \in 1..n : s[i] = (v \div Power(Base, n - i)) % Base
    BY <1>1, BigEndianIs DEF encodeVersion
<1>4. IsValue(value, s)
    BY <1>2, ValueExists
<1>5. decodeVersion(s) = value[n]
    <2>1. decodeVersion(s) = value[Len(s)]
        BY <1>2 DEF decodeVersion, IsValue
    <2> QED
        BY <1>2, <2>1
<1> HIDE DEF s, value, n
<1>6. /\ value[0] = 0
      /\ \A i \in 1..n : value[i] = value[i - 1] * Base + s[i]
    BY <1>1, <1>2, <1>4 DEF IsValue, Base
<1> DEFINE g == [i \in 0..n |-> v \div Power(Base, n - i)]
<1>7. \A i \in 0..n : g[i] = v \div Power(Base, n - i)
    OBVIOUS
<1> HIDE DEF g
<1>8. value[0] = g[0]
    <2>1. 0 \in 0..n /\ n - 0 = n
        BY <1>1
    <2>2. v \div Power(Base, n) = 0
        <3>1. \A d \in Nat \ {0} : \A x \in Nat : x < d => x \div d = 0
            OBVIOUS
        <3> QED
            BY <1>1, <3>1
    <2> QED
        BY <1>6, <1>7, <2>1, <2>2
<1>9. ASSUME NEW i \in 1..n, value[i - 1] = g[i - 1] PROVE value[i] = g[i]
    <2> DEFINE p == Power(Base, n - i)
               x == v \div p
    <2>1. i \in 0..n /\ i - 1 \in 0..n /\ n - i \in Nat /\ n - (i - 1) = (n - i) + 1
        BY <1>1
    <2>2. p \in Nat \ {0} /\ Power(Base, (n - i) + 1) = Base * p
        BY <2>1, BaseIs, PowerPositive, PowerStep
    <2>3. x \in Nat
        BY <1>1, <2>2, Divided
    <2>4. v \div (p * Base) = x \div Base
        BY <1>1, <2>2, BaseIs, DividedTwice
    <2>5. g[i] = x /\ s[i] = x % Base
        BY <1>3, <1>7, <2>1
    <2> HIDE DEF x, p
    <2>6. Base * p = p * Base
        BY <2>2, BaseIs
    <2>7. g[i - 1] = x \div Base
        BY <1>7, <2>1, <2>2, <2>4, <2>6
    <2>8. x = Base * (x \div Base) + (x % Base) /\ x \div Base \in Nat
        BY <2>3, BaseIs, Divided
    <2>9. Base * (x \div Base) = (x \div Base) * Base
        BY <2>8, BaseIs
    <2>10. value[i] = (x \div Base) * Base + (x % Base)
        BY <1>6, <1>9, <2>5, <2>7
    <2> QED
        BY <2>5, <2>8, <2>9, <2>10
<1>10. GoOnAlike(value, g, n)
    BY <1>8, <1>9 DEF GoOnAlike
<1>11. Alike(value, g, n)
    BY <1>1, <1>10, Agreement, Zenon
<1>12. g[n] = v
    <2>1. n \in 0..n /\ n - n = 0
        BY <1>1
    <2>2. Power(Base, 0) = 1 /\ v \div 1 = v
        BY <1>1, BaseIs, PowerStep
    <2> QED
        BY <1>7, <2>1, <2>2
<1>13. value[n] = g[n]
    BY <1>1, <1>11 DEF Alike
<1> QED
    BY <1>5, <1>12, <1>13 DEF s

\* One step of decodeRawKey at position i, when f tells what follows.
DecodeStep(s, f, i) ==
    IF i >= Len(s) THEN None
    ELSE IF s[i] # 0 THEN Prepended(s[i], f[i + 1])
    ELSE IF s[i + 1] = 0 THEN [rawKey |-> <<>>, remaining |-> SubSeq(s, i + 2, Len(s))]
    ELSE IF s[i + 1] = MaxByte THEN Prepended(0, f[i + 2])
    ELSE None

IsDecoding(f, s) == f = [i \in 1..(Len(s) + 2) |-> DecodeStep(s, f, i)]

Decoded == [rawKey : Strings, remaining : Strings] \cup {None}

LEMMA PrependedIs ==
    /\ \A b \in 0..MaxByte : \A d \in Decoded : Prepended(b, d) \in Decoded
    /\ \A b \in 0..MaxByte : \A x, z \in Strings :
            Prepended(b, [rawKey |-> x, remaining |-> z]) = [rawKey |-> <<b>> \o x, remaining |-> z]
<1>1. None \notin [rawKey : Strings, remaining : Strings]
    BY EncodingsAssumption DEF Strings
<1>2. \A b \in 0..MaxByte : \A x \in Strings : <<b>> \o x \in Strings
    BY StringsAre
<1>3. ASSUME NEW b \in 0..MaxByte, NEW x \in Strings, NEW z \in Strings
      PROVE  Prepended(b, [rawKey |-> x, remaining |-> z]) = [rawKey |-> <<b>> \o x, remaining |-> z]
    <2>1. [rawKey |-> x, remaining |-> z] # None
        BY <1>1
    <2> QED
        BY <2>1 DEF Prepended
<1>4. ASSUME NEW b \in 0..MaxByte, NEW d \in Decoded PROVE Prepended(b, d) \in Decoded
    <2>1. CASE d = None
        BY <2>1 DEF Prepended, Decoded
    <2>2. CASE d # None
        <3>1. d \in [rawKey : Strings, remaining : Strings]
            BY <2>2 DEF Decoded
        <3>2. d.rawKey \in Strings /\ d.remaining \in Strings
              /\ d = [rawKey |-> d.rawKey, remaining |-> d.remaining]
            BY <3>1
        <3>3. Prepended(b, d) = [rawKey |-> <<b>> \o d.rawKey, remaining |-> d.remaining]
            BY <1>3, <3>2
        <3>4. [rawKey |-> <<b>> \o d.rawKey, remaining |-> d.remaining] \in Decoded
            BY <1>2, <3>2 DEF Decoded
        <3> QED
            BY <3>3, <3>4
    <2> QED
        BY <2>1, <2>2
<1> QED
    BY <1>3, <1>4

LEMMA DecodeStepIs ==
    ASSUME NEW s \in Strings, NEW f \in [1..(Len(s) + 2) -> Decoded], NEW i \in 1..(Len(s) + 2)
    PROVE  DecodeStep(s, f, i) \in Decoded
<1>1. Len(s) \in Nat /\ None \in Decoded /\ 0 \in 0..MaxByte
    BY BaseIs DEF Strings, Decoded
<1>2. CASE i >= Len(s)
    BY <1>1, <1>2 DEF DecodeStep
<1>3. CASE ~(i >= Len(s))
    <2>1. i \in 1..Len(s) /\ i + 1 \in 1..(Len(s) + 2) /\ i + 2 \in 1..(Len(s) + 2)
        BY <1>1, <1>3
    <2>2. s[i] \in 0..MaxByte
        BY <2>1, ElementOfSeq DEF Strings
    <2>3. f[i + 1] \in Decoded /\ f[i + 2] \in Decoded
        BY <2>1
    <2>4. Prepended(s[i], f[i + 1]) \in Decoded /\ Prepended(0, f[i + 2]) \in Decoded
        BY <1>1, <2>2, <2>3, PrependedIs
    <2>5. SubSeq(s, i + 2, Len(s)) \in Strings
        <3>1. i + 2 \in Nat \ {0} /\ Len(s) <= Len(s)
            BY <1>1
        <3> QED
            BY <1>1, <3>1, PartOf DEF Strings
    <2>6. [rawKey |-> <<>>, remaining |-> SubSeq(s, i + 2, Len(s))] \in Decoded
        BY <2>5, StringsAre DEF Decoded
    <2> QED
        BY <1>1, <1>3, <2>4, <2>6 DEF DecodeStep
<1> QED
    BY <1>2, <1>3

LEMMA DecodingExists ==
    ASSUME NEW s \in Strings
    PROVE  \E f : IsDecoding(f, s)
<1> DEFINE L == Len(s) + 2
           m == L - 1
           Turned(g) == [i \in 1..L |-> g[L - i]]
           h == [k \in 0..m |-> [g \in [0..m -> Decoded] |-> DecodeStep(s, Turned(g), L - k)]]
<1>1. Len(s) \in Nat /\ L = Len(s) + 2 /\ L \in Nat /\ m \in Nat /\ m = L - 1
    BY DEF Strings
<1> HIDE DEF L, m
<1>2. /\ \A k \in 0..m : L - k \in 1..L /\ L - (L - k) = k
      /\ \A i \in 1..L : L - i \in 0..m /\ L - (L - i) = i
    BY <1>1
<1>3. ASSUME NEW g \in [0..m -> Decoded]
      PROVE  Turned(g) \in [1..L -> Decoded] /\ \A i \in 1..L : Turned(g)[i] = g[L - i]
    BY <1>2
<1> HIDE DEF Turned
<1>4. \A k \in 0..m : \A g \in [0..m -> Decoded] : h[k][g] = DecodeStep(s, Turned(g), L - k)
    OBVIOUS
<1>5. \A k \in 0..m : \A g \in [0..m -> Decoded] : DecodeStep(s, Turned(g), L - k) \in Decoded
    BY <1>1, <1>2, <1>3, DecodeStepIs
<1>6. h \in [0..m -> [[0..m -> Decoded] -> Decoded]]
    BY <1>5
<1> HIDE DEF h
<1>7. Recurs(h, Decoded, m)
    <2>1. ASSUME NEW k \in 0..m, NEW f \in [0..m -> Decoded], NEW g \in [0..m -> Decoded],
                 \A j \in 0..m : j < k => f[j] = g[j]
          PROVE  h[k][f] = h[k][g]
        <3> DEFINE i == L - k
        <3>1. i \in 1..L /\ L - i = k
            BY <1>2
        <3>2. CASE i >= Len(s)
            <4>1. DecodeStep(s, Turned(f), i) = None /\ DecodeStep(s, Turned(g), i) = None
                BY <3>2 DEF DecodeStep
            <4> QED
                BY <1>4, <4>1
        <3>3. CASE ~(i >= Len(s))
            <4> HIDE DEF i
            <4>1. /\ i + 1 \in 1..L /\ i + 2 \in 1..L
                  /\ L - (i + 1) \in 0..m /\ L - (i + 1) < k
                  /\ L - (i + 2) \in 0..m /\ L - (i + 2) < k
                BY <1>1, <3>1, <3>3
            <4>2. f[L - (i + 1)] = g[L - (i + 1)] /\ f[L - (i + 2)] = g[L - (i + 2)]
                BY <2>1, <4>1
            <4>3. /\ Turned(f)[i + 1] = f[L - (i + 1)] /\ Turned(f)[i + 2] = f[L - (i + 2)]
                  /\ Turned(g)[i + 1] = g[L - (i + 1)] /\ Turned(g)[i + 2] = g[L - (i + 2)]
                BY <1>3, <4>1
            <4>4. Turned(f)[i + 1] = Turned(g)[i + 1] /\ Turned(f)[i + 2] = Turned(g)[i + 2]
                BY <4>2, <4>3
            <4>5. DecodeStep(s, Turned(f), i) = DecodeStep(s, Turned(g), i)
                BY <4>4 DEF DecodeStep
            <4> QED
                BY <1>4, <4>5 DEF i
        <3> QED
            BY <3>2, <3>3
    <2> QED
        BY <1>6, <2>1 DEF Recurs
<1>8. PICK g \in [0..m -> Decoded] : Follows(g, h, m)
    <2>1. None \in Decoded
        BY DEF Decoded
    <2> QED
        BY <1>1, <1>7, <2>1, Recursion, Zenon
<1> DEFINE f == Turned(g)
<1>9. ASSUME NEW i \in 1..L PROVE f[i] = DecodeStep(s, f, i)
    <2>1. L - i \in 0..m /\ L - (L - i) = i
        BY <1>2
    <2>2. f[i] = g[L - i]
        BY <1>3
    <2>3. g[L - i] = h[L - i][g]
        BY <1>8, <2>1 DEF Follows
    <2>4. h[L - i][g] = DecodeStep(s, f, L - (L - i))
        BY <1>4, <2>1
    <2> QED
        BY <2>1, <2>2, <2>3, <2>4
<1>10. f \in [1..L -> Decoded]
    BY <1>3
<1> HIDE DEF f
<1>11. f = [i \in 1..L |-> DecodeStep(s, f, i)]
    BY <1>9, <1>10
<1> QED
    BY <1>1, <1>11 DEF IsDecoding

\* Before the last n bytes of r, what follows is decoded to them and the rest.
DecodesAt(f, r, z, n) ==
    \A c, x \in Strings : r = c \o x /\ Len(x) = n =>
        f[Len(EscapedRawKey(c)) + 1] = [rawKey |-> x, remaining |-> z]

LEMMA DecodesTerminator ==
    ASSUME NEW r \in Strings, NEW z \in Strings, NEW f, IsDecoding(f, TerminatedRawKey(r) \o z)
    PROVE  DecodesAt(f, r, z, 0)
<1> SUFFICES ASSUME NEW c \in Strings, NEW x \in Strings, r = c \o x, Len(x) = 0
             PROVE  f[Len(EscapedRawKey(c)) + 1] = [rawKey |-> x, remaining |-> z]
    BY DEF DecodesAt
<1>1. x = <<>> /\ c = r
    BY DEF Strings
<1> DEFINE e == EscapedRawKey(r)
           s == TerminatedRawKey(r) \o z
           i == Len(e) + 1
           d == <<0, 0>>
<1>2. e \in Strings /\ d \in Strings /\ Len(d) = 2 /\ d[1] = 0 /\ d[2] = 0
    BY EscapedStep, BaseIs DEF Strings
<1>3. s = (e \o d) \o z
    BY DEF TerminatedRawKey
<1> HIDE DEF e, d
<1> DEFINE ed == e \o d
<1>4. /\ ed \in Strings /\ Len(e) \in Nat /\ Len(ed) = Len(e) + 2
      /\ ed[Len(e) + 1] = 0 /\ ed[Len(e) + 2] = 0
    <2>1. 1 \in 1..Len(d) /\ 2 \in 1..Len(d)
        BY <1>2
    <2>2. ed \in Strings /\ Len(e) \in Nat /\ Len(ed) = Len(e) + Len(d)
          /\ \A j \in 1..Len(d) : ed[Len(e) + j] = d[j]
        BY <1>2, JoinIs, ZenonT(30)
    <2> HIDE DEF ed
    <2>3. ed[Len(e) + 1] = d[1] /\ ed[Len(e) + 2] = d[2]
        BY <2>1, <2>2
    <2> QED
        BY <1>2, <2>2, <2>3
<1>5. /\ s \in Strings /\ Len(z) \in Nat /\ Len(s) = Len(e) + 2 + Len(z)
      /\ \A j \in 1..Len(ed) : s[j] = ed[j]
      /\ SubSeq(s, Len(ed) + 1, Len(s)) = z
    <2> HIDE DEF ed
    <2>1. /\ ed \o z \in Strings /\ Len(z) \in Nat /\ Len(ed \o z) = Len(ed) + Len(z)
          /\ \A j \in 1..Len(ed) : (ed \o z)[j] = ed[j]
        BY <1>4, JoinIs
    <2>2. SubSeq(ed \o z, Len(ed) + 1, Len(ed \o z)) = z
        BY <1>4, PartsOfJoin
    <2>3. s = ed \o z
        BY <1>3 DEF ed
    <2> HIDE DEF s
    <2> QED
        BY <1>4, <2>1, <2>2, <2>3
<1> HIDE DEF s, ed
<1>7. s[i] = 0 /\ s[i + 1] = 0
    <2>1. i \in 1..Len(ed) /\ i + 1 \in 1..Len(ed) /\ i + 1 = Len(e) + 2
        BY <1>4
    <2> QED
        BY <1>4, <1>5, <2>1
<1>8. SubSeq(s, i + 2, Len(s)) = z
    <2>1. i + 2 = Len(ed) + 1
        BY <1>4
    <2> QED
        BY <1>5, <2>1
<1>9. f[i] = DecodeStep(s, f, i)
    <2>1. i \in 1..(Len(s) + 2)
        BY <1>4, <1>5
    <2>2. IsDecoding(f, s)
        BY DEF s
    <2> QED
        BY <2>1, <2>2 DEF IsDecoding
<1>10. ~(i >= Len(s))
    BY <1>4, <1>5
<1>11. f[i] = [rawKey |-> <<>>, remaining |-> z]
    <2> HIDE DEF i
    <2> QED
        BY <1>7, <1>8, <1>9, <1>10 DEF DecodeStep
<1> QED
    BY <1>1, <1>11 DEF e

LEMMA DecodesByte ==
    ASSUME NEW r \in Strings, NEW z \in Strings, NEW f, IsDecoding(f, TerminatedRawKey(r) \o z),
           NEW n \in Nat, DecodesAt(f, r, z, n)
    PROVE  DecodesAt(f, r, z, n + 1)
<1> SUFFICES ASSUME NEW c \in Strings, NEW x \in Strings, r = c \o x, Len(x) = n + 1
             PROVE  f[Len(EscapedRawKey(c)) + 1] = [rawKey |-> x, remaining |-> z]
    BY DEF DecodesAt
<1> DEFINE b == x[1]
           y == SubSeq(x, 2, Len(x))
<1>1. b \in 0..MaxByte /\ y \in Strings /\ Len(y) = n
    <2>1. 1 \in 1..Len(x) /\ 2 \in Nat \ {0} /\ Len(x) \in Nat /\ Len(x) <= Len(x)
        BY DEF Strings
    <2>2. b \in 0..MaxByte
        BY <2>1, ElementOfSeq DEF Strings
    <2>3. y \in Strings /\ Len(y) = IF 2 <= Len(x) THEN Len(x) - 2 + 1 ELSE 0
        BY <2>1, PartOf DEF Strings
    <2> QED
        BY <2>2, <2>3
<1>2. x = <<b>> \o y
    BY DEF Strings
<1> HIDE DEF b, y
<1> DEFINE c1 == c \o <<b>>
           e == EscapedRawKey(c)
           eb == EscapedByte(b)
           rest == (EscapedRawKey(y) \o <<0, 0>>) \o z
           s == TerminatedRawKey(r) \o z
           i == Len(e) + 1
<1>3. <<b>> \in Strings /\ c1 \in Strings
    BY <1>1, StringsAre
<1>4. r = c1 \o y
    <2>1. c \in Strings /\ <<b>> \in Strings /\ y \in Strings
        BY <1>1, <1>3
    <2>2. (c \o <<b>>) \o y = c \o (<<b>> \o y)
        <3>1. Regroups(c, <<b>>, y)
            BY <2>1, JoinedTwice, Zenon
        <3> QED
            BY <3>1 DEF Regroups
    <2> QED
        BY <1>2, <2>2, Zenon
<1>5. /\ e \in Strings /\ eb \in Strings /\ EscapedRawKey(y) \in Strings /\ <<0, 0>> \in Strings
      /\ rest \in Strings /\ EscapedRawKey(c1) = e \o eb
      /\ EscapedRawKey(r) = EscapedRawKey(c1) \o EscapedRawKey(y)
    <2>1. <<0, 0>> \in Strings
        BY BaseIs DEF Strings
    <2>2. e \in Strings /\ eb \in Strings /\ EscapedRawKey(y) \in Strings
        BY <1>1, EscapedStep, EscapedByteIs
    <2>3. EscapedRawKey(c1) = e \o eb
        BY <1>1, EscapedStep
    <2>4. EscapedRawKey(r) = EscapedRawKey(c1) \o EscapedRawKey(y)
        BY <1>1, <1>3, <1>4, EscapedJoin
    <2> QED
        BY <2>1, <2>2, <2>3, <2>4, StringsAre
<1>6. s = e \o (eb \o rest)
    <2> DEFINE d == <<0, 0>>
               ey == EscapedRawKey(y)
    <2>1. s = (((e \o eb) \o ey) \o d) \o z
        BY <1>5 DEF TerminatedRawKey
    <2>2. e \in Strings /\ eb \in Strings /\ ey \in Strings /\ d \in Strings /\ z \in Strings
        BY <1>5
    <2>3. rest = (ey \o d) \o z
        OBVIOUS
    <2> HIDE DEF d, ey, e, eb, rest, s
    <2>4. (((e \o eb) \o ey) \o d) \o z = e \o (eb \o ((ey \o d) \o z))
        <3>1. Regrouped(e, eb, ey, d, z)
            BY <2>2, JoinedOften, Zenon
        <3> QED
            BY <3>1 DEF Regrouped
    <2> QED
        BY <2>1, <2>3, <2>4, Zenon
<1>7. f[Len(EscapedRawKey(c1)) + 1] = [rawKey |-> y, remaining |-> z]
    BY <1>1, <1>3, <1>4 DEF DecodesAt
<1>8. Len(eb) = (IF b = 0 THEN 2 ELSE 1) /\ eb[1] = b /\ (b = 0 => eb[2] = MaxByte)
    BY <1>1, EscapedByteIs DEF EscapedByte
<1>9. IsDecoding(f, s)
    OBVIOUS
<1>10. Len(rest) >= 2 /\ Len(rest) \in Nat
    BY <1>5 DEF Strings
<1> HIDE DEF rest, s, c1
<1>11. Len(EscapedRawKey(c1)) = Len(e) + Len(eb) /\ Len(e) \in Nat
    BY <1>5 DEF Strings
<1> HIDE DEF e, eb
<1>12. eb \o rest \in Strings /\ Len(eb \o rest) = Len(eb) + Len(rest) /\ \A j \in 1..Len(eb) : (eb \o rest)[j] = eb[j]
    BY <1>5, JoinIs
<1>13. /\ Len(s) = Len(e) + (Len(eb) + Len(rest))
       /\ \A j \in 1..Len(eb \o rest) : s[Len(e) + j] = (eb \o rest)[j]
    <2> DEFINE er == eb \o rest
    <2>1. er \in Strings /\ s = e \o er /\ Len(er) = Len(eb) + Len(rest)
        BY <1>6, <1>12
    <2> HIDE DEF er
    <2>2. Len(e \o er) = Len(e) + Len(er) /\ \A j \in 1..Len(er) : (e \o er)[Len(e) + j] = er[j]
        BY <1>5, <2>1, JoinIs, ZenonT(30)
    <2> QED
        BY <2>1, <2>2 DEF er
<1>14. \A j \in 1..Len(eb) : s[Len(e) + j] = eb[j]
    <2>1. Len(eb) \in Nat /\ \A j \in 1..Len(eb) : j \in 1..Len(eb \o rest)
        BY <1>8, <1>10, <1>12
    <2> QED
        BY <1>12, <1>13, <2>1
<1>15. s[i] = b
    <2>1. 1 \in 1..Len(eb)
        BY <1>8
    <2> QED
        BY <1>8, <1>14, <2>1
<1>16. i \in 1..(Len(s) + 2) /\ ~(i >= Len(s))
    BY <1>8, <1>10, <1>11, <1>13
<1>17. f[i] = DecodeStep(s, f, i)
    <2> HIDE DEF i
    <2> QED
        BY <1>9, <1>16 DEF IsDecoding
<1>18. Prepended(b, [rawKey |-> y, remaining |-> z]) = [rawKey |-> x, remaining |-> z]
    BY <1>1, <1>2, PrependedIs
<1>19. CASE b # 0
    <2>1. i + 1 = Len(EscapedRawKey(c1)) + 1
        BY <1>8, <1>11, <1>19
    <2>2. f[i + 1] = [rawKey |-> y, remaining |-> z]
        BY <1>7, <2>1
    <2> HIDE DEF i
    <2>3. f[i] = Prepended(b, f[i + 1])
        BY <1>15, <1>16, <1>17, <1>19 DEF DecodeStep
    <2> QED
        BY <1>18, <2>2, <2>3 DEF i, e
<1>20. CASE b = 0
    <2>1. i + 2 = Len(EscapedRawKey(c1)) + 1 /\ i + 1 = Len(e) + 2 /\ 2 \in 1..Len(eb)
        BY <1>8, <1>11, <1>20
    <2>2. f[i + 2] = [rawKey |-> y, remaining |-> z]
        BY <1>7, <2>1
    <2>3. s[i + 1] = MaxByte /\ MaxByte # 0
        BY <1>8, <1>14, <1>20, <2>1, EncodingsAssumption
    <2> HIDE DEF i
    <2>4. f[i] = Prepended(b, f[i + 2])
        BY <1>15, <1>16, <1>17, <1>20, <2>3 DEF DecodeStep
    <2> QED
        BY <1>18, <2>2, <2>4 DEF i, e
<1> QED
    BY <1>19, <1>20

\* Reading a terminated raw key gives it back, and what follows it.
LEMMA DecodedRawKey ==
    ASSUME NEW r \in Strings, NEW z \in Strings
    PROVE  decodeRawKey(TerminatedRawKey(r) \o z) = [rawKey |-> r, remaining |-> z]
<1> DEFINE s == TerminatedRawKey(r) \o z
           f == CHOOSE f : IsDecoding(f, s)
<1>1. s \in Strings
    BY TerminatedIs, StringsAre
<1>2. IsDecoding(f, s)
    BY <1>1, DecodingExists
<1>3. decodeRawKey(s) = f[1]
    BY DEF decodeRawKey, IsDecoding, DecodeStep
<1> HIDE DEF f
<1> DEFINE S == {n \in Nat : DecodesAt(f, r, z, n)}
<1>4. 0 \in S
    BY <1>2, DecodesTerminator
<1>5. ASSUME NEW n \in Nat, n \in S PROVE n + 1 \in S
    BY <1>2, <1>5, DecodesByte
<1>6. \A n \in Nat : n \in S
    <2> HIDE DEF S
    <2> QED
        BY <1>4, <1>5, Induction
<1>7. Len(r) \in Nat /\ <<>> \in Strings /\ r = <<>> \o r
    BY StringsAre DEF Strings
<1>8. f[Len(EscapedRawKey(<<>>)) + 1] = [rawKey |-> r, remaining |-> z]
    <2>1. DecodesAt(f, r, z, Len(r))
        BY <1>6, <1>7
    <2> QED
        BY <1>7, <2>1 DEF DecodesAt
<1>9. Len(EscapedRawKey(<<>>)) + 1 = 1
    BY EscapedStep
<1> QED
    BY <1>3, <1>8, <1>9

\* decodeMvccKey finds the kind and what follows it.
LEMMA DecodedKind ==
    ASSUME NEW k \in Kinds, NEW y \in Strings
    PROVE  decodeMvccKey(mvccKeyKindPrefix(k) \o y) = decodePayload(k, y)
<1> DEFINE p == mvccKeyKindPrefix(k)
           s == p \o y
           N == Namespace
           c == <<k>>
<1>1. p \in Strings /\ N \in Strings /\ p = N \o c /\ c \in Strings /\ Len(c) = 1 /\ c[1] = k
    BY KindsAre, StringsAre
<1> HIDE DEF p, N, c
<1>2. Len(p) = Len(N) + 1 /\ Len(N) \in Nat /\ p[Len(N) + 1] = k /\ Starts(N, p)
    <2>1. /\ Len(N \o c) = Len(N) + Len(c) /\ Len(N) \in Nat
          /\ \A i \in 1..Len(N) : (N \o c)[i] = N[i]
          /\ \A i \in 1..Len(c) : (N \o c)[Len(N) + i] = c[i]
        BY <1>1, JoinIs
    <2>2. 1 \in 1..Len(c)
        BY <1>1
    <2>3. Len(p) = Len(N) + 1 /\ p[Len(N) + 1] = k /\ \A i \in 1..Len(N) : p[i] = N[i]
        BY <1>1, <2>1, <2>2
    <2> QED
        BY <2>1, <2>3 DEF Starts
<1>3. /\ s \in Strings /\ Len(s) = Len(p) + Len(y) /\ Len(y) \in Nat
      /\ \A i \in 1..Len(p) : s[i] = p[i]
      /\ SubSeq(s, Len(p) + 1, Len(s)) = y
    BY <1>1, JoinIs, PartsOfJoin
<1> HIDE DEF s
<1>4. Len(s) > Len(N) /\ s[Len(N) + 1] = k /\ SubSeq(s, Len(N) + 2, Len(s)) = y
    <2>1. Len(N) + 1 \in 1..Len(p) /\ Len(N) + 2 = Len(p) + 1 /\ Len(s) > Len(N)
        BY <1>2, <1>3
    <2> QED
        BY <1>2, <1>3, <2>1
<1>5. Starts(N, s)
    <2>1. Len(N) <= Len(s) /\ \A i \in 1..Len(N) : i \in 1..Len(p)
        BY <1>2, <1>3
    <2> QED
        BY <1>2, <1>3, <2>1 DEF Starts
<1>6. IsPrefix(N, s)
    <2>1. N \in Seq(Int) /\ s \in Seq(Int)
        BY <1>1, <1>3, StringsAre
    <2> QED
        BY <1>5, <2>1, IsPrefixIs
<1>7. decodeMvccKey(s) = decodePayload(s[Len(N) + 1], SubSeq(s, Len(N) + 2, Len(s)))
    BY <1>4, <1>6 DEF decodeMvccKey, N
<1> QED
    BY <1>4, <1>7 DEF s, p

LEMMA DecodedRecords ==
    ASSUME NEW r \in Strings, NEW v \in 0..MaxVersion
    PROVE  /\ decodeMvccKey(encode(nextVersionKey)) = nextVersionKey
           /\ decodeMvccKey(encode(activeTransactionKey(v))) = activeTransactionKey(v)
           /\ decodeMvccKey(encode(transactionWriteKey(v, r))) = transactionWriteKey(v, r)
           /\ decodeMvccKey(encode(versionedKey(r, v))) = versionedKey(r, v)
<1> DEFINE e == encodeVersion(v)
           t == TerminatedRawKey(r)
           key == [rawKey |-> r, remaining |-> <<>>]
           keyed == [rawKey |-> r, remaining |-> e]
<1>1. /\ mvccKeyNextVersion \in Kinds /\ mvccKeyTxnActive \in Kinds
      /\ mvccKeyTxnWrite \in Kinds /\ mvccKeyVersion \in Kinds
    BY DEF Kinds
<1>2. /\ e \in Strings /\ t \in Strings /\ e \o t \in Strings /\ t \o e \in Strings
      /\ <<>> \in Strings /\ t \o <<>> = t
    <2>1. e \in Strings /\ t \in Strings /\ e \o t \in Strings /\ t \o e \in Strings
        BY EncodeIs
    <2> HIDE DEF e, t
    <2> QED
        BY <2>1, StringsAre DEF Strings
<1>3. v # None /\ decodeVersion(e) = v /\ Len(e) = WordBytes /\ WordBytes \in Nat
    <2>1. v \in Nat
        BY VersionBytes
    <2> QED
        BY <2>1, DecodedVersion, VersionBytes, EncodingsAssumption
<1>4. decodeRawKey(t) = key /\ decodeRawKey(t \o e) = keyed
    <2>1. decodeRawKey(TerminatedRawKey(r) \o <<>>) = key
        BY <1>2, DecodedRawKey
    <2>2. decodeRawKey(TerminatedRawKey(r) \o e) = keyed
        BY <1>2, DecodedRawKey
    <2> QED
        BY <1>2, <2>1, <2>2
<1>5. key # None /\ keyed # None
    <2>1. None \notin [rawKey : Strings, remaining : Strings]
        BY EncodingsAssumption DEF Strings
    <2> HIDE DEF e
    <2>2. key \in [rawKey : Strings, remaining : Strings] /\ keyed \in [rawKey : Strings, remaining : Strings]
        BY <1>2
    <2> HIDE DEF key, keyed
    <2> QED
        BY <2>1, <2>2
<1>6. /\ key.rawKey = r /\ key.remaining = <<>> /\ keyed.rawKey = r /\ keyed.remaining = e
    OBVIOUS
<1> HIDE DEF e, t, key, keyed
<1>7. decodeMvccKey(encode(nextVersionKey)) = nextVersionKey
    <2>1. decodeMvccKey(encode(nextVersionKey)) = decodePayload(mvccKeyNextVersion, <<>>)
        BY <1>1, <1>2, DecodedKind, EncodeIs
    <2> QED
        BY <2>1 DEF decodePayload, mvccKeyNextVersion, mvccKeyTxnActive, mvccKeyTxnWrite, mvccKeyVersion
<1>8. decodeMvccKey(encode(activeTransactionKey(v))) = activeTransactionKey(v)
    <2>1. decodeMvccKey(encode(activeTransactionKey(v))) = decodePayload(mvccKeyTxnActive, e)
        BY <1>1, <1>2, DecodedKind, EncodeIs DEF e
    <2> QED
        BY <1>3, <2>1 DEF decodePayload, mvccKeyNextVersion, mvccKeyTxnActive, mvccKeyTxnWrite, mvccKeyVersion
<1>9. decodeMvccKey(encode(transactionWriteKey(v, r))) = transactionWriteKey(v, r)
    <2> DEFINE y == e \o t
    <2>1. decodeMvccKey(encode(transactionWriteKey(v, r))) = decodePayload(mvccKeyTxnWrite, y)
        BY <1>1, <1>2, DecodedKind, EncodeIs DEF e, t
    <2>2. /\ SubSeq(y, 1, WordBytes) = e /\ SubSeq(y, WordBytes + 1, Len(y)) = t
          /\ ~(Len(y) < WordBytes)
        <3>1. SubSeq(y, 1, Len(e)) = e /\ SubSeq(y, Len(e) + 1, Len(y)) = t
            BY <1>2, PartsOfJoin
        <3>2. Len(y) = Len(e) + Len(t) /\ Len(t) \in Nat
            BY <1>2, JoinIs
        <3> HIDE DEF y
        <3> QED
            BY <1>3, <3>1, <3>2
    <2> HIDE DEF y
    <2> DEFINE w == decodeVersion(SubSeq(y, 1, WordBytes))
               g == decodeRawKey(SubSeq(y, WordBytes + 1, Len(y)))
    <2>3. decodePayload(mvccKeyTxnWrite, y) =
            IF g = None THEN None
            ELSE IF g.remaining # <<>> THEN None ELSE transactionWriteKey(w, g.rawKey)
        <3> HIDE DEF w, g
        <3> QED
            BY <2>2 DEF decodePayload, w, g, mvccKeyNextVersion, mvccKeyTxnActive, mvccKeyTxnWrite, mvccKeyVersion
    <2>4. w = v /\ g = key
        BY <1>3, <1>4, <2>2
    <2> HIDE DEF w, g
    <2> QED
        BY <1>5, <1>6, <2>1, <2>3, <2>4
<1>10. decodeMvccKey(encode(versionedKey(r, v))) = versionedKey(r, v)
    <2> DEFINE y == t \o e
    <2>1. decodeMvccKey(encode(versionedKey(r, v))) = decodePayload(mvccKeyVersion, y)
        BY <1>1, <1>2, DecodedKind, EncodeIs DEF e, t
    <2>2. decodeRawKey(y) = keyed
        BY <1>4
    <2> HIDE DEF y
    <2> QED
        BY <1>3, <1>5, <1>6, <2>1, <2>2
            DEF decodePayload, mvccKeyNextVersion, mvccKeyTxnActive, mvccKeyTxnWrite, mvccKeyVersion
<1> QED
    BY <1>7, <1>8, <1>9, <1>10

LEMMA RecordsDecode ==
    ASSUME NEW R \in Strings, NEW k \in Records(R)
    PROVE  decodeMvccKey(encode(k)) = k
<1>1. 0 \in 0..MaxVersion
    BY VersionBytes
<1>2. CASE k = nextVersionKey
    BY <1>1, <1>2, DecodedRecords
<1>3. ASSUME NEW v \in Versions,
             k = activeTransactionKey(v) \/ k = transactionWriteKey(v, R) \/ k = versionedKey(R, v)
      PROVE  decodeMvccKey(encode(k)) = k
    <2>1. v \in 0..MaxVersion
        BY VersionsWithin
    <2> QED
        BY <1>3, <2>1, DecodedRecords
<1> QED
    BY <1>2, <1>3, RecordForms

-----------------------------------------------------------------------------
(***************************************************************************)
(* The states.                                                             *)
(***************************************************************************)
AnyRawKey == [of : {"raw"}, bytes : Strings]

AnyRow == [of : {"row"}, name : Name, key : PrimaryKey]

\* Two raw keys, or two rows.
Typed ==
    \/ left \in AnyRawKey /\ right \in AnyRawKey
    \/ left \in AnyRow /\ right \in AnyRow

LEMMA LongerIs ==
    ASSUME NEW key \in AnyRawKey
    PROVE  Longer(key) \subseteq AnyRawKey
<1> SUFFICES ASSUME NEW k \in Longer(key) PROVE k \in AnyRawKey
    OBVIOUS
<1>1. PICK b \in RawByte : k = RawKey(Append(key.bytes, b))
    BY DEF Longer
<1>2. b \in 0..MaxByte /\ key.bytes \in Seq(0..MaxByte)
    BY EncodingsAssumption DEF AnyRawKey, Strings
<1>3. Append(key.bytes, b) \in Strings
    BY <1>2 DEF Strings
<1> HIDE DEF Longer
<1> QED
    BY <1>1, <1>3 DEF AnyRawKey, RawKey

LEMMA UnkeyedIs == Unkeyed \subseteq AnyRow
<1>1. <<"null", 0>> \in PrimaryKey
    BY DEF PrimaryKey
<1> QED
    BY <1>1 DEF Unkeyed, AnyRow, Row

LEMMA OfRaw ==
    /\ \A k \in AnyRawKey : k.of = "raw" /\ k.bytes \in Strings
    /\ \A k \in AnyRow : k.of = "row" /\ k.name \in Name /\ k.key \in PrimaryKey
BY DEF AnyRawKey, AnyRow

\* Growing the raw keys and keying the rows keeps two of a kind side by side.
THEOREM AlwaysTyped == Spec => []Typed
<1>1. Init => Typed
    <2>1. RawKey(<<>>) \in AnyRawKey
        BY StringsAre DEF RawKey, AnyRawKey
    <2> QED
        BY <2>1, UnkeyedIs DEF Init, Typed
<1>2. Typed /\ [Next]_vars => Typed'
    <2> SUFFICES ASSUME Typed, [Next]_vars PROVE Typed'
        OBVIOUS
    <2>1. CASE GrowLeft
        <3>1. left \in AnyRawKey /\ right \in AnyRawKey
            BY <2>1, OfRaw DEF Typed, GrowLeft
        <3>2. left' \in AnyRawKey /\ right' = right
            BY <2>1, <3>1, LongerIs DEF GrowLeft
        <3> QED
            BY <3>1, <3>2 DEF Typed, AnyRawKey
    <2>2. CASE GrowRight
        <3>1. left \in AnyRawKey /\ right \in AnyRawKey
            BY <2>2, OfRaw DEF Typed, GrowRight
        <3>2. right' \in AnyRawKey /\ left' = left
            BY <2>2, <3>1, LongerIs DEF GrowRight
        <3> QED
            BY <3>1, <3>2 DEF Typed, AnyRawKey
    <2>3. CASE KeyLeft
        <3>1. left \in AnyRow /\ right \in AnyRow
            BY <2>3, OfRaw, UnkeyedIs DEF Typed, KeyLeft
        <3>2. PICK key \in PrimaryKey : left' = Row(left.name, key)
            BY <2>3 DEF KeyLeft
        <3>3. left' \in AnyRow /\ right' = right
            BY <2>3, <3>1, <3>2, OfRaw DEF KeyLeft, AnyRow, Row
        <3> QED
            BY <3>1, <3>3 DEF Typed
    <2>4. CASE KeyRight
        <3>1. left \in AnyRow /\ right \in AnyRow
            BY <2>4, OfRaw, UnkeyedIs DEF Typed, KeyRight
        <3>2. PICK key \in PrimaryKey : right' = Row(right.name, key)
            BY <2>4 DEF KeyRight
        <3>3. right' \in AnyRow /\ left' = left
            BY <2>4, <3>1, <3>2, OfRaw DEF KeyRight, AnyRow, Row
        <3> QED
            BY <3>1, <3>3 DEF Typed
    <2>5. CASE UNCHANGED vars
        BY <2>5 DEF vars, Typed
    <2> QED
        BY <2>1, <2>2, <2>3, <2>4, <2>5 DEF Next
<1> QED
    BY <1>1, <1>2, PTL DEF Spec

-----------------------------------------------------------------------------
(***************************************************************************)
(* The theorems about the keys of the MVCC layer.                          *)
(***************************************************************************)
LEMMA RawPair ==
    ASSUME Typed, RawKeys
    PROVE  /\ left.bytes \in Strings /\ right.bytes \in Strings
           /\ left = right <=> left.bytes = right.bytes
<1>1. left \in AnyRawKey /\ right \in AnyRawKey
    BY OfRaw DEF Typed, RawKeys
<1>2. left = right <=> left.bytes = right.bytes
    BY <1>1 DEF AnyRawKey
<1> QED
    BY <1>1, <1>2, OfRaw

\* decodeMvccKey returns what encode was given: for records of every kind,
\* raw keys of any bytes and any length, and every version of 64 bits.
THEOREM DecodingInvertsEncoding == Spec => []DecodeInvertsEncode
<1>1. Typed => DecodeInvertsEncode
    BY RawPair, RecordsDecode DEF DecodeInvertsEncode
<1> QED
    BY <1>1, AlwaysTyped, PTL

\* Stored versions sort by raw key first and version second, as ScanPrefix
\* relies on, however the raw keys overlap and whatever bytes they hold.
THEOREM StoredVersionsAreSorted == Spec => []VersionsSortByKey
<1>1. Typed => VersionsSortByKey
    <2> SUFFICES ASSUME Typed, RawKeys, NEW v \in Versions, NEW w \in Versions
                 PROVE  Less(encode(versionedKey(left.bytes, v)), encode(versionedKey(right.bytes, w))) <=>
                            Less(left.bytes, right.bytes) \/ (left = right /\ v < w)
        BY DEF VersionsSortByKey
    <2>1. v \in 0..MaxVersion /\ w \in 0..MaxVersion
        BY VersionsWithin
    <2>2. left.bytes \in Strings /\ right.bytes \in Strings /\ (left = right <=> left.bytes = right.bytes)
        BY RawPair
    <2> QED
        BY <2>1, <2>2, VersionsInOrder
<1> QED
    BY <1>1, AlwaysTyped, PTL

\* Every range and every prefix that the MVCC layer scans holds the records
\* it is meant for and no others.
THEOREM EveryScanIsExact == Spec => []ScansAreExact
<1>1. Typed => ScansAreExact
    <2> SUFFICES ASSUME Typed, RawKeys, NEW r \in Records(right.bytes)
                 PROVE  KeyRangesAreExact(r) /\ PrefixesAreExact(r)
        BY DEF ScansAreExact
    <2>1. left.bytes \in Strings /\ right.bytes \in Strings
        BY RawPair
    <2>2. ASSUME NEW v \in Versions PROVE v \in 0..MaxVersion
        BY VersionsWithin
    <2>3. KeyRangesAreExact(r)
        BY <2>1, <2>2, RangesExact DEF KeyRangesAreExact
    <2>4. 0 \in 0..MaxVersion
        BY VersionBytes
    <2>5. PrefixesAreExact(r)
        BY <2>1, <2>2, <2>4, PrefixesExact DEF PrefixesAreExact
    <2> QED
        BY <2>3, <2>5
<1> QED
    BY <1>1, AlwaysTyped, PTL

-----------------------------------------------------------------------------
(***************************************************************************)
(* Primary keys.                                                           *)
(***************************************************************************)

\* The sign bit splits the words in two.
LEMMA Halves ==
    /\ KV!Half \in Nat \ {0} /\ 2 * KV!Half = MaxVersion + 1
    /\ \A u : KV!BigEndian(u, WordBytes, MaxByte) = encodeVersion(u)
<1> DEFINE P == Power(Base, WordBytes)
           Q == Power(Base, WordBytes - 1)
           h == Base \div 2
<1>1. KV!Half = P \div 2
    BY DEF KV!Half, KV!Power, Power, Base
<1>2. \A u : KV!BigEndian(u, WordBytes, MaxByte) = encodeVersion(u)
    BY DEF KV!BigEndian, KV!Power, encodeVersion, BigEndian, Power
<1>3. h \in Nat \ {0} /\ Base = 2 * h
    BY EncodingsAssumption DEF Base
<1>4. WordBytes - 1 \in Nat /\ (WordBytes - 1) + 1 = WordBytes
    BY EncodingsAssumption
<1>5. Q \in Nat \ {0} /\ P = Base * Q
    BY <1>4, BaseIs, PowerPositive, PowerStep
<1>6. P = MaxVersion + 1
    <2>1. P \in Nat \ {0}
        BY VersionBytes, BaseIs, PowerPositive
    <2> HIDE DEF P
    <2>2. MaxVersion = P - 1
        BY VersionBytes DEF P
    <2> QED
        BY <2>1, <2>2
<1> HIDE DEF P, Q, h
<1>7. \A a, b \in Nat \ {0} : (2 * a) * b = 2 * (a * b) /\ (2 * (a * b)) \div 2 = a * b /\ a * b \in Nat \ {0}
    OBVIOUS
<1>8. h * Q \in Nat \ {0} /\ P = 2 * (h * Q) /\ P \div 2 = h * Q
    BY <1>3, <1>5, <1>7
<1> QED
    BY <1>1, <1>2, <1>6, <1>8

\* Flipping the sign bit of a two's complement adds half of the range.
LEMMA FlippedInteger ==
    ASSUME NEW n \in (-KV!Half)..(KV!Half - 1)
    PROVE  KV!orderedInteger(n) = n + KV!Half /\ n + KV!Half \in 0..MaxVersion
<1> DEFINE H == KV!Half
           d == 2 * H
<1>1. H \in Nat \ {0} /\ d = MaxVersion + 1 /\ d \in Nat \ {0} /\ MaxVersion \in Nat
    BY Halves, VersionBytes
<1>2. n \in Int /\ -H <= n /\ n < H /\ n + H \in 0..MaxVersion
    BY <1>1
<1>3. \A a \in 0..(d - 1) : a % d = a /\ (a + d) % d = a /\ (a - d) % d = a
    <2> HIDE DEF d
    <2>1. ASSUME NEW a \in 0..(d - 1) PROVE a % d = a /\ (a + d) % d = a
        <3>1. d * 0 + a = a /\ d * 1 + a = a + d
            BY <1>1
        <3> QED
            BY <1>1, <3>1, QuotientIs
    <2>2. ASSUME NEW a \in 0..(d - 1) PROVE (a - d) % d = a
        BY <1>1
    <2> QED
        BY <2>1, <2>2
<1>4. KV!orderedInteger(n) = ((n % d) + H) % d
    BY DEF KV!orderedInteger
<1>5. CASE n >= 0
    <2>1. n \in 0..(d - 1) /\ n + H \in 0..(d - 1)
        BY <1>1, <1>2, <1>5
    <2> HIDE DEF d, H
    <2>2. n % d = n /\ (n + H) % d = n + H
        BY <1>3, <2>1
    <2> QED
        BY <1>2, <1>4, <2>2 DEF H
<1>6. CASE n < 0
    <2>1. n + d \in 0..(d - 1) /\ (n + d) - d = n /\ n + H \in 0..(d - 1) /\ (n + d) + H = (n + H) + d
        BY <1>1, <1>2, <1>6
    <2> HIDE DEF d, H
    <2>2. n % d = n + d /\ ((n + H) + d) % d = n + H
        BY <1>3, <2>1
    <2> QED
        BY <1>2, <1>4, <2>1, <2>2 DEF H
<1> QED
    BY <1>2, <1>5, <1>6

LEMMA FlippedFloat ==
    ASSUME NEW a \in 0..(2 * KV!Half - 1), NEW b \in 0..(2 * KV!Half - 1)
    PROVE  /\ KV!orderedFloat(a) \in 0..MaxVersion
           /\ KV!orderedFloat(a) = KV!orderedFloat(b) => a = b
           /\ Magnitude(a) < Magnitude(b) => KV!orderedFloat(a) < KV!orderedFloat(b)
           /\ KV!orderedFloat(a) < KV!orderedFloat(b) => Magnitude(a) <= Magnitude(b)
<1> DEFINE H == KV!Half
<1>1. H \in Nat \ {0} /\ 2 * H = MaxVersion + 1 /\ MaxVersion \in Nat
    BY Halves, VersionBytes
<1>2. /\ KV!orderedFloat(a) = IF a >= H THEN 2 * H - 1 - a ELSE a + H
      /\ KV!orderedFloat(b) = IF b >= H THEN 2 * H - 1 - b ELSE b + H
    BY DEF KV!orderedFloat
<1>3. Magnitude(a) = (IF a >= H THEN H - a ELSE a) /\ Magnitude(b) = (IF b >= H THEN H - b ELSE b)
    BY DEF Magnitude
<1>4. a \in 0..(2 * H - 1) /\ b \in 0..(2 * H - 1)
    OBVIOUS
<1> HIDE DEF H
<1> QED
    BY <1>1, <1>2, <1>3, <1>4

\* Numbers of a word compare as their bytes do.
LEMMA WordsCompare ==
    ASSUME NEW u \in 0..MaxVersion, NEW w \in 0..MaxVersion
    PROVE  /\ KV!BigEndian(u, WordBytes, MaxByte) \in Strings
           /\ Less(KV!BigEndian(u, WordBytes, MaxByte), KV!BigEndian(w, WordBytes, MaxByte)) <=> u < w
           /\ KV!BigEndian(u, WordBytes, MaxByte) = KV!BigEndian(w, WordBytes, MaxByte) => u = w
<1>1. /\ KV!BigEndian(u, WordBytes, MaxByte) = encodeVersion(u)
      /\ KV!BigEndian(w, WordBytes, MaxByte) = encodeVersion(w)
    BY Halves
<1> QED
    BY <1>1, VersionBytes, VersionsCompare

\* What a value stands for in a key: the tag of its kind, then its bytes.
KeyIs(value, tag, y) ==
    /\ tag \in 0..MaxByte /\ y \in Strings
    /\ KV!encodePrimaryKey(value) = <<tag>> \o y
    /\ tag = KV!typeTag(value[1])

\* The bytes of two keys of one kind, x and y, order and tell apart the values.
Keeps(value, other, x, y) ==
    /\ x = y => value = other
    /\ CASE value[1] \in {"null", "boolean", "integer"} -> Less(x, y) <=> value[2] < other[2]
         [] value[1] = "float" ->
                /\ Magnitude(value[2]) < Magnitude(other[2]) => Less(x, y)
                /\ Less(x, y) => Magnitude(value[2]) <= Magnitude(other[2])
         [] value[1] = "string" -> Less(x, y) <=> Less(value[2], other[2])

Payload(value) ==
    CASE value[1] = "null" -> <<>>
      [] value[1] = "boolean" -> <<value[2]>>
      [] value[1] = "integer" -> KV!BigEndian(KV!orderedInteger(value[2]), WordBytes, MaxByte)
      [] value[1] = "float" -> KV!BigEndian(KV!orderedFloat(value[2]), WordBytes, MaxByte)
      [] value[1] = "string" -> value[2]

\* A primary key is of one of the five kinds.
Formed(value) ==
    \/ value = <<"null", 0>>
    \/ \E n \in {0, 1} : value = <<"boolean", n>>
    \/ \E n \in (-KV!Half)..(KV!Half - 1) : value = <<"integer", n>>
    \/ \E bits \in 0..(2 * KV!Half - 1) : value = <<"float", bits>>
    \/ \E text \in Texts : value = <<"string", text>>

LEMMA KeyForms == \A value \in PrimaryKey : Formed(value)
BY DEF PrimaryKey, Formed

LEMMA KeyBytes ==
    ASSUME NEW value \in PrimaryKey
    PROVE  KeyIs(value, KV!typeTag(value[1]), Payload(value))
<1>1. MaxByte \in Nat /\ MaxByte >= 4 /\ Texts \subseteq Strings
    BY EncodingsAssumption DEF Strings
<1>2. KV!typeTag(value[1]) \in 0..MaxByte
    BY <1>1, KeyForms DEF Formed, KV!typeTag
<1>3. KV!encodePrimaryKey(value) = <<KV!typeTag(value[1])>> \o Payload(value)
    BY DEF KV!encodePrimaryKey, Payload
<1>4. Payload(value) \in Strings
    <2>1. CASE value = <<"null", 0>>
        BY <2>1, StringsAre DEF Payload
    <2>2. ASSUME NEW n \in {0, 1}, value = <<"boolean", n>> PROVE Payload(value) \in Strings
        <3>1. n \in 0..MaxByte
            BY <1>1
        <3>2. Payload(value) = <<n>>
            BY <2>2 DEF Payload
        <3> QED
            BY <3>1, <3>2, StringsAre
    <2>3. ASSUME NEW n \in (-KV!Half)..(KV!Half - 1), value = <<"integer", n>> PROVE Payload(value) \in Strings
        <3>1. Payload(value) = KV!BigEndian(KV!orderedInteger(n), WordBytes, MaxByte)
            BY <2>3 DEF Payload
        <3>2. KV!orderedInteger(n) \in 0..MaxVersion
            BY FlippedInteger
        <3> QED
            BY <3>1, <3>2, WordsCompare
    <2>4. ASSUME NEW n \in 0..(2 * KV!Half - 1), value = <<"float", n>> PROVE Payload(value) \in Strings
        <3>1. Payload(value) = KV!BigEndian(KV!orderedFloat(n), WordBytes, MaxByte)
            BY <2>4 DEF Payload
        <3>2. KV!orderedFloat(n) \in 0..MaxVersion
            BY FlippedFloat
        <3> QED
            BY <3>1, <3>2, WordsCompare
    <2>5. ASSUME NEW text \in Texts, value = <<"string", text>> PROVE Payload(value) \in Strings
        BY <1>1, <2>5 DEF Payload
    <2> QED
        BY <2>1, <2>2, <2>3, <2>4, <2>5, KeyForms DEF Formed
<1> QED
    BY <1>2, <1>3, <1>4 DEF KeyIs

LEMMA KeysOfOneKind ==
    ASSUME NEW value \in PrimaryKey, NEW other \in PrimaryKey, value[1] = other[1]
    PROVE  Keeps(value, other, Payload(value), Payload(other))
<1>1. Texts \subseteq Strings
    BY EncodingsAssumption DEF Strings
<1>8. other[1] = value[1] /\ Formed(value) /\ Formed(other)
    BY KeyForms
<1>2. CASE value[1] = "null"
    <2>1. value = <<"null", 0>> /\ other = <<"null", 0>>
        <3>1. value = <<"null", 0>>
            BY ONLY <1>2, <1>8 DEF Formed
        <3>2. other = <<"null", 0>>
            BY ONLY <1>2, <1>8 DEF Formed
        <3> QED
            BY <3>1, <3>2
    <2>2. Payload(value) = <<>> /\ Payload(other) = <<>> /\ ~Less(<<>>, <<>>)
        <3>1. <<>> \in Seq(Int)
            OBVIOUS
        <3>2. ~Less(<<>>, <<>>)
            BY <3>1, LessIrreflexive
        <3>3. Payload(<<"null", 0>>) = <<>>
            BY DEF Payload
        <3> QED
            BY <2>1, <3>2, <3>3
    <2> QED
        BY <2>1, <2>2 DEF Keeps
<1>3. CASE value[1] = "boolean"
    <2>1. PICK m \in {0, 1} : value = <<"boolean", m>>
        BY ONLY <1>3, <1>8 DEF Formed
    <2>2. PICK n \in {0, 1} : other = <<"boolean", n>>
        BY ONLY <1>3, <1>8 DEF Formed
    <2>3. Payload(value) = <<m>> /\ Payload(other) = <<n>>
        BY <2>1, <2>2 DEF Payload
    <2>4. Less(<<m>>, <<n>>) <=> m < n
        <3>1. <<0>> \in Seq(Int) /\ <<1>> \in Seq(Int) /\ <<0>>[1] < <<1>>[1] /\ <<0>> # <<>> /\ <<1>> # <<>>
            OBVIOUS
        <3>2. Below(<<0>>, <<1>>)
            BY <3>1, FirstByte
        <3>3. Less(<<0>>, <<1>>) /\ ~Less(<<1>>, <<0>>) /\ ~Less(<<0>>, <<0>>) /\ ~Less(<<1>>, <<1>>)
            BY <3>1, <3>2, BelowApart, LessIrreflexive
        <3> QED
            BY <3>3
    <2>5. <<m>> = <<n>> => m = n
        OBVIOUS
    <2> QED
        BY <2>1, <2>2, <2>3, <2>4, <2>5 DEF Keeps
<1>4. CASE value[1] = "integer"
    <2> DEFINE R == (-KV!Half)..(KV!Half - 1)
    <2>1. PICK m \in R : value = <<"integer", m>>
        BY ONLY <1>4, <1>8 DEF Formed
    <2>2. PICK n \in R : other = <<"integer", n>>
        BY ONLY <1>4, <1>8 DEF Formed
    <2> DEFINE u == KV!orderedInteger(m)
               w == KV!orderedInteger(n)
               x == KV!BigEndian(u, WordBytes, MaxByte)
               y == KV!BigEndian(w, WordBytes, MaxByte)
    <2>3. Payload(value) = x /\ Payload(other) = y
        BY <2>1, <2>2 DEF Payload
    <2>4. /\ u = m + KV!Half /\ w = n + KV!Half /\ u \in 0..MaxVersion /\ w \in 0..MaxVersion
        BY FlippedInteger
    <2> HIDE DEF u, w
    <2>5. (Less(x, y) <=> u < w) /\ (x = y => u = w)
        BY <2>4, WordsCompare
    <2>6. (u < w <=> m < n) /\ (u = w => m = n)
        BY <2>4, Halves
    <2> HIDE DEF x, y
    <2> QED
        BY <2>1, <2>2, <2>3, <2>5, <2>6 DEF Keeps
<1>5. CASE value[1] = "float"
    <2> DEFINE R == 0..(2 * KV!Half - 1)
    <2>1. PICK m \in R : value = <<"float", m>>
        BY ONLY <1>5, <1>8 DEF Formed
    <2>2. PICK n \in R : other = <<"float", n>>
        BY ONLY <1>5, <1>8 DEF Formed
    <2> DEFINE u == KV!orderedFloat(m)
               w == KV!orderedFloat(n)
               x == KV!BigEndian(u, WordBytes, MaxByte)
               y == KV!BigEndian(w, WordBytes, MaxByte)
    <2>3. Payload(value) = x /\ Payload(other) = y
        BY <2>1, <2>2 DEF Payload
    <2>4. /\ u \in 0..MaxVersion /\ w \in 0..MaxVersion /\ (u = w => m = n)
          /\ Magnitude(m) < Magnitude(n) => u < w
          /\ u < w => Magnitude(m) <= Magnitude(n)
        BY FlippedFloat
    <2> HIDE DEF u, w
    <2>5. (Less(x, y) <=> u < w) /\ (x = y => u = w)
        BY <2>4, WordsCompare
    <2> HIDE DEF x, y
    <2> QED
        BY <2>1, <2>2, <2>3, <2>4, <2>5 DEF Keeps
<1>6. CASE value[1] = "string"
    <2>1. PICK text \in Texts : value = <<"string", text>>
        BY ONLY <1>6, <1>8 DEF Formed
    <2>2. PICK t \in Texts : other = <<"string", t>>
        BY ONLY <1>6, <1>8 DEF Formed
    <2>3. Payload(value) = text /\ Payload(other) = t
        BY <2>1, <2>2 DEF Payload
    <2> QED
        BY <2>1, <2>2, <2>3 DEF Keeps
<1>7. value[1] \in {"null", "boolean", "integer", "float", "string"}
    BY <1>8 DEF Formed
<1> QED
    BY <1>2, <1>3, <1>4, <1>5, <1>6, <1>7

-----------------------------------------------------------------------------
(***************************************************************************)
(* Rows.                                                                   *)
(***************************************************************************)

\* The separator, which no name holds, keeps the names apart: also one that
\* starts with another.
LEMMA NamesApart ==
    ASSUME NEW a \in Name, NEW b \in Name, a # b
    PROVE  \/ Below(a \o <<0>>, b \o <<0>>)
           \/ Below(b \o <<0>>, a \o <<0>>)
<1>1. \A name \in Name : name \in Strings /\ name \in Seq(Int) /\ name \in Seq(1..MaxByte)
    BY EncodingsAssumption DEF Strings
<1>2. <<0>> \in Strings /\ <<0>> \in Seq(Int) /\ Len(<<0>>) = 1 /\ <<0>>[1] = 0
    BY StringsAre
<1>3. ASSUME NEW c \in Name, NEW d \in Name, Below(c, d) PROVE Below(c \o <<0>>, d \o <<0>>)
    BY <1>1, <1>2, <1>3, BelowJoined
<1>4. ASSUME NEW c \in Name, NEW d \in Name, Starts(c, d), Len(c) < Len(d)
      PROVE  Below(c \o <<0>>, d \o <<0>>)
    <2> DEFINE z == <<0>>
    <2>1. Len(c) \in Nat /\ Len(d) \in Nat /\ Len(c) + 1 \in 1..Len(d)
        BY <1>1, <1>4
    <2>2. d[Len(c) + 1] \in 1..MaxByte
        BY <1>1, <2>1, ElementOfSeq
    <2>3. c \in Strings /\ d \in Strings /\ z \in Strings /\ Len(z) = 1 /\ z[1] = 0
        BY <1>1, <1>2
    <2> HIDE DEF z
    <2>4. /\ Len(c \o z) = Len(c) + Len(z)
          /\ \A i \in 1..Len(c) : (c \o z)[i] = c[i]
          /\ \A i \in 1..Len(z) : (c \o z)[Len(c) + i] = z[i]
        BY <2>3, JoinIs
    <2>5. 1 \in 1..Len(z) /\ Len(c \o z) = Len(c) + 1
        BY <2>3, <2>4
    <2>6. (c \o z)[Len(c) + 1] < d[Len(c) + 1]
        BY <2>2, <2>3, <2>4, <2>5, BaseIs
    <2>7. \A i \in 1..Len(c) : (c \o z)[i] = d[i]
        BY <1>4, <2>4 DEF Starts
    <2>8. Len(c) < Len(c \o z)
        BY <2>1, <2>5
    <2>9. Below(c \o z, d)
        BY <1>4, <2>1, <2>6, <2>7, <2>8 DEF Below
    <2>10. c \o z \in Strings
        BY <2>3, StringsAre
    <2>11. Below(c \o z, d \o z)
        BY <2>3, <2>9, <2>10, BelowLonger
    <2> QED
        BY <2>11 DEF z
<1>5. \/ Below(a, b) \/ Below(b, a)
      \/ Starts(a, b) /\ Len(a) < Len(b)
      \/ Starts(b, a) /\ Len(b) < Len(a)
    BY <1>1, Compared
<1> QED
    BY <1>3, <1>4, <1>5

LEMMA RowPrefixes ==
    ASSUME NEW a \in Name, NEW b \in Name
    PROVE  /\ KV!rowPrefixKey(a) \in Strings
           /\ a # b => \/ Below(KV!rowPrefixKey(a), KV!rowPrefixKey(b))
                       \/ Below(KV!rowPrefixKey(b), KV!rowPrefixKey(a))
           /\ KV!rowPrefixKey(a)[1] = 2 /\ Len(KV!rowPrefixKey(a)) \in Nat \ {0}
<1> DEFINE ns == <<2>>
           z == <<0>>
           az == a \o z
           bz == b \o z
<1>1. /\ a \in Strings /\ b \in Strings /\ ns \in Strings /\ z \in Strings
      /\ Len(ns) = 1 /\ ns[1] = 2
    <2>1. a \in Strings /\ b \in Strings /\ 2 \in 0..MaxByte /\ 0 \in 0..MaxByte
        BY EncodingsAssumption DEF Strings
    <2> QED
        BY <2>1, StringsAre
<1>2. KV!rowPrefixKey(a) = (ns \o a) \o z /\ KV!rowPrefixKey(b) = (ns \o b) \o z
    BY DEF KV!rowPrefixKey, KV!keyNamespaceRow, KV!keySeparator
<1>3. a # b => Below(az, bz) \/ Below(bz, az)
    BY NamesApart
<1> HIDE DEF ns, z
<1>4. (ns \o a) \o z = ns \o az /\ (ns \o b) \o z = ns \o bz
    <2>1. Regroups(ns, a, z) /\ Regroups(ns, b, z)
        BY <1>1, JoinedTwice, Zenon
    <2> QED
        BY <2>1 DEF Regroups
<1>5. az \in Strings /\ bz \in Strings
    BY <1>1, StringsAre
<1> HIDE DEF az, bz
<1>6. /\ Below(ns \o az, ns \o bz) <=> Below(az, bz)
      /\ Below(ns \o bz, ns \o az) <=> Below(bz, az)
    BY <1>1, <1>5, CommonStart, StringsAre
<1>7. /\ ns \o az \in Strings /\ (ns \o az)[1] = 2 /\ Len(ns \o az) \in Nat \ {0}
    <2>1. /\ ns \o az \in Strings /\ Len(ns \o az) = Len(ns) + Len(az) /\ Len(az) \in Nat
          /\ \A i \in 1..Len(ns) : (ns \o az)[i] = ns[i]
        BY <1>1, <1>5, JoinIs
    <2> QED
        BY <1>1, <2>1
<1> QED
    BY <1>2, <1>3, <1>4, <1>6, <1>7

\* The key of a row: its table's prefix, the tag of its key's kind, the key.
LEMMA RowKeys ==
    ASSUME NEW r \in AnyRow
    PROVE  /\ KV!rowKey(r) = KV!rowPrefixKey(r.name) \o KV!encodePrimaryKey(r.key)
           /\ KV!rowPrefixKey(r.name) \in Strings /\ KV!encodePrimaryKey(r.key) \in Strings
           /\ KV!rowKey(r) \in Strings
<1>1. r.name \in Name /\ r.key \in PrimaryKey
    BY OfRaw
<1>2. KV!rowPrefixKey(r.name) \in Strings
    BY <1>1, RowPrefixes
<1>3. KV!encodePrimaryKey(r.key) \in Strings
    BY <1>1, KeyBytes, StringsAre DEF KeyIs
<1>4. KV!rowKey(r) = KV!rowPrefixKey(r.name) \o KV!encodePrimaryKey(r.key)
    BY DEF KV!rowKey
<1> QED
    BY <1>2, <1>3, <1>4, StringsAre

\* Keys of different kinds differ in their first byte.
LEMMA KindsDiffer ==
    ASSUME NEW value \in PrimaryKey, NEW other \in PrimaryKey,
           KV!encodePrimaryKey(value) = KV!encodePrimaryKey(other)
    PROVE  value = other
<1> DEFINE t == KV!typeTag(value[1])
           u == KV!typeTag(other[1])
           x == Payload(value)
           y == Payload(other)
<1>1. /\ t \in 0..MaxByte /\ x \in Strings /\ KV!encodePrimaryKey(value) = <<t>> \o x
      /\ u \in 0..MaxByte /\ y \in Strings /\ KV!encodePrimaryKey(other) = <<u>> \o y
    BY KeyBytes DEF KeyIs
<1>2. t = u
    <2> HIDE DEF t, u, x, y
    <2>1. (<<t>> \o x)[1] = t /\ (<<u>> \o y)[1] = u
        BY <1>1 DEF Strings
    <2> QED
        BY <1>1, <2>1
<1>3. value[1] = other[1]
    BY <1>2, KeyForms DEF Formed, KV!typeTag
<1>4. x = y
    <2> HIDE DEF t, u, x, y
    <2>1. <<t>> \o x = <<t>> \o y /\ <<t>> \in Seq(Int) /\ x \in Seq(Int) /\ y \in Seq(Int)
        BY <1>1, <1>2, StringsAre
    <2> QED
        BY <2>1, CommonStart
<1> QED
    BY <1>3, <1>4, KeysOfOneKind DEF Keeps

LEMMA RowPair ==
    ASSUME Typed, Rows
    PROVE  left \in AnyRow /\ right \in AnyRow
BY OfRaw DEF Typed, Rows

\* Two rows never share a key, no row has the key of a table, and the scan
\* of a table meets its rows only: for all names without a zero byte, all
\* primary keys of the five kinds and texts of any bytes.
THEOREM RowsNeverCollide == Spec => []RowsAreKeptApart
<1>1. ASSUME Typed, Rows, KV!rowKey(left) = KV!rowKey(right) PROVE left = right
    <2> DEFINE p == KV!rowPrefixKey(left.name)
               q == KV!rowPrefixKey(right.name)
               x == KV!encodePrimaryKey(left.key)
               y == KV!encodePrimaryKey(right.key)
    <2>1. left \in AnyRow /\ right \in AnyRow
        BY <1>1, RowPair
    <2>2. /\ p \in Strings /\ q \in Strings /\ x \in Strings /\ y \in Strings /\ p \o x = q \o y
          /\ left.name \in Name /\ right.name \in Name
          /\ left.key \in PrimaryKey /\ right.key \in PrimaryKey
        BY <1>1, <2>1, RowKeys, OfRaw
    <2>3. left.name # right.name => Below(p, q) \/ Below(q, p)
        BY <2>2, RowPrefixes
    <2>4. left.name = right.name
        <3> HIDE DEF p, q, x, y
        <3>1. /\ p \in Seq(Int) /\ q \in Seq(Int) /\ x \in Seq(Int) /\ y \in Seq(Int)
              /\ p \o x \in Seq(Int) /\ q \o y \in Seq(Int)
            BY <2>2, StringsAre
        <3>2. Below(p, q) => Below(p \o x, q \o y)
            BY <3>1, BelowJoined
        <3>3. Below(q, p) => Below(q \o y, p \o x)
            BY <3>1, BelowJoined
        <3>4. ~Below(p \o x, q \o y) /\ ~Below(q \o y, p \o x)
            BY <2>2, <3>1, BelowApart
        <3> QED
            BY <2>3, <3>2, <3>3, <3>4
    <2>5. p = q
        BY <2>4
    <2>6. x = y
        <3> HIDE DEF p, q, x, y
        <3>1. p \in Seq(Int) /\ x \in Seq(Int) /\ y \in Seq(Int) /\ p \o x = p \o y
            BY <2>2, <2>5, StringsAre
        <3> QED
            BY <3>1, CommonStart
    <2>7. left.key = right.key
        BY <2>2, <2>6, KindsDiffer
    <2> QED
        BY <2>1, <2>4, <2>7 DEF AnyRow
<1>2. ASSUME Typed, Rows PROVE KV!rowKey(left) # KV!tableKey(right.name)
    <2> DEFINE p == KV!rowPrefixKey(left.name)
               x == KV!encodePrimaryKey(left.key)
    <2>1. left \in AnyRow /\ right \in AnyRow
        BY <1>2, RowPair
    <2>2. p \in Strings /\ x \in Strings /\ KV!rowKey(left) = p \o x /\ left.name \in Name /\ right.name \in Name
        BY <2>1, RowKeys, OfRaw
    <2>3. p[1] = 2 /\ Len(p) \in Nat \ {0}
        BY <2>2, RowPrefixes
    <2> HIDE DEF p, x
    <2>4. (p \o x)[1] = 2
        BY <2>2, <2>3 DEF Strings
    <2>5. KV!tableKey(right.name)[1] = 1
        <3>1. right.name \in Seq(Int)
            BY <2>2, EncodingsAssumption
        <3>2. KV!tableKey(right.name) = <<1>> \o right.name
            BY DEF KV!tableKey, KV!keyNamespaceTable
        <3> QED
            BY <3>1, <3>2
    <2>6. KV!rowKey(left)[1] = 2
        BY <2>2, <2>4, Zenon
    <2>7. \A f, g : f[1] = 2 /\ g[1] = 1 => f # g
        OBVIOUS
    <2> QED
        BY <2>5, <2>6, <2>7, Zenon
<1>3. ASSUME Typed, Rows
      PROVE  InPrefix(KV!rowKey(right), KV!rowPrefixKey(left.name)) <=> right.name = left.name
    <2> DEFINE p == KV!rowPrefixKey(left.name)
               q == KV!rowPrefixKey(right.name)
               y == KV!encodePrimaryKey(right.key)
    <2>1. left \in AnyRow /\ right \in AnyRow
        BY <1>3, RowPair
    <2>2. /\ p \in Strings /\ q \in Strings /\ y \in Strings /\ KV!rowKey(right) = q \o y
          /\ q \o y \in Strings /\ left.name \in Name /\ right.name \in Name
        BY <2>1, RowKeys, OfRaw
    <2>3. left.name # right.name => Below(p, q) \/ Below(q, p)
        BY <2>2, RowPrefixes
    <2>4. left.name = right.name => p = q
        OBVIOUS
    <2> HIDE DEF p, q, y
    <2>5. InPrefix(q \o y, p) <=> Starts(p, q \o y)
        BY <2>2, PrefixIs
    <2>6. p = q => Starts(p, q \o y)
        BY <2>2, StartsJoined
    <2>7. Below(p, q) \/ Below(q, p) => ~Starts(p, q \o y)
        <3>1. p \in Seq(Int) /\ q \o y \in Seq(Int)
            BY <2>2, StringsAre
        <3>2. Below(p, q) => Below(p, q \o y)
            BY <2>2, BelowLonger
        <3>3. Below(q, p) => Below(q \o y, p)
            BY <2>2, BelowLonger
        <3> QED
            BY <3>1, <3>2, <3>3, BelowApart
    <2> QED
        BY <2>2, <2>3, <2>4, <2>5, <2>6, <2>7 DEF p
<1>4. Typed => RowsAreKeptApart
    BY <1>1, <1>2, <1>3 DEF RowsAreKeptApart
<1> QED
    BY <1>4, AlwaysTyped, PTL

\* Within a table rows sort by their primary keys: integers and floats from
\* negative to positive, for words of any width, and texts byte by byte.
THEOREM RowsSortByValue == Spec => []KeysSortByValue
<1>1. Typed => KeysSortByValue
    <2> SUFFICES ASSUME Typed, Rows, left.name = right.name, left.key[1] = right.key[1]
                 PROVE  KeysSortByValue
        BY DEF KeysSortByValue
    <2> DEFINE p == KV!rowPrefixKey(left.name)
               x == KV!encodePrimaryKey(left.key)
               y == KV!encodePrimaryKey(right.key)
               t == KV!typeTag(left.key[1])
               u == Payload(left.key)
               w == Payload(right.key)
    <2>1. left \in AnyRow /\ right \in AnyRow /\ left.key \in PrimaryKey /\ right.key \in PrimaryKey
        BY RowPair, OfRaw
    <2>2. /\ p \in Strings /\ x \in Strings /\ y \in Strings
          /\ KV!rowKey(left) = p \o x /\ KV!rowKey(right) = p \o y
        BY <2>1, RowKeys
    <2>3. /\ t \in 0..MaxByte /\ u \in Strings /\ w \in Strings
          /\ x = <<t>> \o u /\ y = <<t>> \o w
        BY <2>1, KeyBytes DEF KeyIs
    <2>4. Keeps(left.key, right.key, u, w)
        BY <2>1, KeysOfOneKind
    <2> HIDE DEF p, x, y, t, u, w
    <2>5. Less(p \o x, p \o y) <=> Less(x, y)
        BY <2>2, CommonStart, StringsAre
    <2>6. Less(x, y) <=> Less(u, w)
        <3>1. <<t>> \in Seq(Int) /\ u \in Seq(Int) /\ w \in Seq(Int)
            BY <2>3, StringsAre
        <3>2. Less(<<t>> \o u, <<t>> \o w) <=> Less(u, w)
            BY <3>1, CommonStart
        <3> QED
            BY <2>3, <3>2
    <2>7. Less(KV!rowKey(left), KV!rowKey(right)) <=> Less(u, w)
        BY <2>2, <2>5, <2>6
    <2>8. left.key[1] \in {"null", "boolean", "integer", "float", "string"}
        BY <2>1, KeyForms DEF Formed
    <2> QED
        BY <2>4, <2>7, <2>8 DEF Keeps, KeysSortByValue
<1> QED
    BY <1>1, AlwaysTyped, PTL

=============================================================================
