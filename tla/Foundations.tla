----------------------------- MODULE Foundations -----------------------------
(***************************************************************************)
(* What the proofs of this project share: induction over numbers, that a   *)
(* recursive function exists, and the order of byte strings.               *)
(***************************************************************************)
EXTENDS Bytes, SequenceTheorems, WellFoundedInduction, TLAPS

\* A set of numbers that has a member has a least one.
LEMMA LeastNumber ==
    ASSUME NEW M \in SUBSET Nat, M # {}
    PROVE  \E n \in M : \A m \in M : n <= m
<1> DEFINE Order == OpToRel(<, Nat)
<1>1. IsWellFoundedOn(Order, Nat)
    BY NatLessThanWellFounded
<1>2. \A i, j \in Nat : i < j => <<i, j>> \in Order
    BY DEF OpToRel
<1> HIDE DEF Order
<1>3. PICK n \in M : \A m \in M : ~(<<m, n>> \in Order)
    BY <1>1, WFMin
<1>4. \A m \in M : ~(m < n)
    BY <1>2, <1>3
<1> QED
    BY <1>4

\* Induction, over the set of numbers for which something holds.
LEMMA Induction ==
    ASSUME NEW S, 0 \in S, \A n \in Nat : n \in S => n + 1 \in S
    PROVE  \A n \in Nat : n \in S
<1> DEFINE M == Nat \ S
<1> SUFFICES ASSUME M # {} PROVE FALSE
    OBVIOUS
<1>1. PICK n \in M : \A m \in M : n <= m
    <2>1. M \in SUBSET Nat
        OBVIOUS
    <2> HIDE DEF M
    <2> QED
        BY <2>1, LeastNumber
<1>2. n \in Nat /\ n \notin S /\ n # 0
    OBVIOUS
<1>3. n - 1 \in Nat /\ (n - 1) + 1 = n /\ ~(n <= n - 1)
    BY <1>2
<1>4. n - 1 \in S
    BY <1>1, <1>3
<1> QED
    BY <1>2, <1>3, <1>4

\* Two functions that start alike and go on alike are alike.
GoOnAlike(f, g, m) == f[0] = g[0] /\ \A n \in 1..m : f[n - 1] = g[n - 1] => f[n] = g[n]

Alike(f, g, m) == \A n \in 0..m : f[n] = g[n]

LEMMA Agreement ==
    ASSUME NEW m \in Nat, NEW f, NEW g, GoOnAlike(f, g, m)
    PROVE  Alike(f, g, m)
<1>0. f[0] = g[0] /\ \A n \in 1..m : f[n - 1] = g[n - 1] => f[n] = g[n]
    BY DEF GoOnAlike
<1> DEFINE S == {n \in Nat : n <= m => f[n] = g[n]}
<1>1. 0 \in S
    BY <1>0
<1>2. ASSUME NEW n \in Nat, n \in S PROVE n + 1 \in S
    <2> SUFFICES ASSUME n + 1 <= m PROVE f[n + 1] = g[n + 1]
        OBVIOUS
    <2>1. n + 1 \in 1..m /\ (n + 1) - 1 = n /\ f[n] = g[n]
        BY <1>2
    <2> HIDE DEF S
    <2> QED
        BY <1>0, <2>1
<1>3. \A n \in Nat : n \in S
    <2> HIDE DEF S
    <2> QED
        BY <1>1, <1>2, Induction
<1> QED
    BY <1>3 DEF Alike

(***************************************************************************)
(* A function whose value at n is a function h of its values below n       *)
(* exists.  Every recursive function below is an instance.                 *)
(***************************************************************************)
Recurs(h, V, m) ==
    /\ h \in [0..m -> [[0..m -> V] -> V]]
    /\ \A n \in 0..m : \A f, g \in [0..m -> V] :
            (\A k \in 0..m : k < n => f[k] = g[k]) => h[n][f] = h[n][g]

Follows(f, h, m) == \A n \in 0..m : f[n] = h[n][f]

LEMMA Recursion ==
    ASSUME NEW V, NEW base \in V, NEW m \in Nat, NEW h, Recurs(h, V, m)
    PROVE  \E f \in [0..m -> V] : Follows(f, h, m)
<1>0. /\ h \in [0..m -> [[0..m -> V] -> V]]
      /\ \A n \in 0..m : \A f, g \in [0..m -> V] :
            (\A k \in 0..m : k < n => f[k] = g[k]) => h[n][f] = h[n][g]
    BY DEF Recurs
<1> DEFINE Solves(f, n) == \A k \in 0..m : k < n => f[k] = h[k][f]
           Without == {n \in 0..(m + 1) : ~ \E f \in [0..m -> V] : Solves(f, n)}
<1>1. Without = {}
    <2> SUFFICES ASSUME Without # {} PROVE FALSE
        OBVIOUS
    <2>1. PICK n \in Without : \A j \in Without : n <= j
        <3>1. Without \subseteq Nat
            OBVIOUS
        <3> HIDE DEF Without
        <3> QED
            BY <3>1, LeastNumber
    <2>2. n \in 0..(m + 1) /\ ~ \E f \in [0..m -> V] : Solves(f, n)
        BY <2>1
    <2>3. n # 0
        <3>1. [k \in 0..m |-> base] \in [0..m -> V] /\ Solves([k \in 0..m |-> base], 0)
            OBVIOUS
        <3> HIDE DEF Solves
        <3> QED
            BY <2>2, <3>1
    <2>4. n - 1 \in 0..m /\ n - 1 \in 0..(m + 1) /\ n - 1 < n
        BY <2>2, <2>3
    <2>5. n - 1 \notin Without
        <3> HIDE DEF Without
        <3> QED
            BY <2>1, <2>2, <2>4
    <2>6. PICK f \in [0..m -> V] : Solves(f, n - 1)
        <3> HIDE DEF Solves
        <3> QED
            BY <2>4, <2>5
    <2> DEFINE g == [f EXCEPT ![n - 1] = h[n - 1][f]]
    <2>7. g \in [0..m -> V] /\ g[n - 1] = h[n - 1][f]
        BY <1>0, <2>4
    <2>8. \A k \in 0..m : k # n - 1 => g[k] = f[k]
        BY <2>4
    <2> HIDE DEF g
    <2>9. ASSUME NEW k \in 0..m, k < n PROVE g[k] = h[k][g]
        <3>1. \A j \in 0..m : j < k => g[j] = f[j]
            BY <2>2, <2>8, <2>9
        <3>2. h[k][g] = h[k][f]
            BY <1>0, <2>7, <3>1
        <3>3. k # n - 1 => k < n - 1
            BY <2>2, <2>9
        <3>4. k # n - 1 => f[k] = h[k][f]
            BY <2>6, <3>3
        <3> QED
            BY <2>7, <2>8, <3>2, <3>4
    <2>10. Solves(g, n)
        BY <2>9
    <2> HIDE DEF Solves
    <2> QED
        BY <2>2, <2>7, <2>10
<1>2. PICK f \in [0..m -> V] : Solves(f, m + 1)
    <2>1. m + 1 \in 0..(m + 1)
        OBVIOUS
    <2> HIDE DEF Solves
    <2> QED
        BY <1>1, <2>1
<1>3. \A k \in 0..m : k < m + 1
    OBVIOUS
<1> QED
    BY <1>2, <1>3 DEF Follows

\* What a loop keeps: a set that its first state is in, and that no step of
\* it leaves.
LEMMA Stays ==
    ASSUME NEW m \in Nat, NEW f, NEW G, f[0] \in G, \A n \in 1..m : f[n - 1] \in G => f[n] \in G
    PROVE  \A n \in 0..m : f[n] \in G
<1> DEFINE S == {n \in Nat : n <= m => f[n] \in G}
<1>1. 0 \in S
    OBVIOUS
<1>2. ASSUME NEW n \in Nat, n \in S PROVE n + 1 \in S
    <2> SUFFICES ASSUME n + 1 <= m PROVE f[n + 1] \in G
        OBVIOUS
    <2>1. n + 1 \in 1..m /\ (n + 1) - 1 = n /\ f[n] \in G
        BY <1>2
    <2> HIDE DEF S
    <2> QED
        BY <2>1
<1>3. \A n \in Nat : n \in S
    <2> HIDE DEF S
    <2> QED
        BY <1>1, <1>2, Induction
<1> QED
    BY <1>3

\* A loop of m steps over the states of a set.
Loops(f, base, step, m) == f[0] = base /\ \A n \in 1..m : f[n] = step[n][f[n - 1]]

LEMMA LoopExists ==
    ASSUME NEW G, NEW base \in G, NEW m \in Nat, NEW step \in [1..m -> [G -> G]]
    PROVE  \E f \in [0..m -> G] : Loops(f, base, step, m)
<1> DEFINE h == [n \in 0..m |-> [f \in [0..m -> G] |-> IF n = 0 THEN base ELSE step[n][f[n - 1]]]]
<1>0. \A n \in 0..m : n # 0 => n \in 1..m /\ n - 1 \in 0..m /\ n - 1 < n
    OBVIOUS
<1>1. ASSUME NEW n \in 0..m, NEW f \in [0..m -> G]
      PROVE  h[n][f] = (IF n = 0 THEN base ELSE step[n][f[n - 1]]) /\ h[n][f] \in G
    <2>1. h[n][f] = IF n = 0 THEN base ELSE step[n][f[n - 1]]
        OBVIOUS
    <2>2. n # 0 => f[n - 1] \in G /\ step[n] \in [G -> G]
        BY <1>0
    <2> HIDE DEF h
    <2> QED
        BY <2>1, <2>2
<1>2. h \in [0..m -> [[0..m -> G] -> G]]
    <2>1. ASSUME NEW n \in 0..m PROVE h[n] \in [[0..m -> G] -> G]
        <3>1. h[n] = [f \in [0..m -> G] |-> IF n = 0 THEN base ELSE step[n][f[n - 1]]]
            OBVIOUS
        <3>2. \A f \in [0..m -> G] : (IF n = 0 THEN base ELSE step[n][f[n - 1]]) \in G
            <4> HIDE DEF h
            <4> QED
                BY <1>1
        <3> HIDE DEF h
        <3> QED
            BY <3>1, <3>2
    <2> QED
        BY <2>1
<1> HIDE DEF h
<1>3. Recurs(h, G, m)
    <2>1. ASSUME NEW n \in 0..m, NEW f \in [0..m -> G], NEW g \in [0..m -> G],
                 \A k \in 0..m : k < n => f[k] = g[k]
          PROVE  h[n][f] = h[n][g]
        <3>1. n # 0 => f[n - 1] = g[n - 1]
            BY <1>0, <2>1
        <3> QED
            BY <1>1, <3>1
    <2> QED
        BY <1>2, <2>1 DEF Recurs
<1>4. PICK f \in [0..m -> G] : Follows(f, h, m)
    BY <1>3, Recursion
<1>5. f[0] = base
    BY <1>1, <1>4 DEF Follows
<1>6. \A n \in 1..m : f[n] = step[n][f[n - 1]]
    BY <1>1, <1>4 DEF Follows
<1> QED
    BY <1>4, <1>5, <1>6 DEF Loops

-----------------------------------------------------------------------------
(***************************************************************************)
(* bytes.Compare is a strict total order.                                  *)
(***************************************************************************)
LEMMA LessIrreflexive ==
    ASSUME NEW a \in Seq(Int)
    PROVE  ~Less(a, a)
BY DEF Less

LEMMA LessTransitive ==
    ASSUME NEW a \in Seq(Int), NEW b \in Seq(Int), NEW c \in Seq(Int), Less(a, b), Less(b, c)
    PROVE  Less(a, c)
<1>1. PICK n \in 0..Len(a) : /\ n < Len(b) /\ \A i \in 1..n : a[i] = b[i]
                             /\ n = Len(a) \/ a[n + 1] < b[n + 1]
    BY DEF Less
<1>2. PICK m \in 0..Len(b) : /\ m < Len(c) /\ \A i \in 1..m : b[i] = c[i]
                             /\ m = Len(b) \/ b[m + 1] < c[m + 1]
    BY DEF Less
<1>3. Len(a) \in Nat /\ Len(b) \in Nat /\ Len(c) \in Nat
    OBVIOUS
<1>4. CASE n < m
    <2>1. n \in 0..Len(a) /\ n < Len(c) /\ n + 1 \in 1..m
        BY <1>1, <1>2, <1>3, <1>4
    <2>2. \A i \in 1..n : a[i] = c[i]
        BY <1>1, <1>2, <1>3, <1>4
    <2>3. n = Len(a) \/ a[n + 1] < c[n + 1]
        BY <1>1, <1>2, <2>1
    <2> QED
        BY <2>1, <2>2, <2>3 DEF Less
<1>5. CASE n = m
    <2>1. \A i \in 1..n : a[i] = c[i]
        BY <1>1, <1>2, <1>5
    <2>2. n = Len(a) \/ a[n + 1] < c[n + 1]
        <3>1. CASE n # Len(a)
            <4>1. n + 1 \in 1..Len(a) /\ n + 1 \in 1..Len(b) /\ n + 1 \in 1..Len(c)
                BY <1>1, <1>2, <1>3, <1>5, <3>1
            <4>2. a[n + 1] \in Int /\ b[n + 1] \in Int /\ c[n + 1] \in Int
                BY <4>1, ElementOfSeq
            <4>3. a[n + 1] < b[n + 1] /\ b[n + 1] < c[n + 1]
                BY <1>1, <1>2, <1>3, <1>5, <3>1
            <4> QED
                BY <4>2, <4>3
        <3> QED
            BY <3>1
    <2> QED
        BY <1>1, <1>2, <1>5, <2>1, <2>2 DEF Less
<1>6. CASE m < n
    <2>1. m \in 0..Len(a) /\ m < Len(c) /\ m + 1 \in 1..n /\ m # Len(b)
        BY <1>1, <1>2, <1>3, <1>6
    <2>2. \A i \in 1..m : a[i] = c[i]
        BY <1>1, <1>2, <1>3, <1>6
    <2>3. a[m + 1] < c[m + 1]
        BY <1>1, <1>2, <2>1
    <2> QED
        BY <2>1, <2>2, <2>3 DEF Less
<1> QED
    BY <1>1, <1>2, <1>3, <1>4, <1>5, <1>6

LEMMA LessTotal ==
    ASSUME NEW a \in Seq(Int), NEW b \in Seq(Int)
    PROVE  Less(a, b) \/ Less(b, a) \/ a = b
<1> DEFINE Agree(n) == n < Len(a) /\ n < Len(b) /\ a[n + 1] = b[n + 1]
           Differ == {n \in Nat : ~Agree(n)}
<1>1. Len(a) \in Nat /\ Len(b) \in Nat
    OBVIOUS
<1>2. Len(a) \in Differ /\ Differ \subseteq Nat
    BY <1>1
<1>3. PICK n \in Differ : \A m \in Differ : n <= m
    <2> HIDE DEF Differ
    <2> QED
        BY <1>2, LeastNumber
<1>n. n \in Nat /\ ~Agree(n)
    OBVIOUS
<1>4. ASSUME NEW m \in Nat, m < n PROVE Agree(m)
    <2>1. m \notin Differ
        <3> HIDE DEF Differ
        <3> QED
            BY <1>3, <1>4, <1>n
    <2> QED
        BY <2>1
<1> HIDE DEF Differ
<1>5. ASSUME NEW i \in 1..n PROVE a[i] = b[i] /\ i <= Len(a) /\ i <= Len(b)
    <2>1. i - 1 \in Nat /\ i - 1 < n /\ (i - 1) + 1 = i
        BY <1>n
    <2>2. Agree(i - 1)
        BY <1>4, <2>1
    <2> QED
        BY <1>1, <2>1, <2>2
<1>6. n \in 0..Len(a) /\ n \in 0..Len(b)
    <2>1. n # 0 => n \in 1..n
        BY <1>n
    <2> QED
        BY <1>1, <1>n, <1>5, <2>1
<1>7. CASE n = Len(a) /\ n = Len(b)
    BY <1>5, <1>7, SeqEqual
<1>8. CASE n = Len(a) /\ n # Len(b)
    <2>1. n < Len(b)
        BY <1>1, <1>6, <1>8
    <2> QED
        BY <1>5, <1>6, <1>8, <2>1 DEF Less
<1>9. CASE n # Len(a) /\ n = Len(b)
    <2>1. n < Len(a)
        BY <1>1, <1>6, <1>9
    <2> QED
        BY <1>5, <1>6, <1>9, <2>1 DEF Less
<1>10. CASE n # Len(a) /\ n # Len(b)
    <2>1. n < Len(a) /\ n < Len(b) /\ n + 1 \in 1..Len(a) /\ n + 1 \in 1..Len(b)
        BY <1>1, <1>6, <1>10
    <2>2. a[n + 1] # b[n + 1] /\ a[n + 1] \in Int /\ b[n + 1] \in Int
        BY <1>n, <2>1, ElementOfSeq
    <2>3. a[n + 1] < b[n + 1] \/ b[n + 1] < a[n + 1]
        BY <2>2
    <2> QED
        BY <1>5, <1>6, <2>1, <2>3 DEF Less
<1> QED
    BY <1>7, <1>8, <1>9, <1>10

=============================================================================
