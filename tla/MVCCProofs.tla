----------------------------- MODULE MVCCProofs -----------------------------
(***************************************************************************)
(* Proofs about the MVCC layer, for any sets of keys and values and any    *)
(* number of transactions: its invariants, and that it implements snapshot *)
(* isolation.                                                              *)
(***************************************************************************)
EXTENDS MVCCRefinement, WellFoundedInduction, TLAPS

-----------------------------------------------------------------------------
(***************************************************************************)
(* Every step keeps every variable in its type.                            *)
(***************************************************************************)
LEMMA WriteTypes ==
    ASSUME TypeOK, NEW v \in Version, NEW k \in Key, NEW c \in Cell, write(v, k, c)
    PROVE  TypeOK'
BY DEF TypeOK, write, RecordWrite, StoreVersion

LEMMA StepTypes == TypeOK /\ [Next]_vars => TypeOK'
<1> SUFFICES ASSUME TypeOK, [Next]_vars PROVE TypeOK'
    OBVIOUS
<1> USE MaxVersionAssumption
<1>1. CASE Begin
    BY <1>1 DEF TypeOK, Begin, LoadNext, Version, Status
<1>2. CASE BeginFails
    BY <1>2 DEF TypeOK, BeginFails, LoadNext, Version
<1>3. ASSUME NEW v \in Version, TxnStep(v) PROVE TypeOK'
    <2>1. ASSUME NEW k \in Key, NEW value \in Value, Set(v, k, value) PROVE TypeOK'
        BY <2>1, WriteTypes DEF Set, Cell
    <2>2. ASSUME NEW k \in Key, Delete(v, k) PROVE TypeOK'
        BY <2>2, WriteTypes DEF Delete, Cell
    <2>3. ASSUME NEW k \in Key, writeFails(v, k) PROVE TypeOK'
        BY <2>3 DEF TypeOK, writeFails, RecordWrite, Status
    <2>4. ASSUME NEW k \in Key, writeConflicts(v, k) PROVE TypeOK'
        BY <2>4 DEF TypeOK, writeConflicts, Status
    <2>5. CASE StatementFails(v)
        BY <2>5 DEF TypeOK, StatementFails, Status
    <2>6. CASE Commit(v)
        BY <2>6 DEF TypeOK, Commit, ForgetWrites, Status
    <2>7. ASSUME NEW forgotten \in SUBSET Key, CommitFails(v, forgotten) PROVE TypeOK'
        BY <2>7 DEF TypeOK, CommitFails, ForgetWrites, Status
    <2>8. CASE Rollback(v)
        BY <2>8 DEF TypeOK, Rollback, ForgetWrites, DropVersions, Status, Cell
    <2>9. ASSUME NEW undone \in SUBSET Key, NEW half \in SUBSET Key,
                 RollbackFails(v, undone, half)
          PROVE  TypeOK'
        BY <2>9 DEF TypeOK, RollbackFails, ForgetWrites, DropVersions, Status, Cell
    <2> QED
        BY <1>3, <2>1, <2>2, <2>3, <2>4, <2>5, <2>6, <2>7, <2>8, <2>9 DEF TxnStep
<1>4. CASE Crash
    BY <1>4 DEF TypeOK, Crash, Status
<1>5. CASE UNCHANGED vars
    BY <1>5 DEF TypeOK, vars
<1> QED
    BY <1>1, <1>2, <1>3, <1>4, <1>5 DEF Next

(***************************************************************************)
(* The stored keys and the transaction handles keep their types in every   *)
(* behaviour, failures and crashes included.                               *)
(***************************************************************************)
THEOREM TypeCorrect == Spec => []TypeOK
<1>1. Init => TypeOK
    BY MaxVersionAssumption DEF Init, TypeOK, Version, Status, Cell
<1> QED
    BY <1>1, StepTypes, PTL DEF Spec

-----------------------------------------------------------------------------
(***************************************************************************)
(* The inductive invariant.  One lemma per action.                         *)
(***************************************************************************)
LEMMA InitInv == Init => IndInv
BY MaxVersionAssumption
   DEF Init, IndInv, TypeOK, Version, Status, Cell, FreshVersions, LoadNext, Written, Live,
       MarkerMeansUndecided, NothingLeft, WriteSetComplete, SnapshotDecided,
       SnapshotsMonotone, FirstUpdaterWins

\* Begin takes the first fresh version; its snapshot misses exactly the
\* undecided versions.
LEMMA BeginInv == IndInv /\ Begin => IndInv'
<1> SUFFICES ASSUME IndInv, Begin PROVE IndInv'
    OBVIOUS
<1> USE MaxVersionAssumption
<1> DEFINE next == LoadNext
<1>0. TypeOK'
    BY StepTypes DEF IndInv, Next
<1>1. /\ next \in Version
      /\ LoadNext' = next + 1
      /\ txnActive' = txnActive \cup {next}
      /\ status' = [status EXCEPT ![next] = "open"]
      /\ activeVersions' = [activeVersions EXCEPT ![next] = txnActive]
      /\ txnWrite' = txnWrite /\ versioned' = versioned
    BY DEF Begin, LoadNext, Version, IndInv, TypeOK
<1> HIDE DEF next
<1>2. \A w \in Version : status[w] = "none" /\ w < next => w \notin txnActive
    BY DEF IndInv, MarkerMeansUndecided
<1>3. /\ status[next] = "none" /\ next \notin txnActive
      /\ \A k \in Key : ~Written(k, next) /\ <<next, k>> \notin txnWrite
      /\ \A w \in txnActive : w \in Version /\ w < next
    BY <1>1 DEF IndInv, FreshVersions, TypeOK, Version, next
<1>4. FreshVersions'
    BY <1>1 DEF IndInv, FreshVersions, TypeOK, Version, next, Written
<1>5. MarkerMeansUndecided'
    BY <1>1 DEF IndInv, MarkerMeansUndecided, TypeOK
<1>6. NothingLeft'
    BY <1>1 DEF IndInv, NothingLeft, TypeOK, Written
<1>7. WriteSetComplete'
    BY <1>1, <1>3 DEF IndInv, WriteSetComplete, TypeOK, Live, Written
<1>8. SnapshotDecided'
    BY <1>1, <1>3 DEF IndInv, SnapshotDecided, MarkerMeansUndecided, TypeOK, Version, Status,
                      FreshVersions, next
<1>9. SnapshotsMonotone'
    BY <1>1, <1>3 DEF IndInv, SnapshotsMonotone, SnapshotDecided, MarkerMeansUndecided, TypeOK,
                      Version, FreshVersions, next
<1>10. FirstUpdaterWins'
    BY <1>1, <1>3 DEF IndInv, FirstUpdaterWins, TypeOK, Written
<1> QED
    BY <1>0, <1>4, <1>5, <1>6, <1>7, <1>8, <1>9, <1>10 DEF IndInv

LEMMA BeginFailsInv == IndInv /\ BeginFails => IndInv'
<1> SUFFICES ASSUME IndInv, BeginFails PROVE IndInv'
    OBVIOUS
<1> USE MaxVersionAssumption
<1>0. TypeOK'
    BY StepTypes DEF IndInv, Next
<1>1. /\ LoadNext \in Version
      /\ LoadNext' = LoadNext + 1
      /\ UNCHANGED <<txnActive, txnWrite, versioned, status, activeVersions>>
    BY DEF BeginFails, LoadNext, Version, IndInv, TypeOK
<1>2. FreshVersions'
    BY <1>1 DEF IndInv, FreshVersions, Version, Written
<1> QED
    BY <1>0, <1>1, <1>2 DEF IndInv, MarkerMeansUndecided, NothingLeft, WriteSetComplete,
        SnapshotDecided, SnapshotsMonotone, FirstUpdaterWins, Written, Live

(***************************************************************************)
(* A nonempty set of versions has a newest one: the reverse scans of Get   *)
(* and write stop somewhere.                                               *)
(***************************************************************************)
LEMMA NewestExists ==
    ASSUME NEW S \in SUBSET Version, S # {}
    PROVE  \E w \in S : \A x \in S : x <= w
<1> USE MaxVersionAssumption
<1> DEFINE Age == {MaxVersion - w : w \in S}
           Less == OpToRel(<, Nat)
<1>1. Age \subseteq Nat /\ Age # {}
    <2>1. Age \subseteq Nat
        BY DEF Version
    <2>2. PICK w \in S : TRUE
        OBVIOUS
    <2>3. MaxVersion - w \in Age
        OBVIOUS
    <2> QED
        BY <2>1, <2>3
<1>2. IsWellFoundedOn(Less, Nat)
    BY NatLessThanWellFounded
<1>3. \A m, n \in Nat : m < n => <<m, n>> \in Less
    BY DEF OpToRel
<1> HIDE DEF Less
<1>4. PICK a \in Age : \A b \in Age : ~(<<b, a>> \in Less)
    <2> HIDE DEF Age
    <2> QED BY <1>1, <1>2, WFMin
<1>5. PICK w \in S : a = MaxVersion - w
    BY <1>4
<1>6. ASSUME NEW x \in S PROVE x <= w
    <2>1. MaxVersion - x \in Age
        OBVIOUS
    <2>2. ~(MaxVersion - x < a)
        BY <1>1, <1>3, <1>4, <2>1
    <2> QED
        BY <1>5, <2>2 DEF Version
<1> QED
    BY <1>6

(***************************************************************************)
(* The heart of the argument: the check of the newest version in the range *)
(* is enough.  A concurrent version older than the writer cannot hide      *)
(* behind a visible one, because the visible one would have run into it.   *)
(***************************************************************************)
LEMMA NoConcurrentVersion ==
    ASSUME IndInv, NEW v \in Version, NEW k \in Key, status[v] = "open", ~WriteConflict(v, k),
           NEW w \in Version, Written(k, w)
    PROVE  w <= v /\ w \notin activeVersions[v]
<1> USE MaxVersionAssumption
<1> SUFFICES ASSUME ~(w <= v /\ w \notin activeVersions[v]) PROVE FALSE
    OBVIOUS
<1> DEFINE C == ConflictCandidates(v, k)
<1>1. C \in SUBSET Version
    BY DEF ConflictCandidates
<1>2. w \in C
    BY DEF ConflictCandidates, InConflictRange, Version
<1>3. PICK x \in C : \A y \in C : y <= x
    <2> HIDE DEF C
    <2> QED BY <1>1, <1>2, NewestExists
<1>4. isVisible(v, x) /\ x \in Version /\ Written(k, x)
    BY <1>3 DEF WriteConflict, ConflictCandidates
<1>5. x <= v /\ x \notin activeVersions[v] /\ w <= x
    BY <1>2, <1>3, <1>4 DEF isVisible
<1>6. w \in activeVersions[v] /\ w < x
    BY <1>4, <1>5 DEF Version
<1>7. w \notin activeVersions[x] /\ status[x] # "none"
    BY <1>4, <1>6 DEF IndInv, FirstUpdaterWins, NothingLeft
<1>8. x # v
    BY <1>6, <1>7
<1> QED
    BY <1>4, <1>5, <1>6, <1>7, <1>8 DEF IndInv, SnapshotsMonotone, Version

\* Storing a version keeps the invariant: the transaction is live, so its
\* version is not fresh, and no concurrent version of the key exists.
LEMMA WriteInv ==
    ASSUME IndInv, NEW v \in Version, NEW k \in Key, NEW c \in Value \cup {Tombstone},
           write(v, k, c)
    PROVE  IndInv'
<1> USE MaxVersionAssumption
<1>1. TypeOK'
    BY WriteTypes DEF IndInv, Cell
<1>2. /\ status[v] = "open" /\ ~WriteConflict(v, k)
      /\ txnWrite' = txnWrite \cup {<<v, k>>}
      /\ \A j \in Key, w \in Version :
            versioned'[j][w] = IF j = k /\ w = v THEN c ELSE versioned[j][w]
      /\ LoadNext' = LoadNext
      /\ UNCHANGED <<txnActive, status, activeVersions>>
    BY DEF write, RecordWrite, StoreVersion, LoadNext, IndInv, TypeOK
<1>3. \A j \in Key, w \in Version : Written(j, w)' <=> Written(j, w) \/ (j = k /\ w = v)
    BY <1>2, SentinelAssumption DEF Written
<1>4. \A w \in Version : Written(k, w) => w <= v /\ w \notin activeVersions[v]
    BY <1>2, NoConcurrentVersion
<1>5. FreshVersions'
    BY <1>2, <1>3 DEF IndInv, FreshVersions
<1>6. MarkerMeansUndecided' /\ NothingLeft'
    BY <1>2, <1>3 DEF IndInv, MarkerMeansUndecided, NothingLeft
<1>7. WriteSetComplete'
    BY <1>2, <1>3 DEF IndInv, WriteSetComplete, Live
<1>8. SnapshotDecided' /\ SnapshotsMonotone'
    BY <1>2 DEF IndInv, SnapshotDecided, SnapshotsMonotone
<1>9. FirstUpdaterWins'
    BY <1>2, <1>3, <1>4 DEF IndInv, FirstUpdaterWins, Version
<1> QED
    BY <1>1, <1>5, <1>6, <1>7, <1>8, <1>9 DEF IndInv

(***************************************************************************)
(* Every other step of a transaction gives it a later status and never     *)
(* adds an entry, so one lemma covers them: Shrink says what they have in  *)
(* common.                                                                 *)
(***************************************************************************)
Shrink(v, s) ==
    /\ status' = [status EXCEPT ![v] = s]
    /\ txnActive' \in {txnActive, txnActive \ {v}}
    /\ txnActive' = txnActive <=> s \in {"failed", "dangling"}
    /\ \A w \in Version, k \in Key :
        /\ <<w, k>> \in txnWrite' => <<w, k>> \in txnWrite \/ (w = v /\ s = "failed")
        /\ w # v \/ s = "failed" => (<<w, k>> \in txnWrite => <<w, k>> \in txnWrite')
        /\ Written(k, w)' => Written(k, w)
        /\ w = v /\ s = "rolledback" => ~Written(k, w)'
    /\ UNCHANGED <<nextVersion, activeVersions>>

LEMMA ShrinkInv ==
    ASSUME IndInv, TypeOK', NEW v \in Version, Live(v),
           NEW s \in {"failed", "committed", "rolledback", "dangling"}, Shrink(v, s)
    PROVE  IndInv'
<1> USE MaxVersionAssumption
<1>1. LoadNext' = LoadNext
    BY DEF LoadNext, Shrink
<1>2. v \in txnActive /\ ~(v >= LoadNext) /\ status[v] # "none"
    BY DEF Live, IndInv, MarkerMeansUndecided, FreshVersions
<1>3. /\ status' \in [Version -> Status] /\ status'[v] = s
      /\ \A w \in Version : w # v => status'[w] = status[w]
      /\ activeVersions' = activeVersions
    BY DEF Shrink, IndInv, TypeOK
<1>4. FreshVersions'
    BY <1>1, <1>2, <1>3 DEF IndInv, FreshVersions, Shrink
<1>5. MarkerMeansUndecided'
    BY <1>2, <1>3 DEF IndInv, MarkerMeansUndecided, Shrink
<1>6. NothingLeft'
    BY <1>2, <1>3 DEF IndInv, NothingLeft, Shrink
<1>7. WriteSetComplete'
    BY <1>2, <1>3 DEF IndInv, WriteSetComplete, Shrink, Live
<1>8. SnapshotDecided'
    BY <1>2, <1>3 DEF IndInv, SnapshotDecided, Live
<1>9. SnapshotsMonotone'
    BY <1>2, <1>3 DEF IndInv, SnapshotsMonotone
<1>10. FirstUpdaterWins'
    BY <1>3 DEF IndInv, FirstUpdaterWins, Shrink
<1> QED
    BY <1>4, <1>5, <1>6, <1>7, <1>8, <1>9, <1>10 DEF IndInv

LEMMA StepInv == IndInv /\ [Next]_vars => IndInv'
<1> SUFFICES ASSUME IndInv, [Next]_vars PROVE IndInv'
    OBVIOUS
<1>0. TypeOK /\ TypeOK'
    BY StepTypes DEF IndInv
<1>1. CASE Begin
    BY <1>1, BeginInv
<1>2. CASE BeginFails
    BY <1>2, BeginFailsInv
<1>3. ASSUME NEW v \in Version, TxnStep(v) PROVE IndInv'
    <2>1. ASSUME NEW k \in Key, NEW value \in Value, Set(v, k, value) PROVE IndInv'
        BY <2>1, WriteInv DEF Set
    <2>2. ASSUME NEW k \in Key, Delete(v, k) PROVE IndInv'
        BY <2>2, WriteInv DEF Delete
    <2>3. ASSUME NEW k \in Key, writeFails(v, k) PROVE IndInv'
        <3>1. Live(v) /\ Shrink(v, "failed")
            BY <2>3, <1>0 DEF writeFails, RecordWrite, Live, Shrink, Written
        <3> QED BY <1>0, <3>1, ShrinkInv
    <2>4. ASSUME NEW k \in Key, writeConflicts(v, k) PROVE IndInv'
        <3>1. Live(v) /\ Shrink(v, "failed")
            BY <2>4 DEF writeConflicts, Live, Shrink, Written
        <3> QED BY <1>0, <3>1, ShrinkInv
    <2>5. CASE StatementFails(v)
        <3>1. Live(v) /\ Shrink(v, "failed")
            BY <2>5 DEF StatementFails, Live, Shrink, Written
        <3> QED BY <1>0, <3>1, ShrinkInv
    <2>6. CASE Commit(v)
        <3>1. v \in txnActive
            BY <2>6 DEF Commit, IndInv, MarkerMeansUndecided
        <3>2. Live(v) /\ Shrink(v, "committed")
            BY <2>6, <3>1 DEF Commit, ForgetWrites, Live, Shrink, Written
        <3> QED BY <1>0, <3>2, ShrinkInv
    <2>7. ASSUME NEW forgotten \in SUBSET Key, CommitFails(v, forgotten) PROVE IndInv'
        <3>1. Live(v) /\ Shrink(v, "dangling")
            BY <2>7 DEF CommitFails, ForgetWrites, Live, Shrink, Written
        <3> QED BY <1>0, <3>1, ShrinkInv
    <2>8. CASE Rollback(v)
        <3>1. Live(v) /\ v \in txnActive
            BY <2>8 DEF Rollback, Live, IndInv, MarkerMeansUndecided
        <3>2. \A w \in Version, k \in Key :
                 /\ Written(k, w)' => Written(k, w)
                 /\ w = v => ~Written(k, w)'
            BY <2>8, <3>1 DEF Rollback, DropVersions, WriteSet, Written, IndInv, WriteSetComplete
        <3>3. Shrink(v, "rolledback")
            BY <2>8, <3>1, <3>2 DEF Rollback, ForgetWrites, Shrink
        <3> QED BY <1>0, <3>1, <3>3, ShrinkInv
    <2>9. ASSUME NEW undone \in SUBSET Key, NEW half \in SUBSET Key,
                 RollbackFails(v, undone, half)
          PROVE  IndInv'
        <3>1. \A w \in Version, k \in Key : Written(k, w)' => Written(k, w)
            BY <2>9 DEF RollbackFails, DropVersions, Written
        <3>2. Live(v) /\ Shrink(v, "dangling")
            BY <2>9, <3>1 DEF RollbackFails, ForgetWrites, Live, Shrink
        <3> QED BY <1>0, <3>2, ShrinkInv
    <2> QED
        BY <1>3, <2>1, <2>2, <2>3, <2>4, <2>5, <2>6, <2>7, <2>8, <2>9 DEF TxnStep
<1>4. CASE Crash
    <2>1. /\ \A v \in Version : status'[v] = IF Live(v) THEN "dangling" ELSE status[v]
          /\ LoadNext' = LoadNext
          /\ UNCHANGED <<txnActive, txnWrite, versioned, activeVersions>>
        BY <1>4 DEF Crash, LoadNext
    <2>2. FreshVersions' /\ MarkerMeansUndecided' /\ NothingLeft' /\ WriteSetComplete'
        BY <2>1 DEF IndInv, FreshVersions, MarkerMeansUndecided, NothingLeft, WriteSetComplete,
                    Live, Written
    <2>3. SnapshotDecided' /\ SnapshotsMonotone'
        BY <2>1 DEF IndInv, SnapshotDecided, SnapshotsMonotone, Live
    <2>4. FirstUpdaterWins'
        BY <2>1 DEF IndInv, FirstUpdaterWins, Written
    <2> QED
        BY <1>0, <2>2, <2>3, <2>4 DEF IndInv
<1>5. CASE UNCHANGED vars
    BY <1>0, <1>5 DEF vars, IndInv, FreshVersions, LoadNext, MarkerMeansUndecided, NothingLeft,
        WriteSetComplete, SnapshotDecided, SnapshotsMonotone, FirstUpdaterWins, Live, Written
<1> QED
    BY <1>1, <1>2, <1>3, <1>4, <1>5 DEF Next

(***************************************************************************)
(* IndInv holds in every reachable state.                                  *)
(***************************************************************************)
THEOREM Invariance == Spec => []IndInv
BY InitInv, StepInv, PTL DEF Spec

(***************************************************************************)
(* Of two transactions that have written one key, the later began after    *)
(* the earlier had ended: write's look at the newest version is enough.    *)
(***************************************************************************)
THEOREM FirstUpdaterWinsAlways == Spec => []FirstUpdaterWins
<1>1. IndInv => FirstUpdaterWins
    BY DEF IndInv
<1> QED
    BY <1>1, Invariance, PTL

LEMMA VisibleIsDecided ==
    ASSUME IndInv, NEW v \in Version, Live(v), NEW k \in Key, NEW w \in VisibleVersions(v, k)
    PROVE  w \in Version /\ (w = v \/ status[w] = "committed")
BY DEF IndInv, VisibleVersions, isVisible, SnapshotDecided, NothingLeft, Version, Live

(***************************************************************************)
(* No transaction ever reads what a running, failed or lost one wrote.     *)
(***************************************************************************)
THEOREM NoDirtyReadAlways == Spec => []NoDirtyRead
<1>1. IndInv => NoDirtyRead
    BY VisibleIsDecided DEF NoDirtyRead
<1> QED
    BY <1>1, Invariance, PTL

\* A step changes the entries of live transactions only, and the snapshot of
\* a transaction that has begun not at all.
LEMMA StepIsLocal ==
    ASSUME IndInv, [Next]_vars
    PROVE  /\ \A w \in Version : ~Live(w) =>
                    \A k \in Key : versioned'[k][w] = versioned[k][w]
           /\ \A v \in Version : status[v] # "none" => activeVersions'[v] = activeVersions[v]
<1> USE MaxVersionAssumption
<1>0. TypeOK
    BY DEF IndInv
<1>1. CASE Begin
    <2>1. LoadNext \in Version /\ status[LoadNext] = "none"
        BY <1>1 DEF Begin, IndInv, FreshVersions, Version
    <2> QED
        BY <1>0, <1>1, <2>1 DEF Begin, TypeOK
<1>2. CASE BeginFails \/ Crash \/ UNCHANGED vars
    BY <1>2 DEF BeginFails, Crash, vars
<1>3. ASSUME NEW v \in Version, TxnStep(v)
      PROVE  /\ Live(v) /\ activeVersions' = activeVersions
             /\ \A w \in Version \ {v} : \A k \in Key : versioned'[k][w] = versioned[k][w]
    <2>1. ASSUME NEW k \in Key, NEW c, write(v, k, c)
          PROVE  /\ Live(v) /\ activeVersions' = activeVersions
                 /\ \A w \in Version \ {v} : \A j \in Key : versioned'[j][w] = versioned[j][w]
        BY <1>0, <2>1 DEF write, StoreVersion, Live, TypeOK
    <2>2. CASE \/ \E k \in Key : writeFails(v, k) \/ writeConflicts(v, k)
               \/ StatementFails(v) \/ Commit(v)
               \/ \E forgotten \in SUBSET Key : CommitFails(v, forgotten)
        BY <2>2 DEF writeFails, writeConflicts, StatementFails, Commit, CommitFails, Live
    <2>3. CASE Rollback(v)
        BY <1>0, <2>3 DEF Rollback, DropVersions, Live, TypeOK
    <2>4. ASSUME NEW undone \in SUBSET Key, NEW half \in SUBSET Key,
                 RollbackFails(v, undone, half)
          PROVE  /\ Live(v) /\ activeVersions' = activeVersions
                 /\ \A w \in Version \ {v} : \A j \in Key : versioned'[j][w] = versioned[j][w]
        BY <1>0, <2>4 DEF RollbackFails, DropVersions, Live, TypeOK
    <2> QED
        BY <1>3, <2>1, <2>2, <2>3, <2>4 DEF TxnStep, Set, Delete
<1> QED
    BY <1>1, <1>2, <1>3 DEF Next

LEMMA StepKeepsSnapshot ==
    ASSUME IndInv, [Next]_vars, NEW v \in Version
    PROVE  SnapshotStable(v)
<1> SUFFICES ASSUME Live(v), Live(v)', NEW k \in Key, versioned[k][v] = versioned'[k][v]
             PROVE  Get(v, k)' = Get(v, k)
    BY DEF SnapshotStable
<1>1. status[v] # "none" /\ activeVersions'[v] = activeVersions[v]
    BY StepIsLocal DEF Live
<1>2. ASSUME NEW w \in Version, w <= v, isVisible(v, w)
      PROVE  versioned'[k][w] = versioned[k][w]
    <2>1. CASE w = v
        BY <2>1
    <2>2. CASE w < v
        BY <1>1, <1>2, <2>2, StepIsLocal DEF IndInv, SnapshotDecided, isVisible, Live
    <2> QED
        BY <1>2, <2>1, <2>2, MaxVersionAssumption DEF Version
<1>3. \A w \in Version : isVisible(v, w)' <=> isVisible(v, w)
    BY <1>1 DEF isVisible
<1>4. VisibleVersions(v, k)' = VisibleVersions(v, k)
    BY <1>2, <1>3 DEF VisibleVersions, Written
<1>5. \A w \in VisibleVersions(v, k) : versioned'[k][w] = versioned[k][w]
    BY <1>2 DEF VisibleVersions
<1>6. VisibleEntries(v, k)' = VisibleEntries(v, k)
    BY <1>4, <1>5 DEF VisibleEntries
<1> QED
    BY <1>6 DEF Get

(***************************************************************************)
(* Reads are repeatable: no step of anybody changes what a running         *)
(* transaction gets for a key it has not just written.                     *)
(***************************************************************************)
THEOREM SnapshotStabilityAlways == Spec => SnapshotStability
<1>1. IndInv /\ [Next]_vars => [\A v \in Version : SnapshotStable(v)]_vars
    BY StepKeepsSnapshot
<1> QED
    BY <1>1, Invariance, PTL DEF Spec, SnapshotStability

-----------------------------------------------------------------------------
(***************************************************************************)
(* The MVCC layer implements snapshot isolation: every step of MVCC is one *)
(* step of SnapshotIsolation, or changes nothing there.  The argument      *)
(* rests on the inductive invariant alone.                                 *)
(***************************************************************************)

(***************************************************************************)
(* What a running transaction does not see, and when the read-off          *)
(* variables stay as they are.                                             *)
(***************************************************************************)

\* No running transaction sees the entries of another one that runs.
LEMMA RunningIsInvisible ==
    ASSUME IndInv, NEW u \in Version, NEW v \in Version, u # v, Live(u), Live(v)
    PROVE  ~isVisible(u, v)
BY MaxVersionAssumption DEF IndInv, SnapshotDecided, isVisible, Live, Version

\* The committed store is unchanged if the unmarked entries are.
LEMMA StoreKept ==
    ASSUME \A k \in Key, w \in Version :
            /\ (Written(k, w) /\ w \notin txnActive)' <=> Written(k, w) /\ w \notin txnActive
            /\ Written(k, w) /\ w \notin txnActive => versioned'[k][w] = versioned[k][w]
    PROVE  storeBar' = storeBar
<1>1. ASSUME NEW k \in Key PROVE CommittedEntries(k)' = CommittedEntries(k)
    BY DEF CommittedEntries
<1> QED
    BY <1>1 DEF storeBar

\* A snapshot is unchanged if the entries of others that v sees are.
LEMMA SnapshotKept ==
    ASSUME NEW v \in Version, NEW k \in Key, Live(v)' <=> Live(v),
           Live(v) => /\ activeVersions'[v] = activeVersions[v]
                      /\ \A w \in Version : w # v /\ isVisible(v, w) =>
                            versioned'[k][w] = versioned[k][w]
    PROVE  snapshotBar'[v][k] = snapshotBar[v][k]
<1>1. CASE ~Live(v)
    BY <1>1 DEF snapshotBar
<1>2. CASE Live(v)
    <2>1. \A w \in Version : isVisible(v, w)' <=> isVisible(v, w)
        BY <1>2 DEF isVisible
    <2>2. (VisibleVersions(v, k) \ {v})' = VisibleVersions(v, k) \ {v}
        BY <1>2, <2>1 DEF VisibleVersions, Written
    <2>3. \A w \in VisibleVersions(v, k) \ {v} : versioned'[k][w] = versioned[k][w]
        BY <1>2 DEF VisibleVersions
    <2>4. SnapshotEntries(v, k)' = SnapshotEntries(v, k)
        BY <2>2, <2>3 DEF SnapshotEntries
    <2> QED
        BY <1>2, <2>4 DEF snapshotBar
<1> QED
    BY <1>1, <1>2

LEMMA PhaseCases ==
    /\ PhaseOf("none") = "idle" /\ PhaseOf("committed") = "committed"
    /\ PhaseOf("open") = "running" /\ PhaseOf("failed") = "running"
    /\ PhaseOf("rolledback") = "aborted" /\ PhaseOf("dangling") = "aborted"
BY DEF PhaseOf

LEMMA InitRefines == Init => SI!Init
<1> SUFFICES ASSUME Init PROVE SI!Init
    OBVIOUS
<1>1. \A k \in Key, w \in Version : ~Written(k, w)
    BY DEF Init, Written
<1>2. storeBar = SI!NoSnapshot
    BY <1>1 DEF storeBar, CommittedEntries, SI!NoSnapshot
<1>3. \A v \in Version : ~Live(v) /\ status[v] = "none"
    BY DEF Init, Live
<1> QED
    BY <1>1, <1>2, <1>3, PhaseCases
       DEF SI!Init, SI!NoSnapshot, SI!NoWrites, phaseBar, snapshotBar, writesBar, staleBar

-----------------------------------------------------------------------------
(***************************************************************************)
(* One lemma per kind of step.                                             *)
(***************************************************************************)

\* Begin's scan for markers takes a copy of the committed store.
LEMMA BeginRefines ==
    ASSUME IndInv, Begin, NEW next, next = LoadNext
    PROVE  next \in Version /\ SI!Begin(next)
<1> USE MaxVersionAssumption
<1>1. /\ next \in Version
      /\ txnActive' = txnActive \cup {next}
      /\ status' = [status EXCEPT ![next] = "open"]
      /\ activeVersions' = [activeVersions EXCEPT ![next] = txnActive]
      /\ versioned' = versioned
    BY DEF Begin
<1>2. /\ status[next] = "none" /\ next \notin txnActive
      /\ \A k \in Key, w \in Version : Written(k, w) => w < next
    <2>1. \A w \in Version : w >= next => status[w] = "none" /\ w \notin txnActive
                                         /\ \A k \in Key : ~Written(k, w)
        BY DEF IndInv, FreshVersions
    <2> QED
        BY <1>1, <2>1 DEF Version
<1>t. TypeOK
    BY DEF IndInv
<1>3. /\ Live(next)' /\ ~Live(next)
      /\ \A w \in Version \ {next} : status'[w] = status[w] /\ (Live(w)' <=> Live(w))
                                      /\ activeVersions'[w] = activeVersions[w]
    BY <1>1, <1>2, <1>t DEF Live, TypeOK
<1>4. \A k \in Key, w \in Version : Written(k, w)' <=> Written(k, w)
    BY <1>1 DEF Written
<1>5. storeBar' = storeBar
    BY <1>1, <1>2, <1>4, StoreKept DEF Version
<1>6. phaseBar[next] = "idle" /\ phaseBar' = [phaseBar EXCEPT ![next] = "running"]
    <2>1. phaseBar[next] = "idle" /\ phaseBar'[next] = "running"
        BY <1>1, <1>2, <1>t, PhaseCases DEF phaseBar, TypeOK
    <2>2. \A w \in Version \ {next} : phaseBar'[w] = phaseBar[w]
        BY <1>3 DEF phaseBar
    <2> QED
        BY <2>1, <2>2 DEF phaseBar
<1>7. snapshotBar' = [snapshotBar EXCEPT ![next] = storeBar]
    <2>1. ASSUME NEW k \in Key PROVE snapshotBar'[next][k] = storeBar[k]
        <3>1. \A w \in Version : Written(k, w) => (isVisible(next, w)' <=> w \notin txnActive)
            BY <1>1, <1>2, <1>t DEF isVisible, TypeOK, Version
        <3>2. (VisibleVersions(next, k) \ {next})' = {x \in Version : Written(k, x) /\ x \notin txnActive}
            BY <1>1, <1>2, <1>4, <3>1 DEF VisibleVersions, Version
        <3>3. SnapshotEntries(next, k)' = CommittedEntries(k)
            BY <1>1, <3>2 DEF SnapshotEntries, CommittedEntries
        <3> QED
            BY <1>1, <1>3, <3>3 DEF snapshotBar, storeBar
    <2>2. ASSUME NEW u \in Version \ {next}, NEW k \in Key
          PROVE  snapshotBar'[u][k] = snapshotBar[u][k]
        BY <1>1, <1>3, SnapshotKept
    <2>3. \A u \in Version \ {next} : snapshotBar'[u] = snapshotBar[u]
        BY <2>2 DEF snapshotBar
    <2>4. snapshotBar'[next] = storeBar
        BY <1>1, <2>1 DEF snapshotBar, storeBar
    <2> QED
        BY <1>1, <2>3, <2>4, ZenonT(30) DEF snapshotBar
<1>8. writesBar' = writesBar
    BY <1>1, <1>2, <1>3, <1>4 DEF writesBar, Version
<1>9. staleBar' = staleBar
    <2>1. staleBar'[next] = {} /\ staleBar[next] = {}
        <3>1. ASSUME NEW k \in Key, NEW w \in Version, status'[w] = "committed", Written(k, w)
              PROVE  isVisible(next, w)'
            <4>1. w # next /\ status[w] = "committed"
                BY <1>2, <1>3, <3>1 DEF Version
            <4>2. w \notin txnActive
                BY <4>1 DEF IndInv, MarkerMeansUndecided
            <4> QED
                BY <1>1, <1>2, <1>t, <3>1, <4>2 DEF isVisible, TypeOK, Version
        <3> QED
            BY <1>1, <1>3, <1>4, <3>1 DEF staleBar
    <2>2. ASSUME NEW u \in Version \ {next} PROVE staleBar'[u] = staleBar[u]
        <3>1. \A w \in Version : isVisible(u, w)' <=> isVisible(u, w)
            BY <1>3 DEF isVisible
        <3>2. \A w \in Version, k \in Key :
                (status'[w] = "committed" /\ Written(k, w)) <=> (status[w] = "committed" /\ Written(k, w))
            BY <1>2, <1>3 DEF Version
        <3> QED
            BY <1>3, <1>4, <3>1, <3>2 DEF staleBar
    <2> QED
        BY <2>1, <2>2 DEF staleBar
<1> QED
    BY <1>1, <1>5, <1>6, <1>7, <1>8, <1>9 DEF SI!Begin

\* Storing a version is an abstract write: the conflict check has ruled out
\* a stale key and a pending write of somebody else.
LEMMA WriteRefines ==
    ASSUME IndInv, NEW v \in Version, NEW k \in Key, NEW c \in Value \cup {Tombstone},
           write(v, k, c)
    PROVE  SI!Write(v, k, decodeVersionedValue(c))
<1> USE MaxVersionAssumption
<1>1. /\ status[v] = "open" /\ Live(v) /\ v \in txnActive
      /\ \A j \in Key, w \in Version :
            versioned'[j][w] = IF j = k /\ w = v THEN c ELSE versioned[j][w]
      /\ UNCHANGED <<txnActive, status, activeVersions>>
    BY DEF write, StoreVersion, Live, IndInv, TypeOK, MarkerMeansUndecided
<1>2. \A j \in Key, w \in Version : Written(j, w)' <=> Written(j, w) \/ (j = k /\ w = v)
    BY <1>1, SentinelAssumption DEF Written
<1>3. \A w \in Version : Written(k, w) => w <= v /\ w \notin activeVersions[v]
    BY <1>1, NoConcurrentVersion DEF write
<1>4. \A u, w \in Version : (Live(u)' <=> Live(u)) /\ (isVisible(u, w)' <=> isVisible(u, w))
    BY <1>1 DEF Live, isVisible
<1>5. SI!Running(v)
    BY <1>1, PhaseCases DEF SI!Running, phaseBar, Live
<1>6. k \notin staleBar[v]
    BY <1>3 DEF staleBar, isVisible
<1>7. ASSUME NEW u \in Version \ {v} PROVE k \notin SI!KeysWritten(u)
    <2>1. ~(Live(u) /\ Written(k, u))
        BY <1>1, <1>3 DEF IndInv, SnapshotDecided, Live, Version
    <2> QED
        BY <2>1 DEF SI!KeysWritten, writesBar
<1>8. storeBar' = storeBar
    BY <1>1, <1>2, StoreKept
<1>9. phaseBar' = phaseBar
    BY <1>1, <1>4 DEF phaseBar
<1>10. snapshotBar' = snapshotBar
    <2>1. ASSUME NEW u \in Version, NEW j \in Key PROVE snapshotBar'[u][j] = snapshotBar[u][j]
        <3>1. Live(u) => \A w \in Version : w # u /\ isVisible(u, w) => w # v
            BY <1>1, RunningIsInvisible
        <3> QED
            BY <1>1, <1>4, <3>1, SnapshotKept
    <2> QED
        BY <2>1 DEF snapshotBar
<1>11. writesBar' = [writesBar EXCEPT ![v] = [@ EXCEPT ![k] = decodeVersionedValue(c)]]
    <2>1. ASSUME NEW u \in Version, NEW j \in Key
          PROVE  writesBar'[u][j] = IF u = v /\ j = k THEN decodeVersionedValue(c) ELSE writesBar[u][j]
        BY <1>1, <1>2, <1>4 DEF writesBar
    <2>2. \A u \in Version : writesBar'[u] =
            IF u = v THEN [writesBar[u] EXCEPT ![k] = decodeVersionedValue(c)] ELSE writesBar[u]
        BY <2>1 DEF writesBar
    <2> QED
        BY <2>2 DEF writesBar
<1>12. staleBar' = staleBar
    BY <1>1, <1>2, <1>4 DEF staleBar
<1> QED
    BY <1>5, <1>6, <1>7, <1>8, <1>9, <1>10, <1>11, <1>12 DEF SI!Write

(***************************************************************************)
(* A transaction that stays running, whatever its status, changes nothing  *)
(* in the abstract state as long as its entries stay.                      *)
(***************************************************************************)
LEMMA StatusOnlyRefines ==
    ASSUME IndInv, NEW v \in Version, Live(v), status' = [status EXCEPT ![v] = "failed"],
           UNCHANGED <<txnActive, versioned, activeVersions>>
    PROVE  UNCHANGED SI!vars
<1>1. /\ \A w \in Version : (Live(w)' <=> Live(w)) /\ PhaseOf(status'[w]) = PhaseOf(status[w])
      /\ \A w \in Version : status'[w] = "committed" <=> status[w] = "committed"
    BY PhaseCases DEF Live, IndInv, TypeOK
<1>2. \A k \in Key, w \in Version : Written(k, w)' <=> Written(k, w)
    BY DEF Written
<1>3. \A u, w \in Version : isVisible(u, w)' <=> isVisible(u, w)
    BY DEF isVisible
<1>4. storeBar' = storeBar
    BY <1>2, StoreKept
<1>5. phaseBar' = phaseBar
    BY <1>1 DEF phaseBar
<1>6. snapshotBar' = snapshotBar
    <2>1. \A u \in Version, k \in Key : snapshotBar'[u][k] = snapshotBar[u][k]
        BY <1>1, SnapshotKept
    <2> QED
        BY <2>1 DEF snapshotBar
<1>7. writesBar' = writesBar
    BY <1>1, <1>2 DEF writesBar
<1>8. staleBar' = staleBar
    BY <1>1, <1>2, <1>3 DEF staleBar
<1> QED
    BY <1>4, <1>5, <1>6, <1>7, <1>8 DEF SI!vars

\* Commit drops the marker last, and with it all writes become the store.
LEMMA CommitRefines ==
    ASSUME IndInv, NEW v \in Version, Commit(v)
    PROVE  SI!Commit(v)
<1> USE MaxVersionAssumption
<1>1. /\ status[v] = "open" /\ Live(v) /\ v \in txnActive
      /\ txnActive' = txnActive \ {v}
      /\ UNCHANGED <<versioned, activeVersions>>
      /\ status'[v] = "committed" /\ ~Live(v)'
      /\ \A w \in Version \ {v} : status'[w] = status[w] /\ (Live(w)' <=> Live(w))
    BY DEF Commit, Live, IndInv, TypeOK, MarkerMeansUndecided
<1>2. \A k \in Key, w \in Version : Written(k, w)' <=> Written(k, w)
    BY <1>1 DEF Written
<1>3. \A u, w \in Version : isVisible(u, w)' <=> isVisible(u, w)
    BY <1>1 DEF isVisible
<1>4. \A k \in Key : k \in SI!KeysWritten(v) <=> Written(k, v)
    BY <1>1, SentinelAssumption DEF SI!KeysWritten, writesBar, decodeVersionedValue, Written
<1>5. \A u \in Version : SI!Running(u) <=> Live(u)
    BY PhaseCases DEF SI!Running, phaseBar, Live, IndInv, TypeOK, Status
<1>6. storeBar' = [k \in Key |-> IF k \in SI!KeysWritten(v) THEN writesBar[v][k] ELSE storeBar[k]]
    <2>1. ASSUME NEW k \in Key, ~Written(k, v) PROVE storeBar'[k] = storeBar[k]
        <3>1. CommittedEntries(k)' = CommittedEntries(k)
            BY <1>1, <1>2, <2>1 DEF CommittedEntries
        <3> QED
            BY <3>1 DEF storeBar
    <2>2. ASSUME NEW k \in Key, Written(k, v) PROVE storeBar'[k] = writesBar[v][k]
        <3>1. ASSUME NEW w \in Version, Written(k, w), w \notin txnActive PROVE w < v
            <4>1. status[w] # "none" /\ w # v
                BY <1>1, <3>1 DEF IndInv, NothingLeft
            <4>2. v < w => v \notin activeVersions[w]
                BY <2>2, <3>1 DEF IndInv, FirstUpdaterWins
            <4> QED
                BY <1>1, <4>1, <4>2 DEF IndInv, SnapshotDecided, Version
        <3> DEFINE entries == CommittedEntries(k)'
        <3>2. v \in DOMAIN entries /\ entries[v] = versioned[k][v]
            BY <1>1, <1>2, <2>2 DEF CommittedEntries
        <3>3. \A w \in DOMAIN entries : w \in Version /\ w <= v
            BY <1>1, <1>2, <3>1 DEF CommittedEntries, Version
        <3> HIDE DEF entries
        <3>4. Newest(entries) = versioned[k][v]
            <4>1. \A w \in DOMAIN entries : (\A x \in DOMAIN entries : x <= w) => w = v
                BY <3>2, <3>3 DEF Version
            <4> QED
                BY <3>2, <3>3, <4>1 DEF Newest
        <3> QED
            BY <1>1, <2>2, <3>2, <3>4 DEF storeBar, writesBar, entries
    <2> QED
        BY <1>4, <2>1, <2>2 DEF storeBar
<1>7. phaseBar' = [phaseBar EXCEPT ![v] = "committed"]
    BY <1>1, PhaseCases DEF phaseBar
<1>8. snapshotBar' = [snapshotBar EXCEPT ![v] = SI!NoSnapshot]
    <2>1. snapshotBar'[v] = SI!NoSnapshot
        BY <1>1 DEF snapshotBar, SI!NoSnapshot
    <2>2. \A u \in Version \ {v}, k \in Key : snapshotBar'[u][k] = snapshotBar[u][k]
        BY <1>1, SnapshotKept
    <2>3. \A u \in Version \ {v} : snapshotBar'[u] = snapshotBar[u]
        BY <2>2 DEF snapshotBar
    <2> QED
        BY <2>1, <2>3, ZenonT(30) DEF snapshotBar
<1>9. writesBar' = [writesBar EXCEPT ![v] = SI!NoWrites]
    <2>1. writesBar'[v] = SI!NoWrites
        BY <1>1 DEF writesBar, SI!NoWrites
    <2>2. \A u \in Version \ {v} : writesBar'[u] = writesBar[u]
        BY <1>1, <1>2 DEF writesBar
    <2> QED
        BY <2>1, <2>2, ZenonT(30) DEF writesBar
<1>10. staleBar' = [u \in Version |->
            IF u # v /\ SI!Running(u) THEN staleBar[u] \cup SI!KeysWritten(v) ELSE {}]
    <2>1. ASSUME NEW u \in Version, ~(u # v /\ Live(u)) PROVE staleBar'[u] = {}
        BY <1>1, <2>1 DEF staleBar
    <2>2. ASSUME NEW u \in Version, u # v, Live(u)
          PROVE  staleBar'[u] = staleBar[u] \cup SI!KeysWritten(v)
        <3>1. ~isVisible(u, v)
            BY <1>1, <2>2, RunningIsInvisible
        <3>2. \A k \in Key : k \in staleBar'[u] <=> k \in staleBar[u] \/ Written(k, v)
            BY <1>1, <1>2, <1>3, <2>2, <3>1 DEF staleBar
        <3> QED
            BY <1>4, <3>2 DEF staleBar, SI!KeysWritten
    <2> QED
        BY <1>5, <2>1, <2>2 DEF staleBar
<1> QED
    BY <1>1, <1>5, <1>6, <1>7, <1>8, <1>9, <1>10 DEF SI!Commit

(***************************************************************************)
(* Transactions that stop running without committing take nothing with     *)
(* them: their entries are gone, or hidden behind a marker that stays.     *)
(***************************************************************************)
LEMMA AbortRefines ==
    ASSUME IndInv, IndInv', NEW aborted \in SUBSET Version,
           \A v \in aborted : Live(v) /\ status'[v] \in {"rolledback", "dangling"},
           \A v \in Version \ aborted : status'[v] = status[v],
           \A v \in Version \ aborted : v \in txnActive' <=> v \in txnActive,
           \A v \in Version \ aborted : \A k \in Key : versioned'[k][v] = versioned[k][v],
           activeVersions' = activeVersions
    PROVE  SI!Abort(aborted)
<1> USE MaxVersionAssumption
<1>1. /\ \A u \in aborted : u \in Version /\ Live(u) /\ ~Live(u)'
      /\ \A u \in Version \ aborted : Live(u)' <=> Live(u)
    BY DEF Live
<1>2. \A k \in Key, w \in Version \ aborted : Written(k, w)' <=> Written(k, w)
    BY DEF Written
<1>3. \A u, w \in Version : isVisible(u, w)' <=> isVisible(u, w)
    BY DEF isVisible
<1>4. ASSUME NEW v \in aborted, NEW k \in Key
      PROVE  v \in txnActive /\ (Written(k, v)' => v \in txnActive')
    BY DEF IndInv, MarkerMeansUndecided, NothingLeft, Live
<1>5. storeBar' = storeBar
    BY <1>2, <1>4, StoreKept
<1>6. phaseBar' = [u \in Version |-> IF u \in aborted THEN "aborted" ELSE phaseBar[u]]
    BY PhaseCases DEF phaseBar
<1>7. snapshotBar' = [u \in Version |-> IF u \in aborted THEN SI!NoSnapshot ELSE snapshotBar[u]]
    <2>1. \A u \in aborted : snapshotBar'[u] = SI!NoSnapshot
        BY <1>1 DEF snapshotBar, SI!NoSnapshot
    <2>2. ASSUME NEW u \in Version \ aborted, NEW k \in Key
          PROVE  snapshotBar'[u][k] = snapshotBar[u][k]
        <3>1. Live(u) => \A w \in Version : w # u /\ isVisible(u, w) => w \notin aborted
            BY <1>1, RunningIsInvisible
        <3> QED
            BY <1>1, <3>1, SnapshotKept
    <2>3. \A u \in Version \ aborted : snapshotBar'[u] = snapshotBar[u]
        BY <2>2 DEF snapshotBar
    <2> QED
        BY <2>1, <2>3 DEF snapshotBar
<1>8. writesBar' = [u \in Version |-> IF u \in aborted THEN SI!NoWrites ELSE writesBar[u]]
    <2>1. \A u \in aborted : writesBar'[u] = SI!NoWrites
        BY <1>1 DEF writesBar, SI!NoWrites
    <2>2. \A u \in Version \ aborted : writesBar'[u] = writesBar[u]
        BY <1>1, <1>2 DEF writesBar
    <2> QED
        BY <2>1, <2>2 DEF writesBar
<1>9. staleBar' = [u \in Version |-> IF u \in aborted THEN {} ELSE staleBar[u]]
    <2>1. \A u \in aborted : staleBar'[u] = {}
        BY <1>1 DEF staleBar
    <2>2. \A w \in Version : status'[w] = "committed" <=> status[w] = "committed"
        BY DEF Live
    <2>3. \A w \in Version : status[w] = "committed" => w \notin aborted
        BY DEF Live
    <2>4. \A u \in Version \ aborted : staleBar'[u] = staleBar[u]
        BY <1>1, <1>2, <1>3, <2>2, <2>3 DEF staleBar
    <2> QED
        BY <2>1, <2>4 DEF staleBar
<1>10. \A u \in aborted : SI!Running(u)
    BY <1>1, PhaseCases DEF SI!Running, phaseBar, Live
<1> QED
    BY <1>10, <1>5, <1>6, <1>7, <1>8, <1>9 DEF SI!Abort

LEMMA StepRefines == IndInv /\ [Next]_vars => [SI!Next]_SI!vars
<1> SUFFICES ASSUME IndInv, [Next]_vars PROVE [SI!Next]_SI!vars
    OBVIOUS
<1>0. IndInv' /\ TypeOK /\ TypeOK'
    BY StepInv DEF IndInv
<1>1. CASE Begin
    <2>1. PICK next : next = LoadNext
        OBVIOUS
    <2> QED
        BY <1>1, <2>1, BeginRefines DEF SI!Next
<1>2. CASE BeginFails \/ UNCHANGED vars
    <2>1. UNCHANGED <<txnActive, versioned, status, activeVersions>>
        BY <1>2 DEF BeginFails, vars
    <2> QED
        BY <2>1 DEF SI!vars, storeBar, CommittedEntries, phaseBar, snapshotBar, SnapshotEntries,
            VisibleVersions, isVisible, writesBar, staleBar, Written, Live
<1>3. ASSUME NEW v \in Version, TxnStep(v) PROVE [SI!Next]_SI!vars
    <2>1. ASSUME NEW k \in Key, NEW c \in Value \cup {Tombstone}, write(v, k, c)
          PROVE  SI!Next
        <3>1. decodeVersionedValue(c) \in Value \cup {Nil}
            BY DEF decodeVersionedValue
        <3> QED
            BY <2>1, <3>1, WriteRefines DEF SI!Next
    <2>2. CASE \E k \in Key : (\E value \in Value : Set(v, k, value)) \/ Delete(v, k)
        BY <2>1, <2>2 DEF Set, Delete
    <2>3. CASE (\E k \in Key : writeFails(v, k) \/ writeConflicts(v, k)) \/ StatementFails(v)
        BY <2>3, StatusOnlyRefines DEF writeFails, writeConflicts, StatementFails, Live
    <2>4. CASE Commit(v)
        BY <2>4, CommitRefines DEF SI!Next
    <2>5. ASSUME NEW forgotten \in SUBSET Key, CommitFails(v, forgotten)
          PROVE  SI!Abort({v})
        BY <1>0, <2>5, AbortRefines DEF CommitFails, Live, TypeOK
    <2>6. CASE Rollback(v)
        <3>1. SI!Abort({v})
            BY <1>0, <2>6, AbortRefines DEF Rollback, DropVersions, Live, TypeOK
        <3> QED BY <3>1 DEF SI!Next
    <2>7. ASSUME NEW undone \in SUBSET Key, NEW half \in SUBSET Key,
                 RollbackFails(v, undone, half)
          PROVE  SI!Abort({v})
        BY <1>0, <2>7, AbortRefines DEF RollbackFails, DropVersions, Live, TypeOK
    <2>8. SI!Abort({v}) => SI!Next
        BY DEF SI!Next
    <2> QED
        BY <1>3, <2>2, <2>3, <2>4, <2>5, <2>6, <2>7, <2>8 DEF TxnStep
<1>4. CASE Crash
    <2>1. PICK aborted \in SUBSET Version : aborted = {v \in Version : Live(v)}
        OBVIOUS
    <2>2. SI!Abort(aborted)
        BY <1>0, <1>4, <2>1, AbortRefines DEF Crash
    <2> QED
        BY <2>2 DEF SI!Next
<1> QED
    BY <1>1, <1>2, <1>3, <1>4 DEF Next

(***************************************************************************)
(* Every behaviour of the MVCC layer, failing engine calls and crashes     *)
(* included, is one of snapshot isolation (storage.go: Begin, write,       *)
(* Commit, Rollback).                                                      *)
(***************************************************************************)
THEOREM Refinement == Spec => ImplementsSnapshotIsolation
<1>1. Spec => SI!Spec
    BY InitRefines, StepRefines, Invariance, PTL DEF Spec, SI!Spec
<1> QED
    BY <1>1 DEF ImplementsSnapshotIsolation

-----------------------------------------------------------------------------
(***************************************************************************)
(* The two ways of reading.                                                *)
(***************************************************************************)

\* The newest of some entries is the one no other is newer than.
LEMMA NewestIs ==
    ASSUME NEW entries, DOMAIN entries \subseteq Version,
           NEW w \in DOMAIN entries, \A x \in DOMAIN entries : x <= w
    PROVE  Newest(entries) = entries[w]
<1>1. \A y \in DOMAIN entries : (\A x \in DOMAIN entries : x <= y) => y = w
    BY MaxVersionAssumption DEF Version
<1> QED
    BY <1>1 DEF Newest

(***************************************************************************)
(* Get's reverse scan finds what snapshot isolation says a transaction     *)
(* reads: its own last write, else its snapshot.                           *)
(***************************************************************************)
LEMMA GetIsRead ==
    ASSUME IndInv, NEW v \in Version, Live(v), NEW k \in Key
    PROVE  Get(v, k) = SI!Read(v, k)
<1> USE MaxVersionAssumption
<1>1. v \notin activeVersions[v]
    BY DEF IndInv, SnapshotDecided, Live, Version
<1>2. CASE Written(k, v)
    <2>1. v \in VisibleVersions(v, k) /\ \A w \in VisibleVersions(v, k) : w <= v
        BY <1>1, <1>2 DEF VisibleVersions, isVisible, Version
    <2>2. /\ DOMAIN VisibleEntries(v, k) = VisibleVersions(v, k)
          /\ VisibleVersions(v, k) \subseteq Version
          /\ v \in VisibleVersions(v, k) => VisibleEntries(v, k)[v] = versioned[k][v]
        BY DEF VisibleEntries, VisibleVersions
    <2>3. Newest(VisibleEntries(v, k)) = versioned[k][v]
        BY <2>1, <2>2, NewestIs
    <2>4. Get(v, k) = decodeVersionedValue(versioned[k][v])
        BY <2>1, <2>3 DEF Get, VisibleEntries
    <2>5. writesBar[v][k] = decodeVersionedValue(versioned[k][v]) /\ writesBar[v][k] # NoEntry
        BY <1>2, SentinelAssumption DEF writesBar, decodeVersionedValue, Written
    <2> QED
        BY <2>4, <2>5 DEF SI!Read
<1>3. CASE ~Written(k, v)
    <2>1. VisibleVersions(v, k) \ {v} = VisibleVersions(v, k)
        BY <1>3 DEF VisibleVersions
    <2>2. SnapshotEntries(v, k) = VisibleEntries(v, k)
        BY <2>1 DEF SnapshotEntries, VisibleEntries
    <2>3. writesBar[v][k] = NoEntry /\ snapshotBar[v][k] = Get(v, k)
        BY <1>3, <2>2 DEF writesBar, snapshotBar, Get
    <2> QED
        BY <2>3 DEF SI!Read
<1> QED
    BY <1>2, <1>3

(***************************************************************************)
(* In every reachable state Get returns what snapshot isolation says the   *)
(* transaction reads (MVCCTransaction.Get).                                *)
(***************************************************************************)
THEOREM GetReadsSnapshotAlways == Spec => []GetReadsSnapshot
<1>1. IndInv => GetReadsSnapshot
    BY GetIsRead DEF GetReadsSnapshot
<1> QED
    BY <1>1, Invariance, PTL

(***************************************************************************)
(* What the scan of ScanPrefix holds for a key after the versions up to w: *)
(* the newest visible entry among them.                                    *)
(***************************************************************************)
SeenUpTo(v, k, w) == {x \in VisibleVersions(v, k) : x <= w}

NewestUpTo(v, k, w) ==
    IF SeenUpTo(v, k, w) = {} THEN Nil
    ELSE decodeVersionedValue(Newest([x \in SeenUpTo(v, k, w) |-> versioned[k][x]]))

\* One step of the scan: a visible version overwrites what was held.
LEMMA NewestUpToStep ==
    ASSUME NEW v \in Version, NEW k \in Key, NEW w \in 0..MaxVersion
    PROVE  NewestUpTo(v, k, w) =
            IF w = 0 THEN Nil
            ELSE IF Written(k, w) /\ isVisible(v, w)
                 THEN decodeVersionedValue(versioned[k][w])
                 ELSE NewestUpTo(v, k, w - 1)
<1> USE MaxVersionAssumption
<1>1. CASE w = 0
    <2>1. SeenUpTo(v, k, w) = {}
        BY <1>1 DEF SeenUpTo, VisibleVersions, Version
    <2> QED
        BY <1>1, <2>1 DEF NewestUpTo
<1>2. CASE w # 0 /\ Written(k, w) /\ isVisible(v, w)
    <2>1. w \in SeenUpTo(v, k, w) /\ \A x \in SeenUpTo(v, k, w) : x <= w
        BY <1>2 DEF SeenUpTo, VisibleVersions, isVisible, Version
    <2>2. SeenUpTo(v, k, w) \subseteq Version
        BY DEF SeenUpTo, VisibleVersions
    <2> DEFINE entries == [x \in SeenUpTo(v, k, w) |-> versioned[k][x]]
    <2>3. DOMAIN entries = SeenUpTo(v, k, w) /\ entries[w] = versioned[k][w]
        BY <2>1
    <2>4. NewestUpTo(v, k, w) = decodeVersionedValue(Newest(entries))
        BY <2>1 DEF NewestUpTo
    <2> HIDE DEF entries
    <2>5. Newest(entries) = entries[w]
        BY <2>1, <2>2, <2>3, NewestIs
    <2> QED
        BY <1>2, <2>3, <2>4, <2>5
<1>3. CASE w # 0 /\ ~(Written(k, w) /\ isVisible(v, w))
    <2>1. SeenUpTo(v, k, w) = SeenUpTo(v, k, w - 1)
        BY <1>3 DEF SeenUpTo, VisibleVersions, Version
    <2> QED
        BY <1>3, <2>1 DEF NewestUpTo
<1> QED
    BY <1>1, <1>2, <1>3

\* Two functions that satisfy the scan's equation are the same: a least
\* version at which they differ cannot be.
LEMMA ScanIsUnique ==
    ASSUME NEW v \in Version, NEW k \in Key, NEW f,
           f = [w \in 0..MaxVersion |->
                    IF w = 0 THEN Nil
                    ELSE IF Written(k, w) /\ isVisible(v, w)
                         THEN decodeVersionedValue(versioned[k][w])
                         ELSE f[w - 1]],
           NEW n \in 0..MaxVersion
    PROVE  f[n] = NewestUpTo(v, k, n)
<1> USE MaxVersionAssumption
<1> DEFINE Differ == {w \in 0..MaxVersion : f[w] # NewestUpTo(v, k, w)}
           Less == OpToRel(<, Nat)
<1> SUFFICES ASSUME Differ # {} PROVE FALSE
    OBVIOUS
<1>1. Differ \subseteq Nat
    OBVIOUS
<1>2. IsWellFoundedOn(Less, Nat)
    BY NatLessThanWellFounded
<1>3. \A m, j \in Nat : m < j => <<m, j>> \in Less
    BY DEF OpToRel
<1>4. PICK d \in Differ : \A b \in Differ : ~(<<b, d>> \in Less)
    <2> HIDE DEF Less, Differ
    <2> QED BY <1>1, <1>2, WFMin
<1>5. d \in 0..MaxVersion /\ f[d] # NewestUpTo(v, k, d)
    BY <1>4
<1>6. d # 0 => f[d - 1] = NewestUpTo(v, k, d - 1)
    <2> SUFFICES ASSUME d # 0, f[d - 1] # NewestUpTo(v, k, d - 1) PROVE FALSE
        OBVIOUS
    <2>1. d - 1 \in Differ /\ d - 1 < d
        BY <1>5
    <2> QED
        BY <1>1, <1>3, <1>4, <2>1
<1>7. f[d] = IF d = 0 THEN Nil
             ELSE IF Written(k, d) /\ isVisible(v, d)
                  THEN decodeVersionedValue(versioned[k][d])
                  ELSE f[d - 1]
    BY <1>5
<1> QED
    BY <1>5, <1>6, <1>7, NewestUpToStep

LEMMA ScanIsGet ==
    ASSUME NEW v \in Version, NEW k \in Key
    PROVE  currentValue(v, k) = Get(v, k)
<1> USE MaxVersionAssumption
<1> DEFINE Scan(f) == [w \in 0..MaxVersion |->
                        IF w = 0 THEN Nil
                        ELSE IF Written(k, w) /\ isVisible(v, w)
                             THEN decodeVersionedValue(versioned[k][w])
                             ELSE f[w - 1]]
           held == CHOOSE f : f = Scan(f)
           expected == [w \in 0..MaxVersion |-> NewestUpTo(v, k, w)]
<1>1. currentValue(v, k) = held[MaxVersion]
    BY DEF currentValue
<1>2. expected = Scan(expected)
    <2>1. \A w \in 0..MaxVersion : w # 0 => expected[w - 1] = NewestUpTo(v, k, w - 1)
        OBVIOUS
    <2>2. \A w \in 0..MaxVersion : expected[w] = Scan(expected)[w]
        BY <2>1, NewestUpToStep
    <2> QED
        BY <2>2
<1>3. held = Scan(held)
    <2> HIDE DEF Scan, expected
    <2> QED BY <1>2
<1>4. held[MaxVersion] = NewestUpTo(v, k, MaxVersion)
    <2> HIDE DEF held
    <2> QED BY <1>3, ScanIsUnique
<1>5. SeenUpTo(v, k, MaxVersion) = VisibleVersions(v, k)
    BY DEF SeenUpTo, VisibleVersions, Version
<1>6. NewestUpTo(v, k, MaxVersion) = Get(v, k)
    BY <1>5 DEF NewestUpTo, Get, VisibleEntries
<1> QED
    BY <1>1, <1>4, <1>6

(***************************************************************************)
(* ScanPrefix and Get agree on every key in every reachable state: the     *)
(* forward scan that overwrites and the backward scan that stops find the  *)
(* same entry (MVCCTransaction.ScanPrefix, Get).                           *)
(***************************************************************************)
THEOREM ScanAgreesWithGetAlways == Spec => []ScanAgreesWithGet
<1>1. ScanAgreesWithGet
    BY ScanIsGet DEF ScanAgreesWithGet, ScanPrefix
<1> QED
    BY <1>1, PTL

=============================================================================
