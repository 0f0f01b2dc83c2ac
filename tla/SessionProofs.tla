---------------------------- MODULE SessionProofs ----------------------------
(***************************************************************************)
(* Sessions keep the database consistent, for every set of statements,     *)
(* tables, values and concurrent executions.                               *)
(***************************************************************************)
EXTENDS Session, Foundations, FiniteSetTheorems

-----------------------------------------------------------------------------
(***************************************************************************)
(* The inductive invariant.                                                *)
(***************************************************************************)
\* JSON loses nothing: all strings are valid UTF-8.
Exact == \A v \in SQLValue : JSON(v) = v

Fits(table, row) ==
    /\ Len(row) = Len(table.columns)
    /\ \A i \in 1..Len(row) :
        row[i].kind = table.columns[i].dataType \/ (row[i] = Null /\ table.columns[i].nullable)

\* row fits the table, and v is its primary key.
RowOf(table, v, row) == Fits(table, row) /\ (Exact => PrimaryKeyValue(table, row) = v)

\* Every row of the database d has a table, and fits it.
Consistent(d) ==
    \A name \in TableName, v \in SQLValue :
        d[rowKey(name, v)] # Nil =>
            d[tableKey(name)] # Nil /\ RowOf(d[tableKey(name)], v, d[rowKey(name, v)])

\* What the transaction of t has to do with the store: the snapshot differs
\* from it only in keys that t can no longer write, and never in a table
\* that t has seen.
SnapshotInv(t) ==
    /\ Consistent(snapshot[t])
    /\ \A k \in Key : k \notin stale[t] => store[k] = snapshot[t][k]
    /\ \A name \in TableName :
        snapshot[t][tableKey(name)] # Nil => store[tableKey(name)] = snapshot[t][tableKey(name)]

\* What t has written: a table only where there was none, a row only where
\* there was a table that it fits.
WritesInv(t) ==
    /\ \A k \in Key : writes[t][k] # NoWrite => k \notin stale[t]
    /\ \A name \in TableName : writes[t][tableKey(name)] # NoWrite =>
        /\ statement[t].op = "create"
        /\ snapshot[t][tableKey(name)] = Nil
        /\ writes[t][tableKey(name)] \in Tables
    /\ \A name \in TableName, v \in SQLValue : writes[t][rowKey(name, v)] \notin {NoWrite, Nil} =>
        /\ snapshot[t][tableKey(name)] # Nil
        /\ RowOf(snapshot[t][tableKey(name)], v, writes[t][rowKey(name, v)])

\* The part of the invariant that is about the transactions.
TypeDB ==
    /\ IsContents(store, {Nil})
    /\ phase \in [Txn -> {"idle", "running", "committed", "aborted"}]
    /\ snapshot = [t \in Txn |-> snapshot[t]] /\ \A t \in Txn : IsContents(snapshot[t], {Nil})
    /\ writes = [t \in Txn |-> writes[t]] /\ \A t \in Txn : IsContents(writes[t], {Nil, NoWrite})
    /\ stale \in [Txn -> SUBSET Key]

TxnInv(t) ==
    IF phase[t] = "running" THEN SnapshotInv(t) /\ WritesInv(t) ELSE writes[t] = DB!NoWrites

\* No key has two writers.
OneWriter ==
    \A t, u \in Txn, k \in Key : writes[t][k] # NoWrite /\ writes[u][k] # NoWrite => t = u

DBInv == TypeDB /\ Consistent(store) /\ OneWriter /\ \A t \in Txn : TxnInv(t)

\* The part that is about the executions.
SeenTable(t) == snapshot[t][tableKey(statement[t].name)]

AssignedRow(t) ==
    assign(SeenTable(t),
           [c \in DOMAIN statement[t].assignments |-> ValueFromExpression(statement[t].assignments[c])],
           Head(rest[t]))

TypeSession ==
    /\ statement \in [Txn -> Statement \cup {NoStatement}]
    /\ step \in [Txn -> Step]
    /\ rest \in [Txn -> Seq(Seq(SQLValue))]
    /\ result \in [Txn -> [rows : Seq(Seq(SQLValue)), count : Nat]]
    /\ \A t \in Txn : statement[t] = NoStatement <=> step[t] = "idle"
    /\ \A t \in Txn : phase[t] = "running" <=> step[t] \notin {"idle", "ended"}

\* What an executor has checked before its loop, and before the second half
\* of a move, still holds.
LoopInv(t) ==
    /\ step[t] \in {"rows", "moving"} =>
        /\ statement[t].op \in {"insert", "update", "delete"}
        /\ SeenTable(t) # Nil
        /\ statement[t].op = "update" => \A c \in DOMAIN statement[t].assignments :
                ValueFromExpression(statement[t].assignments[c]) # EvaluationError
    /\ step[t] = "moving" =>
        /\ statement[t].op = "update" /\ rest[t] # <<>>
        /\ validateRow(SeenTable(t), AssignedRow(t))

SessionInv == TypeSession /\ \A t \in Txn : LoopInv(t)

Inv == DBInv /\ SessionInv

-----------------------------------------------------------------------------
(***************************************************************************)
(* Keys and values.                                                        *)
(***************************************************************************)
LEMMA KeysDiffer ==
    /\ \A name \in TableName : tableKey(name) \in Key
    /\ \A name \in TableName, v \in SQLValue : rowKey(name, v) \in Key
    /\ \A a, b, w : tableKey(a) # rowKey(b, w)
    /\ \A a, b : tableKey(a) = tableKey(b) => a = b
    /\ \A a, b, v, w : rowKey(a, v) = rowKey(b, w) => a = b /\ v = w
<1>1. \A a, b, w : tableKey(a) # rowKey(b, w)
    BY DEF tableKey, rowKey
<1>2. \A a, b : tableKey(a) = tableKey(b) => a = b
    BY DEF tableKey
<1>3. \A a, b, v, w : rowKey(a, v) = rowKey(b, w) => a = b /\ v = w
    BY DEF rowKey
<1>4. /\ \A name \in TableName : tableKey(name) \in Key
      /\ \A name \in TableName, v \in SQLValue : rowKey(name, v) \in Key
    BY DEF Key
<1> QED
    BY <1>1, <1>2, <1>3, <1>4

LEMMA KeyIs ==
    ASSUME NEW k \in Key
    PROVE  \/ \E name \in TableName : k = tableKey(name)
           \/ \E name \in TableName, v \in SQLValue : k = rowKey(name, v)
BY DEF Key

LEMMA JSONKeeps ==
    ASSUME NEW v \in SQLValue
    PROVE  /\ JSON(v) \in SQLValue /\ JSON(v).kind = v.kind
           /\ v = Null => JSON(v) = Null
<1>1. v \in [kind : ValueKind, n : Nat] /\ JSON(v) \in SQLValue
    BY SQLValueAssumption
<1>2. JSON(v).kind = v.kind
    BY <1>1 DEF JSON
<1>3. v = Null => JSON(v) = Null
    BY DEF JSON, Null
<1> QED
    BY <1>1, <1>2, <1>3

LEMMA SequenceIs ==
    ASSUME NEW s, IsSequence(s)
    PROVE  /\ Len(s) \in Nat /\ DOMAIN s = 1..Len(s) /\ s = [i \in 1..Len(s) |-> s[i]]
           /\ \A i \in 1..Len(s) : s[i] \in Range(s)
<1>1. s \in Seq(Range(s))
    BY DEF IsSequence
<1> DEFINE R == Range(s)
<1>2. s \in Seq(R)
    BY <1>1
<1> HIDE DEF R
<1>3. /\ Len(s) \in Nat /\ DOMAIN s = 1..Len(s) /\ s = [i \in 1..Len(s) |-> s[i]]
      /\ \A i \in 1..Len(s) : s[i] \in R
    BY <1>2
<1> QED
    BY <1>3 DEF R

\* A value that is stored: JSON changes neither type nor nullness, and
\* nothing at all if all strings are valid.
LEMMA ValidFits ==
    ASSUME NEW table, NEW row \in Seq(SQLValue), validateRow(table, row)
    PROVE  /\ JSONRow(row) \in Seq(SQLValue) /\ Fits(table, JSONRow(row))
           /\ Exact => JSONRow(row) = row
<1> DEFINE n == Len(row)
           json == JSONRow(row)
<1>1. /\ n \in Nat /\ row = [i \in 1..n |-> row[i]] /\ \A i \in 1..n : row[i] \in SQLValue
    OBVIOUS
<1>2. json = [i \in 1..n |-> JSON(row[i])]
    BY DEF JSONRow
<1>3. /\ n = Len(table.columns)
      /\ \A i \in 1..n : IF row[i] = Null THEN table.columns[i].nullable
                         ELSE row[i].kind = table.columns[i].dataType
    BY DEF validateRow
<1> HIDE DEF n, json
<1>4. ASSUME NEW i \in 1..n
      PROVE  /\ JSON(row[i]) \in SQLValue
             /\ \/ JSON(row[i]).kind = table.columns[i].dataType
                \/ JSON(row[i]) = Null /\ table.columns[i].nullable
    <2>1. row[i] \in SQLValue
        BY <1>1
    <2> QED
        BY <1>3, <2>1, JSONKeeps
<1>5. json \in Seq(SQLValue) /\ Len(json) = n
    BY <1>1, <1>2, <1>4
<1>6. Fits(table, json)
    <2>1. ASSUME NEW i \in 1..n
          PROVE  json[i].kind = table.columns[i].dataType \/ (json[i] = Null /\ table.columns[i].nullable)
        BY <1>2, <1>4
    <2> QED
        BY <1>3, <1>5, <2>1 DEF Fits
<1>7. Exact => json = row
    BY <1>1, <1>2 DEF Exact
<1> QED
    BY <1>5, <1>6, <1>7 DEF json

-----------------------------------------------------------------------------
(***************************************************************************)
(* The steps of the transactions.                                          *)
(***************************************************************************)
LEMMA ContentsIs ==
    ASSUME NEW d, NEW nothing, IsContents(d, nothing)
    PROVE  /\ DOMAIN d = Key /\ d = [k \in Key |-> d[k]]
           /\ \A name \in TableName : d[tableKey(name)] \in Tables \cup nothing
           /\ \A name \in TableName, v \in SQLValue : d[rowKey(name, v)] \in Seq(SQLValue) \cup nothing
<1>1. d = [k \in Key |-> d[k]]
    BY DEF IsContents
<1>2. DOMAIN d = Key
    BY <1>1
<1> QED
    BY <1>1, <1>2 DEF IsContents

\* Nobody has written anything.
LEMMA NothingIs ==
    /\ IsContents(DB!NoSnapshot, {Nil}) /\ Consistent(DB!NoSnapshot)
    /\ IsContents(DB!NoWrites, {Nil, NoWrite}) /\ \A k \in Key : DB!NoWrites[k] = NoWrite
BY KeysDiffer DEF IsContents, Consistent, DB!NoSnapshot, DB!NoWrites

LEMMA DBInit == Init => DBInv
<1> SUFFICES ASSUME Init PROVE DBInv
    OBVIOUS
<1>1. /\ store = DB!NoSnapshot /\ phase = [t \in Txn |-> "idle"]
      /\ snapshot = [t \in Txn |-> DB!NoSnapshot] /\ writes = [t \in Txn |-> DB!NoWrites]
      /\ stale = [t \in Txn |-> {}]
    BY DEF Init, DB!Init
<1>2. TypeDB /\ Consistent(store)
    BY <1>1, NothingIs DEF TypeDB
<1>3. OneWriter
    BY <1>1, NothingIs DEF OneWriter
<1>4. \A t \in Txn : TxnInv(t)
    BY <1>1 DEF TxnInv
<1> QED
    BY <1>2, <1>3, <1>4 DEF DBInv

LEMMA DBSame ==
    ASSUME DBInv, UNCHANGED <<store, phase, snapshot, writes, stale, statement>>
    PROVE  DBInv'
BY ZenonT(30) DEF DBInv, TypeDB, IsContents, Consistent, OneWriter, TxnInv, SnapshotInv, WritesInv, DB!NoWrites

LEMMA DBBegin ==
    ASSUME DBInv, NEW t \in Txn, NEW s, DB!Begin(t), statement \in [Txn -> Statement \cup {NoStatement}],
           statement' = [statement EXCEPT ![t] = s]
    PROVE  DBInv'
<1>1. /\ phase[t] = "idle" /\ phase' = [phase EXCEPT ![t] = "running"]
      /\ snapshot' = [snapshot EXCEPT ![t] = store] /\ UNCHANGED <<store, writes, stale>>
    BY DEF DB!Begin
<1>t. TypeDB /\ Consistent(store) /\ OneWriter /\ \A u \in Txn : TxnInv(u)
    BY DEF DBInv
<1>2. TypeDB'
    BY <1>1, <1>t DEF TypeDB, IsContents
<1>3. Consistent(store)' /\ OneWriter'
    BY <1>1, <1>t DEF Consistent, OneWriter
<1>4. ASSUME NEW u \in Txn PROVE TxnInv(u)'
    <2>1. CASE u = t
        <3>1. phase'[u] = "running" /\ snapshot'[u] = store /\ writes[u] = DB!NoWrites
            BY <1>1, <1>t, <2>1 DEF TypeDB, TxnInv
        <3>2. SnapshotInv(u)'
            BY <1>1, <1>t, <3>1 DEF SnapshotInv, Consistent
        <3>3. WritesInv(u)'
            BY <1>1, <3>1, NothingIs, KeysDiffer DEF WritesInv
        <3> QED
            BY <3>1, <3>2, <3>3 DEF TxnInv
    <2>2. CASE u # t
        <3>1. /\ phase'[u] = phase[u] /\ snapshot'[u] = snapshot[u] /\ statement'[u] = statement[u]
              /\ TxnInv(u)
            BY <1>1, <1>t, <2>2 DEF TypeDB
        <3> QED
            BY <1>1, <3>1 DEF TxnInv, SnapshotInv, WritesInv, Consistent, DB!NoWrites
    <2> QED
        BY <2>1, <2>2
<1> QED
    BY <1>2, <1>3, <1>4 DEF DBInv

\* What t may write under k.
Writable(t, k, value) ==
    /\ \A name \in TableName : k = tableKey(name) =>
        statement[t].op = "create" /\ snapshot[t][k] = Nil /\ value \in Tables
    /\ \A name \in TableName, v \in SQLValue : k = rowKey(name, v) =>
        \/ value = Nil
        \/ /\ value \in Seq(SQLValue) /\ snapshot[t][tableKey(name)] # Nil
           /\ RowOf(snapshot[t][tableKey(name)], v, value)

LEMMA DBWrite ==
    ASSUME DBInv, NEW t \in Txn, NEW k, NEW value, DB!Write(t, k, value), Writable(t, k, value),
           UNCHANGED statement
    PROVE  DBInv'
<1>1. /\ phase[t] = "running" /\ k \notin stale[t]
      /\ \A u \in Txn \ {t} : k \in Key => writes[u][k] = NoWrite
      /\ writes' = [writes EXCEPT ![t] = [@ EXCEPT ![k] = value]]
      /\ UNCHANGED <<store, phase, snapshot, stale>>
    BY DEF DB!Write, DB!Running, DB!KeysWritten
<1>t. TypeDB /\ Consistent(store) /\ OneWriter /\ \A u \in Txn : TxnInv(u)
    BY DEF DBInv
<1>w. /\ writes = [u \in Txn |-> writes[u]] /\ IsContents(writes[t], {Nil, NoWrite})
      /\ SnapshotInv(t) /\ WritesInv(t)
    BY <1>1, <1>t DEF TypeDB, TxnInv
<1> DEFINE w == [writes[t] EXCEPT ![k] = value]
<1>2. /\ writes' = [writes EXCEPT ![t] = w] /\ writes'[t] = w
      /\ \A u \in Txn : u # t => writes'[u] = writes[u]
    BY <1>1, <1>w
<1>3. /\ w = [j \in Key |-> w[j]] /\ \A j \in Key : w[j] = IF j = k THEN value ELSE writes[t][j]
    BY <1>w, ContentsIs
<1> HIDE DEF w
<1>4. IsContents(w, {Nil, NoWrite})
    <2>1. ASSUME NEW name \in TableName PROVE w[tableKey(name)] \in Tables \cup {Nil, NoWrite}
        BY <1>3, <1>w, ContentsIs, KeysDiffer DEF Writable
    <2>2. ASSUME NEW name \in TableName, NEW v \in SQLValue
          PROVE  w[rowKey(name, v)] \in Seq(SQLValue) \cup {Nil, NoWrite}
        BY <1>3, <1>w, ContentsIs, KeysDiffer DEF Writable
    <2> QED
        BY <1>3, <2>1, <2>2 DEF IsContents
<1>5. TypeDB'
    <2>1. \A u \in Txn : IsContents(writes'[u], {Nil, NoWrite})
        BY <1>2, <1>4, <1>t DEF TypeDB
    <2>2. writes' = [u \in Txn |-> writes'[u]]
        BY <1>2, <1>w
    <2> QED
        BY <1>1, <1>t, <2>1, <2>2 DEF TypeDB
<1>6. Consistent(store)'
    BY <1>1, <1>t DEF Consistent
<1>7. OneWriter'
    <2> SUFFICES ASSUME NEW a \in Txn, NEW b \in Txn, NEW j \in Key, a # b,
                        writes'[a][j] # NoWrite, writes'[b][j] # NoWrite
                 PROVE  FALSE
        BY DEF OneWriter
    <2>1. \A u \in Txn, i \in Key : i # k => writes'[u][i] = writes[u][i]
        BY <1>2, <1>3
    <2>2. CASE j # k
        BY <1>t, <2>1, <2>2 DEF OneWriter
    <2>3. CASE j = k
        BY <1>1, <1>2, <2>3
    <2> QED
        BY <2>2, <2>3
<1>8. ASSUME NEW u \in Txn PROVE TxnInv(u)'
    <2>1. CASE u = t
        <3>1. phase'[u] = "running" /\ writes'[u] = w
            BY <1>1, <1>2, <2>1
        <3>2. SnapshotInv(u)'
            BY <1>1, <1>w, <2>1 DEF SnapshotInv, Consistent
        <3>3. \A j \in Key : w[j] # NoWrite => j \notin stale[t]
            BY <1>1, <1>3, <1>w DEF WritesInv
        <3>4. ASSUME NEW name \in TableName, w[tableKey(name)] # NoWrite
              PROVE  /\ statement[t].op = "create" /\ snapshot[t][tableKey(name)] = Nil
                     /\ w[tableKey(name)] \in Tables
            <4>1. tableKey(name) \in Key
                BY KeysDiffer
            <4>2. CASE tableKey(name) = k
                BY <1>3, <4>1, <4>2 DEF Writable
            <4>3. CASE tableKey(name) # k
                BY <1>3, <1>w, <3>4, <4>1, <4>3 DEF WritesInv
            <4> QED
                BY <4>2, <4>3
        <3>5. ASSUME NEW name \in TableName, NEW v \in SQLValue, w[rowKey(name, v)] \notin {NoWrite, Nil}
              PROVE  /\ snapshot[t][tableKey(name)] # Nil
                     /\ RowOf(snapshot[t][tableKey(name)], v, w[rowKey(name, v)])
            <4>1. rowKey(name, v) \in Key
                BY KeysDiffer
            <4>2. CASE rowKey(name, v) = k
                BY <1>3, <3>5, <4>1, <4>2 DEF Writable
            <4>3. CASE rowKey(name, v) # k
                BY <1>3, <1>w, <3>5, <4>1, <4>3 DEF WritesInv
            <4> QED
                BY <4>2, <4>3
        <3>6. WritesInv(u)'
            BY <1>1, <2>1, <3>1, <3>3, <3>4, <3>5 DEF WritesInv
        <3> QED
            BY <3>1, <3>2, <3>6 DEF TxnInv
    <2>2. CASE u # t
        <3>1. writes'[u] = writes[u] /\ TxnInv(u)
            BY <1>2, <1>t, <2>2
        <3> QED
            BY <1>1, <3>1 DEF TxnInv, SnapshotInv, WritesInv, Consistent, DB!NoWrites
    <2> QED
        BY <2>1, <2>2
<1> QED
    BY <1>5, <1>6, <1>7, <1>8 DEF DBInv

\* The tables of the store that a commit leaves alone: all of them.
LEMMA CommitKeepsTables ==
    ASSUME DBInv, NEW t \in Txn, phase[t] = "running", NEW name \in TableName,
           store[tableKey(name)] # Nil
    PROVE  writes[t][tableKey(name)] = NoWrite
<1>1. SnapshotInv(t) /\ WritesInv(t) /\ tableKey(name) \in Key
    BY KeysDiffer DEF DBInv, TxnInv
<1> SUFFICES ASSUME writes[t][tableKey(name)] # NoWrite PROVE FALSE
    OBVIOUS
<1>2. snapshot[t][tableKey(name)] = Nil /\ tableKey(name) \notin stale[t]
    BY <1>1 DEF WritesInv
<1> QED
    BY <1>1, <1>2 DEF SnapshotInv

LEMMA DBCommit ==
    ASSUME DBInv, NEW t \in Txn, DB!Commit(t), UNCHANGED statement
    PROVE  /\ DBInv'
           /\ \A name \in TableName :
                store[tableKey(name)] # Nil => store'[tableKey(name)] = store[tableKey(name)]
<1>1. /\ phase[t] = "running" /\ phase' = [phase EXCEPT ![t] = "committed"]
      /\ store' = [k \in Key |-> IF writes[t][k] # NoWrite THEN writes[t][k] ELSE store[k]]
      /\ snapshot' = [snapshot EXCEPT ![t] = DB!NoSnapshot]
      /\ writes' = [writes EXCEPT ![t] = DB!NoWrites]
      /\ stale' = [u \in Txn |-> IF u # t /\ phase[u] = "running"
                                 THEN stale[u] \cup {k \in Key : writes[t][k] # NoWrite} ELSE {}]
    BY DEF DB!Commit, DB!Running, DB!KeysWritten
<1>t. TypeDB /\ Consistent(store) /\ OneWriter /\ \A u \in Txn : TxnInv(u)
    BY DEF DBInv
<1>w. /\ SnapshotInv(t) /\ WritesInv(t)
      /\ IsContents(store, {Nil}) /\ IsContents(writes[t], {Nil, NoWrite})
    BY <1>1, <1>t DEF TypeDB, TxnInv
<1>2. \A name \in TableName :
        store[tableKey(name)] # Nil => store'[tableKey(name)] = store[tableKey(name)]
    <2>1. ASSUME NEW name \in TableName, store[tableKey(name)] # Nil
          PROVE  store'[tableKey(name)] = store[tableKey(name)]
        BY <1>1, <2>1, CommitKeepsTables, KeysDiffer
    <2> QED
        BY <2>1
<1>3. IsContents(store', {Nil})
    <2>1. \A name \in TableName : store'[tableKey(name)] \in Tables \cup {Nil}
        BY <1>1, <1>w, ContentsIs, KeysDiffer
    <2>2. ASSUME NEW name \in TableName, NEW v \in SQLValue
          PROVE  store'[rowKey(name, v)] \in Seq(SQLValue) \cup {Nil}
        BY <1>1, <1>w, ContentsIs, KeysDiffer
    <2> QED
        BY <1>1, <2>1, <2>2 DEF IsContents
<1>4. TypeDB'
    <2>1. \A u \in Txn : IsContents(snapshot'[u], {Nil}) /\ IsContents(writes'[u], {Nil, NoWrite})
        BY <1>1, <1>t, NothingIs DEF TypeDB
    <2>2. phase' \in [Txn -> {"idle", "running", "committed", "aborted"}]
        BY <1>1, <1>t DEF TypeDB
    <2>3. snapshot' = [u \in Txn |-> snapshot'[u]] /\ writes' = [u \in Txn |-> writes'[u]]
        BY <1>1, <1>t DEF TypeDB
    <2>4. stale' \in [Txn -> SUBSET Key]
        BY <1>1, <1>t DEF TypeDB
    <2> QED
        BY <1>3, <2>1, <2>2, <2>3, <2>4 DEF TypeDB
<1>5. Consistent(store')
    <2> SUFFICES ASSUME NEW name \in TableName, NEW v \in SQLValue, store'[rowKey(name, v)] # Nil
                 PROVE  /\ store'[tableKey(name)] # Nil
                        /\ RowOf(store'[tableKey(name)], v, store'[rowKey(name, v)])
        BY DEF Consistent
    <2>k. rowKey(name, v) \in Key /\ tableKey(name) \in Key
        BY KeysDiffer
    <2>1. CASE writes[t][rowKey(name, v)] = NoWrite
        <3>1. store'[rowKey(name, v)] = store[rowKey(name, v)]
            BY <1>1, <2>1, <2>k
        <3>2. store[tableKey(name)] # Nil /\ RowOf(store[tableKey(name)], v, store[rowKey(name, v)])
            BY <1>t, <3>1 DEF Consistent
        <3> QED
            BY <1>2, <3>1, <3>2
    <2>2. CASE writes[t][rowKey(name, v)] # NoWrite
        <3>1. store'[rowKey(name, v)] = writes[t][rowKey(name, v)]
            BY <1>1, <2>2, <2>k
        <3>2. /\ snapshot[t][tableKey(name)] # Nil
              /\ RowOf(snapshot[t][tableKey(name)], v, writes[t][rowKey(name, v)])
            BY <1>w, <2>2, <3>1 DEF WritesInv
        <3>3. store[tableKey(name)] = snapshot[t][tableKey(name)]
            BY <1>w, <3>2 DEF SnapshotInv
        <3> QED
            BY <1>2, <3>1, <3>2, <3>3
    <2> QED
        BY <2>1, <2>2
<1>6. OneWriter'
    <2>1. \A u \in Txn, k \in Key : writes'[u][k] # NoWrite => writes[u][k] # NoWrite
        BY <1>1, <1>t, NothingIs DEF TypeDB
    <2> QED
        BY <1>t, <2>1 DEF OneWriter
<1>7. ASSUME NEW u \in Txn PROVE TxnInv(u)'
    <2>1. CASE u = t
        BY <1>1, <1>t, <2>1 DEF TypeDB, TxnInv, DB!NoWrites
    <2>2. CASE u # t /\ phase[u] # "running"
        <3>1. phase'[u] # "running" /\ writes'[u] = writes[u] /\ TxnInv(u)
            BY <1>1, <1>t, <2>2 DEF TypeDB
        <3> QED
            BY <2>2, <3>1 DEF TxnInv, DB!NoWrites
    <2>3. CASE u # t /\ phase[u] = "running"
        <3>1. /\ phase'[u] = "running" /\ writes'[u] = writes[u] /\ snapshot'[u] = snapshot[u]
              /\ stale'[u] = stale[u] \cup {k \in Key : writes[t][k] # NoWrite}
            BY <1>1, <1>t, <2>3 DEF TypeDB
        <3>2. SnapshotInv(u) /\ WritesInv(u)
            BY <1>t, <2>3 DEF TxnInv
        <3>3. Consistent(snapshot'[u])
            BY <3>1, <3>2 DEF SnapshotInv
        <3>4. \A k \in Key : k \notin stale'[u] => store'[k] = snapshot'[u][k]
            BY <1>1, <3>1, <3>2 DEF SnapshotInv
        <3>5. \A name \in TableName : snapshot'[u][tableKey(name)] # Nil =>
                store'[tableKey(name)] = snapshot'[u][tableKey(name)]
            BY <1>2, <3>1, <3>2 DEF SnapshotInv
        <3>6. \A k \in Key : writes'[u][k] # NoWrite => k \notin stale'[u]
            BY <1>t, <2>3, <3>1, <3>2 DEF WritesInv, OneWriter
        <3>7. SnapshotInv(u)'
            BY <3>3, <3>4, <3>5 DEF SnapshotInv
        <3>8. WritesInv(u)'
            BY <3>1, <3>2, <3>6 DEF WritesInv
        <3> QED
            BY <3>1, <3>7, <3>8 DEF TxnInv
    <2> QED
        BY <2>1, <2>2, <2>3
<1> QED
    BY <1>2, <1>4, <1>5, <1>6, <1>7 DEF DBInv

LEMMA DBAbort ==
    ASSUME DBInv, NEW aborted \in SUBSET Txn, DB!Abort(aborted), UNCHANGED statement
    PROVE  DBInv'
<1>1. /\ phase' = [t \in Txn |-> IF t \in aborted THEN "aborted" ELSE phase[t]]
      /\ snapshot' = [t \in Txn |-> IF t \in aborted THEN DB!NoSnapshot ELSE snapshot[t]]
      /\ writes' = [t \in Txn |-> IF t \in aborted THEN DB!NoWrites ELSE writes[t]]
      /\ stale' = [t \in Txn |-> IF t \in aborted THEN {} ELSE stale[t]]
      /\ UNCHANGED store
    BY DEF DB!Abort
<1>t. TypeDB /\ Consistent(store) /\ OneWriter /\ \A u \in Txn : TxnInv(u)
    BY DEF DBInv
<1>2. TypeDB'
    <2>1. \A u \in Txn : IsContents(snapshot'[u], {Nil}) /\ IsContents(writes'[u], {Nil, NoWrite})
        BY <1>1, <1>t, NothingIs DEF TypeDB
    <2>2. phase' \in [Txn -> {"idle", "running", "committed", "aborted"}]
        BY <1>1, <1>t DEF TypeDB
    <2>3. snapshot' = [u \in Txn |-> snapshot'[u]] /\ writes' = [u \in Txn |-> writes'[u]]
        BY <1>1
    <2>4. stale' \in [Txn -> SUBSET Key]
        BY <1>1, <1>t DEF TypeDB
    <2> QED
        BY <1>1, <1>t, <2>1, <2>2, <2>3, <2>4 DEF TypeDB
<1>3. Consistent(store)'
    BY <1>1, <1>t DEF Consistent
<1>4. OneWriter'
    <2>1. \A u \in Txn, k \in Key : writes'[u][k] # NoWrite => writes[u][k] # NoWrite
        BY <1>1, NothingIs
    <2> QED
        BY <1>t, <2>1 DEF OneWriter
<1>5. ASSUME NEW u \in Txn PROVE TxnInv(u)'
    <2>1. CASE u \in aborted
        BY <1>1, <2>1 DEF TxnInv, DB!NoWrites
    <2>2. CASE u \notin aborted
        <3>1. /\ phase'[u] = phase[u] /\ snapshot'[u] = snapshot[u] /\ writes'[u] = writes[u]
              /\ stale'[u] = stale[u] /\ TxnInv(u)
            BY <1>1, <1>t, <2>2
        <3> QED
            BY <1>1, <3>1 DEF TxnInv, SnapshotInv, WritesInv, Consistent, DB!NoWrites
    <2> QED
        BY <2>1, <2>2
<1> QED
    BY <1>2, <1>3, <1>4, <1>5 DEF DBInv

-----------------------------------------------------------------------------
(***************************************************************************)
(* Tables and the rows that the executors make.                            *)
(***************************************************************************)
LEMMA ErrorIsNoValue == EvaluationError \notin SQLValue
<1>1. \A v \in SQLValue : v \in [kind : ValueKind, n : Nat]
    BY SQLValueAssumption
<1>2. \A v \in [kind : ValueKind, n : Nat] : v.kind \in ValueKind
    OBVIOUS
<1> QED
    BY <1>1, <1>2 DEF EvaluationError, ValueKind, DataType

LEMMA CreateIs ==
    ASSUME NEW s \in Statement, s.op = "create", Validate(tableFromCreateStatement(s.definition))
    PROVE  LET x == tableFromCreateStatement(s.definition)
               table == JSONTable(x)
           IN  /\ table \in Tables /\ x.name = s.definition.name /\ x.name \in TableName
               /\ Len(table.columns) \in Nat /\ DOMAIN table.columns = 1..Len(table.columns)
               /\ \A i \in 1..Len(table.columns) :
                    /\ table.columns[i].dataType \in DataType
                    /\ table.columns[i].default # Unset => table.columns[i].default \in SQLValue
               /\ Exact => table = x
<1> DEFINE d == s.definition
           x == tableFromCreateStatement(d)
           table == JSONTable(x)
           n == Len(d.columns)
           C(i) == columnFromDefinition(d.columns[i])
<1>1. /\ d.name \in TableName /\ IsSequence(d.columns)
      /\ \A c \in Range(d.columns) : IsColumnDefinition(c)
    <2>1. IsStatement(s)
        BY StatementAssumption
    <2> QED
        BY <2>1 DEF IsStatement
<1>2. n \in Nat /\ \A i \in 1..n : IsColumnDefinition(d.columns[i])
    BY <1>1, SequenceIs
<1>3. x = [name |-> d.name, columns |-> [i \in 1..n |-> C(i)]]
    BY DEF tableFromCreateStatement
<1>4. x.name = d.name /\ x.columns = [i \in 1..n |-> C(i)]
    BY <1>3
<1> HIDE DEF C
<1>5. Len(x.columns) = n /\ \A i \in 1..n : x.columns[i] = C(i)
    BY <1>2, <1>4
<1>6. table = [name |-> x.name, columns |-> [i \in 1..n |-> JSONColumn(C(i))]]
    <2>1. table = [name |-> x.name, columns |-> [i \in 1..Len(x.columns) |-> JSONColumn(x.columns[i])]]
        BY DEF JSONTable
    <2>2. [i \in 1..Len(x.columns) |-> JSONColumn(x.columns[i])] = [i \in 1..n |-> JSONColumn(C(i))]
        <3> HIDE DEF x
        <3> QED
            BY <1>5, Zenon
    <2> QED
        BY <2>1, <2>2, Zenon
<1>7. table \in Tables
    BY DEF Tables
<1>8. table.columns = [i \in 1..n |-> JSONColumn(C(i))]
    BY <1>6
<1>9. /\ Len(table.columns) = n /\ DOMAIN table.columns = 1..n
      /\ \A i \in 1..n : table.columns[i] = JSONColumn(C(i))
    BY <1>2, <1>8
<1>10. ASSUME NEW i \in 1..n
       PROVE  /\ C(i) = [name |-> C(i).name, dataType |-> C(i).dataType, primaryKey |-> C(i).primaryKey,
                         nullable |-> C(i).nullable, default |-> C(i).default]
              /\ C(i).dataType \in DataType
              /\ C(i).default # Unset => C(i).default \in SQLValue
    <2> DEFINE c == d.columns[i]
    <2>1. IsColumnDefinition(c)
        BY <1>2
    <2>2. C(i) = columnFromDefinition(c)
        BY DEF C
    <2> HIDE DEF c
    <2>3. /\ C(i) = [name |-> C(i).name, dataType |-> C(i).dataType, primaryKey |-> C(i).primaryKey,
                     nullable |-> C(i).nullable, default |-> C(i).default]
          /\ C(i).dataType = c.dataType
          /\ C(i).default \in {Unset, Null} \/ (c.default # Unset /\ C(i).default = ValueFromExpression(c.default))
        BY <2>2 DEF columnFromDefinition
    <2>4. c.dataType \in DataType /\ (c.default # Unset => ValueFromExpression(c.default) \in SQLValue \cup {EvaluationError})
        BY <2>1 DEF IsColumnDefinition, IsOperand
    <2>5. C(i).default \notin {Unset, Null} => C(i).default.kind = C(i).dataType
        <3>1. x.columns[i].default \notin {Unset, Null} => x.columns[i].default.kind = x.columns[i].dataType
            BY <1>5 DEF Validate
        <3> QED
            BY <1>5, <3>1
    <2>6. EvaluationError.kind \notin DataType
        BY DEF EvaluationError, DataType
    <2> QED
        BY <2>3, <2>4, <2>5, <2>6, SQLValueAssumption
<1>11. ASSUME NEW i \in 1..n
       PROVE  /\ table.columns[i].dataType \in DataType
              /\ table.columns[i].default # Unset => table.columns[i].default \in SQLValue
              /\ Exact => table.columns[i] = C(i)
    <2>1. table.columns[i] = JSONColumn(C(i))
        BY <1>9
    <2>2. /\ JSONColumn(C(i)).dataType = C(i).dataType
          /\ JSONColumn(C(i)).default = IF C(i).default = Unset THEN Unset ELSE JSON(C(i).default)
        BY DEF JSONColumn
    <2>3. Exact => JSONColumn(C(i)) = C(i)
        <3>1. Exact => (IF C(i).default = Unset THEN Unset ELSE JSON(C(i).default)) = C(i).default
            BY <1>10 DEF Exact
        <3> QED
            BY <1>10, <3>1 DEF JSONColumn
    <2> QED
        BY <1>10, <2>1, <2>2, <2>3, JSONKeeps
<1>12. Exact => table = x
    <2>1. Exact => [i \in 1..n |-> JSONColumn(C(i))] = [i \in 1..n |-> C(i)]
        BY <1>9, <1>11
    <2> QED
        BY <1>3, <1>4, <1>6, <2>1
<1> HIDE DEF table, x
<1>13. /\ table \in Tables /\ x.name = d.name /\ x.name \in TableName
       /\ Len(table.columns) \in Nat /\ DOMAIN table.columns = 1..Len(table.columns)
       /\ \A i \in 1..Len(table.columns) :
            /\ table.columns[i].dataType \in DataType
            /\ table.columns[i].default # Unset => table.columns[i].default \in SQLValue
       /\ Exact => table = x
    BY <1>1, <1>2, <1>4, <1>7, <1>9, <1>11, <1>12
<1> QED
    BY <1>13 DEF table, x

LEMMA TableIs ==
    ASSUME NEW table \in Tables
    PROVE  /\ Len(table.columns) \in Nat /\ DOMAIN table.columns = 1..Len(table.columns)
           /\ \A i \in 1..Len(table.columns) :
                table.columns[i].default # Unset => table.columns[i].default \in SQLValue
<1>1. PICK s \in Statement : /\ s.op = "create" /\ Validate(tableFromCreateStatement(s.definition))
                             /\ table = JSONTable(tableFromCreateStatement(s.definition))
    BY DEF Tables
<1> QED
    BY <1>1, CreateIs

\* The first member of a sequence that passes a test, if one does.
LEMMA FirstIs ==
    ASSUME NEW n \in Nat, NEW I \in SUBSET (1..n), I # {}
    PROVE  Min(I) \in I
<1>1. \E m \in I : \A k \in I : m <= k
    <2>1. I \in SUBSET Nat
        OBVIOUS
    <2> QED
        BY <2>1, LeastNumber
<1> QED
    BY <1>1 DEF Min

LEMMA MadeRowIs ==
    ASSUME NEW table \in Tables, NEW names, NEW input \in Seq(SQLValue),
           makeInsertRow(table, names, input) # NoRow
    PROVE  makeInsertRow(table, names, input) \in Seq(SQLValue)
<1> DEFINE n == Len(table.columns)
           S(i) == Source(table, names, input, i)
           source == [i \in 1..n |-> S(i)]
           row == [i \in 1..n |-> IF S(i) = 0 THEN table.columns[i].default ELSE input[S(i)]]
<1>1. n \in Nat /\ \A i \in 1..n : table.columns[i].default # Unset => table.columns[i].default \in SQLValue
    BY TableIs
<1>2. /\ CanPlace(table, names, input)
      /\ \A i \in 1..n : S(i) = 0 => table.columns[i].default # Unset
      /\ makeInsertRow(table, names, input) = row
    BY DEF makeInsertRow
<1>3. Len(input) \in Nat /\ \A k \in 1..Len(input) : input[k] \in SQLValue
    OBVIOUS
<1>4. ASSUME NEW i \in 1..n PROVE S(i) \in 0..Len(input)
    <2>1. CASE names = <<>>
        BY <1>1, <1>3, <2>1 DEF Source
    <2>2. CASE names # <<>>
        <3> DEFINE I == {k \in 1..Len(names) : position(table, names[k]) = i}
        <3>1. Len(names) = Len(input)
            BY <1>2, <2>2 DEF CanPlace
        <3>2. S(i) = IF I # {} THEN Min(I) ELSE 0
            BY <2>2 DEF Source, SelectInSeq
        <3>3. I # {} => Min(I) \in 1..Len(input)
            BY <1>3, <3>1, FirstIs
        <3> HIDE DEF I, S
        <3> QED
            BY <1>3, <3>2, <3>3
    <2> QED
        BY <2>1, <2>2
<1> HIDE DEF S
<1>5. ASSUME NEW i \in 1..n PROVE row[i] \in SQLValue
    <2>1. CASE S(i) = 0
        BY <1>1, <1>2, <2>1
    <2>2. CASE S(i) # 0
        <3>1. S(i) \in 1..Len(input)
            BY <1>3, <1>4, <2>2
        <3> QED
            BY <1>3, <2>2, <3>1
    <2> QED
        BY <2>1, <2>2
<1>6. row \in Seq(SQLValue)
    <2>1. row = [i \in 1..n |-> row[i]]
        OBVIOUS
    <2> HIDE DEF row, n
    <2> QED
        BY <1>1, <1>5, <2>1
<1> QED
    BY <1>2, <1>6

LEMMA AssignIs ==
    ASSUME NEW table, NEW assignments, \A c \in DOMAIN assignments : assignments[c] \in SQLValue,
           NEW row \in Seq(SQLValue)
    PROVE  assign(table, assignments, row) \in Seq(SQLValue)
<1> DEFINE n == Len(row)
           Assigned(i) == \E c \in DOMAIN assignments : ColumnIndex(table, c) = i
           E(i) == IF Assigned(i)
                   THEN assignments[CHOOSE c \in DOMAIN assignments : ColumnIndex(table, c) = i] ELSE row[i]
<1>1. n \in Nat /\ \A i \in 1..n : row[i] \in SQLValue
    OBVIOUS
<1>2. ASSUME NEW i \in 1..n PROVE E(i) \in SQLValue
    <2>1. CASE Assigned(i)
        <3>1. (CHOOSE c \in DOMAIN assignments : ColumnIndex(table, c) = i) \in DOMAIN assignments
            BY <2>1
        <3> QED
            BY <2>1, <3>1
    <2>2. CASE ~Assigned(i)
        BY <1>1, <2>2
    <2> QED
        BY <2>1, <2>2
<1>3. assign(table, assignments, row) = [i \in 1..n |-> E(i)]
    BY DEF assign
<1> HIDE DEF E, n
<1> QED
    BY <1>1, <1>2, <1>3

-----------------------------------------------------------------------------
(***************************************************************************)
(* The rows of a source: ScanTable and FilterRows.                         *)
(***************************************************************************)
InOrder(f, n) == \A i, j \in 1..n : i < j => f[i] # f[j] /\ f[i].n <= f[j].n

LEMMA OrderInsert ==
    ASSUME NEW S \in SUBSET SQLValue, NEW x \in S, NEW n \in Nat \ {0},
           NEW g \in [1..(n - 1) -> S \ {x}], InOrder(g, n - 1)
    PROVE  \E f \in [1..n -> S] : InOrder(f, n)
<1>n. \A v \in SQLValue : v.n \in Nat
    <2>1. \A v \in [kind : ValueKind, n : Nat] : v.n \in Nat
        OBVIOUS
    <2> QED
        BY <2>1, SQLValueAssumption
<1> DEFINE Above == {j \in 1..n : j = n \/ x.n < g[j].n}
<1>1. PICK q \in Above : \A j \in Above : q <= j
    <2>1. n \in Above /\ Above \subseteq Nat
        OBVIOUS
    <2> HIDE DEF Above
    <2> QED
        BY <2>1, LeastNumber
<1>2. q \in 1..n /\ (q = n \/ x.n < g[q].n)
    BY <1>1
<1>g. \A j \in 1..(n - 1) : g[j] \in S /\ g[j] # x /\ g[j].n \in Nat /\ x.n \in Nat
    BY <1>n
<1>3. ASSUME NEW j \in 1..n, j < q PROVE j \in 1..(n - 1) /\ g[j].n <= x.n
    <2>1. j \notin Above
        <3> HIDE DEF Above
        <3> QED
            BY <1>1, <1>2, <1>3
    <2>2. j # n /\ ~(x.n < g[j].n) /\ j \in 1..(n - 1)
        BY <2>1
    <2> QED
        BY <1>g, <2>2
<1> HIDE DEF Above
<1> DEFINE f == [m \in 1..n |-> IF m < q THEN g[m] ELSE IF m = q THEN x ELSE g[m - 1]]
<1>4. f \in [1..n -> S]
    <2>1. ASSUME NEW m \in 1..n PROVE f[m] \in S
        <3>1. m < q => m \in 1..(n - 1)
            BY <1>2
        <3>2. ~(m < q) /\ m # q => m - 1 \in 1..(n - 1)
            BY <1>2
        <3> QED
            BY <1>g, <3>1, <3>2
    <2> QED
        BY <2>1
<1>5. ASSUME NEW i \in 1..n, NEW k \in 1..n, i < k PROVE f[i] # f[k] /\ f[i].n <= f[k].n
    <2>1. CASE k < q
        <3>1. f[i] = g[i] /\ f[k] = g[k] /\ i \in 1..(n - 1) /\ k \in 1..(n - 1)
            BY <1>2, <1>5, <2>1
        <3> QED
            BY <1>5, <3>1 DEF InOrder
    <2>2. CASE k = q
        <3>1. f[i] = g[i] /\ f[k] = x
            BY <1>2, <1>5, <2>2
        <3> QED
            BY <1>3, <1>5, <1>g, <2>2, <3>1
    <2>3. CASE q < k
        <3>1. f[k] = g[k - 1] /\ k - 1 \in 1..(n - 1) /\ q <= k - 1 /\ q \in 1..(n - 1)
            BY <1>2, <1>5, <2>3
        <3>2. CASE i < q
            <4>1. f[i] = g[i] /\ i < k - 1 /\ i \in 1..(n - 1)
                BY <1>2, <1>5, <2>3, <3>2
            <4> QED
                BY <3>1, <4>1 DEF InOrder
        <3>3. CASE i = q
            <4>1. f[i] = x /\ x.n < g[q].n
                BY <1>2, <1>5, <2>3, <3>3
            <4>2. q = k - 1 \/ g[q].n <= g[k - 1].n
                BY <3>1 DEF InOrder
            <4> QED
                BY <1>g, <3>1, <4>1, <4>2
        <3>4. CASE q < i
            <4>1. f[i] = g[i - 1] /\ i - 1 \in 1..(n - 1) /\ i - 1 < k - 1
                BY <1>2, <1>5, <3>4
            <4> QED
                BY <3>1, <4>1 DEF InOrder
        <3> QED
            BY <1>2, <3>2, <3>3, <3>4
    <2> QED
        BY <1>2, <2>1, <2>2, <2>3
<1>6. InOrder(f, n)
    BY <1>5 DEF InOrder
<1> QED
    BY <1>4, <1>6

LEMMA OrderExists ==
    ASSUME NEW S \in SUBSET SQLValue
    PROVE  \E f \in [1..Cardinality(S) -> S] : InOrder(f, Cardinality(S))
<1> DEFINE Good(n) == \A T \in SUBSET SQLValue :
                        Cardinality(T) = n => \E f \in [1..n -> T] : InOrder(f, n)
           Bad == {n \in Nat : ~Good(n)}
<1>f. \A T \in SUBSET SQLValue : IsFiniteSet(T)
    BY SQLValueAssumption, FS_Subset
<1>1. Bad = {}
    <2> SUFFICES ASSUME Bad # {} PROVE FALSE
        OBVIOUS
    <2>1. PICK n \in Bad : \A m \in Bad : n <= m
        <3>1. Bad \subseteq Nat
            OBVIOUS
        <3> HIDE DEF Bad
        <3> QED
            BY <3>1, LeastNumber
    <2>2. n \in Nat /\ ~Good(n)
        BY <2>1
    <2>3. PICK T \in SUBSET SQLValue : /\ Cardinality(T) = n
                                       /\ ~\E f \in [1..n -> T] : InOrder(f, n)
        BY <2>2
    <2>4. n # 0
        <3> SUFFICES ASSUME n = 0 PROVE FALSE
            OBVIOUS
        <3> DEFINE e == [i \in 1..n |-> {}]
        <3>1. 1..n = {}
            OBVIOUS
        <3>2. e \in [1..n -> T] /\ InOrder(e, n)
            BY <3>1 DEF InOrder
        <3> QED
            BY <2>3, <3>2
    <2>5. PICK x : x \in T
        BY <1>f, <2>3, <2>4, FS_EmptySet
    <2>6. Cardinality(T \ {x}) = n - 1 /\ T \ {x} \in SUBSET SQLValue
        BY <1>f, <2>3, <2>5, FS_RemoveElement
    <2>7. n - 1 \in Nat /\ n - 1 < n /\ n - 1 \notin Bad
        <3>1. n - 1 \in Nat /\ n - 1 < n
            BY <2>2, <2>4
        <3> HIDE DEF Bad
        <3> QED
            BY <2>1, <2>2, <3>1
    <2>8. Good(n - 1)
        BY <2>7
    <2>9. PICK g \in [1..(n - 1) -> T \ {x}] : InOrder(g, n - 1)
        BY <2>6, <2>8
    <2>10. \E f \in [1..n -> T] : InOrder(f, n)
        BY <2>2, <2>4, <2>5, <2>9, OrderInsert
    <2> QED
        BY <2>3, <2>10
<1>2. Cardinality(S) \in Nat
    BY <1>f, FS_CardinalityType
<1>3. Good(Cardinality(S))
    BY <1>1, <1>2
<1> QED
    BY <1>3

\* f lists the members of S, each of them once.
Lists(f, m, S) ==
    /\ m \in Nat /\ f \in [1..m -> S]
    /\ \A i, j \in 1..m : f[i] = f[j] => i = j
    /\ \A x \in S : \E i \in 1..m : f[i] = x

LEMMA InScanOrderIs ==
    ASSUME NEW S \in SUBSET SQLValue
    PROVE  Lists(InScanOrder(S), Len(InScanOrder(S)), S)
<1> DEFINE n == Cardinality(S)
           s == InScanOrder(S)
<1>f. IsFiniteSet(S)
    BY SQLValueAssumption, FS_Subset
<1>1. n \in Nat
    BY <1>f, FS_CardinalityType
<1>2. s \in [1..n -> S] /\ InOrder(s, n)
    <2>1. \E f \in [1..n -> S] : InOrder(f, n)
        BY OrderExists
    <2> QED
        BY <2>1 DEF InScanOrder, InOrder
<1> HIDE DEF s, n
<1>3. Len(s) = n
    BY <1>1, <1>2
<1>4. ASSUME NEW i \in 1..n, NEW j \in 1..n, s[i] = s[j] PROVE i = j
    BY <1>1, <1>2, <1>4 DEF InOrder
<1>5. s \in Injection(1..n, S)
    BY <1>2, <1>4 DEF Injection, IsInjective
<1>6. Cardinality(1..n) = n
    BY <1>1, FS_Interval
<1>7. s \in Surjection(1..n, S)
    BY <1>5, <1>6, <1>f, FS_Injection DEF n
<1>8. Lists(s, Len(s), S)
    BY <1>1, <1>2, <1>3, <1>4, <1>7 DEF Surjection, Lists
<1> QED
    BY <1>8 DEF s

\* What FilterExecutor keeps.
IsTrue(p, columns, row) == evaluateExpression(p, columns, row, columns, row) = Boolean(TRUE)

TrueRows(p, columns, rows, n) == {i \in 1..n : IsTrue(p, columns, rows[i])}

KeptStep(p, columns, rows, f, n) ==
    IF n = 0 THEN <<>>
    ELSE IF IsTrue(p, columns, rows[n]) THEN Append(f[n - 1], rows[n]) ELSE f[n - 1]

\* The recursive definition of FilterRows has a solution.
LEMMA KeptDef ==
    ASSUME NEW p, NEW columns, NEW rows, NEW m \in Nat
    PROVE  \E f : f = [n \in 0..m |-> KeptStep(p, columns, rows, f, n)]
<1> DEFINE Solves(f, i) == f = [n \in 0..i |-> KeptStep(p, columns, rows, f, n)]
           Without == {i \in Nat : ~ \E f : Solves(f, i)}
<1> SUFFICES ASSUME Without # {} PROVE FALSE
    OBVIOUS
<1>1. PICK i \in Without : \A j \in Without : i <= j
    <2>1. Without \subseteq Nat
        OBVIOUS
    <2> HIDE DEF Without
    <2> QED
        BY <2>1, LeastNumber
<1>2. i \in Nat /\ ~ \E f : Solves(f, i)
    BY <1>1
<1>3. i # 0
    <2> DEFINE z == [n \in 0..0 |-> <<>>]
    <2>1. Solves(z, 0)
        BY DEF KeptStep
    <2> HIDE DEF Solves, z
    <2> QED
        BY <1>2, <2>1
<1>4. i - 1 \in Nat /\ i - 1 \notin Without
    <2>1. i - 1 \in Nat /\ i - 1 < i
        BY <1>2, <1>3
    <2> HIDE DEF Without
    <2> QED
        BY <1>1, <1>2, <2>1
<1>5. PICK f : Solves(f, i - 1)
    <2> HIDE DEF Solves
    <2> QED
        BY <1>4
<1> DEFINE g == [n \in 0..i |-> KeptStep(p, columns, rows, f, n)]
<1>6. ASSUME NEW n \in 0..(i - 1) PROVE g[n] = f[n]
    <2>1. n \in 0..i
        BY <1>2
    <2>2. g[n] = KeptStep(p, columns, rows, f, n)
        BY <2>1
    <2>3. f[n] = KeptStep(p, columns, rows, f, n)
        <3> HIDE DEF g
        <3> QED
            BY <1>5
    <2> QED
        BY <2>2, <2>3
<1>7. ASSUME NEW n \in 0..i PROVE KeptStep(p, columns, rows, g, n) = KeptStep(p, columns, rows, f, n)
    <2>1. n # 0 => n - 1 \in 0..(i - 1)
        BY <1>2
    <2>2. n # 0 => g[n - 1] = f[n - 1]
        <3> HIDE DEF g
        <3> QED
            BY <1>6, <2>1
    <2> HIDE DEF g
    <2> QED
        BY <2>2 DEF KeptStep
<1>8. Solves(g, i)
    <2>1. [n \in 0..i |-> KeptStep(p, columns, rows, g, n)] = [n \in 0..i |-> KeptStep(p, columns, rows, f, n)]
        <3> HIDE DEF g
        <3> QED
            BY <1>7, Zenon
    <2> QED
        BY <2>1, Zenon
<1> HIDE DEF Solves, g
<1> QED
    BY <1>2, <1>8

\* s has the rows with the numbers in S, in some order.
Takes(s, rows, S) == \E m \in Nat : \E g : Lists(g, m, S) /\ s = [i \in 1..m |-> rows[g[i]]]

LEMMA TakesOneMore ==
    ASSUME NEW rows, NEW n \in Nat \ {0}, NEW S \in SUBSET (1..(n - 1)), NEW s, Takes(s, rows, S)
    PROVE  Takes(Append(s, rows[n]), rows, S \cup {n})
<1>m. PICK m \in Nat : \E g : Lists(g, m, S) /\ s = [i \in 1..m |-> rows[g[i]]]
    BY DEF Takes
<1>1. PICK g : Lists(g, m, S) /\ s = [i \in 1..m |-> rows[g[i]]]
    BY <1>m
<1>2. /\ g \in [1..m -> S] /\ (\A i, j \in 1..m : g[i] = g[j] => i = j)
      /\ \A x \in S : \E i \in 1..m : g[i] = x
    BY <1>1 DEF Lists
<1>3. n \notin S
    OBVIOUS
<1> DEFINE h == [i \in 1..(m + 1) |-> IF i = m + 1 THEN n ELSE g[i]]
<1>4. /\ h \in [1..(m + 1) -> S \cup {n}] /\ h[m + 1] = n /\ \A i \in 1..m : h[i] = g[i] /\ h[i] # n
    <2>1. \A i \in 1..(m + 1) : i # m + 1 => i \in 1..m
        BY <1>1
    <2> QED
        BY <1>2, <1>3, <2>1
<1> HIDE DEF h
<1>5. \A i \in 1..(m + 1) : i \in 1..m \/ i = m + 1
    BY <1>1
<1>6. ASSUME NEW i \in 1..(m + 1), NEW j \in 1..(m + 1), h[i] = h[j] PROVE i = j
    BY <1>2, <1>4, <1>5, <1>6
<1>7. ASSUME NEW x \in S \cup {n} PROVE \E i \in 1..(m + 1) : h[i] = x
    <2>1. CASE x = n
        BY <1>1, <1>4, <2>1
    <2>2. CASE x \in S
        <3>1. PICK i \in 1..m : g[i] = x
            BY <1>2, <2>2
        <3>2. i \in 1..(m + 1)
            BY <1>1
        <3> QED
            BY <1>4, <3>1, <3>2
    <2> QED
        BY <2>1, <2>2
<1>8. Lists(h, m + 1, S \cup {n})
    BY <1>1, <1>4, <1>6, <1>7 DEF Lists
<1>9. Append(s, rows[n]) = [i \in 1..(m + 1) |-> rows[h[i]]]
    <2>1. s \in Seq({rows[x] : x \in S}) /\ Len(s) = m
        <3>1. \A i \in 1..m : rows[g[i]] \in {rows[x] : x \in S}
            BY <1>2
        <3> QED
            BY <1>1, <3>1
    <2>2. Append(s, rows[n]) = [i \in 1..(m + 1) |-> IF i = m + 1 THEN rows[n] ELSE s[i]]
        BY <2>1
    <2>3. ASSUME NEW i \in 1..(m + 1) PROVE (IF i = m + 1 THEN rows[n] ELSE s[i]) = rows[h[i]]
        BY <1>1, <1>4, <1>5
    <2> QED
        BY <2>2, <2>3
<1>10. m + 1 \in Nat
    BY <1>1
<1> QED
    BY <1>8, <1>9, <1>10, Zenon DEF Takes

\* FilterRows keeps exactly the rows for which the predicate is true.
LEMMA FilterRowsIs ==
    ASSUME NEW p, NEW columns, NEW rows, Len(rows) \in Nat
    PROVE  Takes(FilterRows(p, columns, rows), rows, TrueRows(p, columns, rows, Len(rows)))
<1> DEFINE m == Len(rows)
           f == CHOOSE f : f = [n \in 0..Len(rows) |-> KeptStep(p, columns, rows, f, n)]
<1>1. m \in Nat
    OBVIOUS
<1>2. f = [n \in 0..m |-> KeptStep(p, columns, rows, f, n)]
    <2>1. \E h : h = [n \in 0..Len(rows) |-> KeptStep(p, columns, rows, h, n)]
        BY KeptDef
    <2> QED
        BY <2>1, Zenon
<1>3. FilterRows(p, columns, rows) = f[m]
    BY DEF FilterRows, KeptStep, IsTrue
<1> HIDE DEF f, m
<1> DEFINE Right(n) == Takes(f[n], rows, TrueRows(p, columns, rows, n))
           Bad == {n \in 0..m : ~Right(n)}
<1>4. Bad = {}
    <2> SUFFICES ASSUME Bad # {} PROVE FALSE
        OBVIOUS
    <2>1. PICK n \in Bad : \A j \in Bad : n <= j
        <3>1. Bad \subseteq Nat
            BY <1>1
        <3> HIDE DEF Bad
        <3> QED
            BY <3>1, LeastNumber
    <2>2. n \in 0..m /\ ~Right(n)
        BY <2>1
    <2>3. f[n] = KeptStep(p, columns, rows, f, n)
        BY <1>2, <2>2
    <2>4. n # 0
        <3> SUFFICES ASSUME n = 0 PROVE Right(n)
            BY <2>2
        <3> DEFINE g == [i \in 1..0 |-> 0]
        <3>1. f[n] = <<>> /\ TrueRows(p, columns, rows, n) = {} /\ 1..0 = {}
            BY <2>3 DEF KeptStep, TrueRows
        <3>2. Lists(g, 0, {}) /\ <<>> = [i \in 1..0 |-> rows[g[i]]]
            BY <3>1 DEF Lists
        <3>3. Takes(<<>>, rows, {})
            BY <3>2 DEF Takes
        <3> QED
            BY <3>1, <3>3
    <2>5. n \in Nat \ {0} /\ n - 1 \in 0..m /\ ~(n <= n - 1)
        BY <1>1, <2>2, <2>4
    <2>6. Right(n - 1)
        <3>1. n - 1 \notin Bad
            <4> HIDE DEF Bad
            <4> QED
                BY <2>1, <2>5
        <3> QED
            BY <2>5, <3>1
    <2>7. CASE IsTrue(p, columns, rows[n])
        <3>1. f[n] = Append(f[n - 1], rows[n])
            BY <2>3, <2>4, <2>7 DEF KeptStep
        <3>2. TrueRows(p, columns, rows, n) = TrueRows(p, columns, rows, n - 1) \cup {n}
            BY <2>5, <2>7 DEF TrueRows
        <3>3. TrueRows(p, columns, rows, n - 1) \in SUBSET (1..(n - 1))
            BY DEF TrueRows
        <3>4. Takes(Append(f[n - 1], rows[n]), rows, TrueRows(p, columns, rows, n - 1) \cup {n})
            BY <2>5, <2>6, <3>3, TakesOneMore
        <3> QED
            BY <2>2, <3>1, <3>2, <3>4
    <2>8. CASE ~IsTrue(p, columns, rows[n])
        <3>1. f[n] = f[n - 1]
            BY <2>3, <2>4, <2>8 DEF KeptStep
        <3>2. TrueRows(p, columns, rows, n) = TrueRows(p, columns, rows, n - 1)
            BY <2>5, <2>8 DEF TrueRows
        <3> QED
            BY <2>2, <2>6, <3>1, <3>2
    <2> QED
        BY <2>7, <2>8
<1>5. Right(m)
    BY <1>1, <1>4
<1> QED
    BY <1>3, <1>5 DEF m

-----------------------------------------------------------------------------
(***************************************************************************)
(* What an execution reads.                                                *)
(***************************************************************************)
LEMMA RunningIs ==
    ASSUME Inv, NEW t \in Txn, step[t] \notin {"idle", "ended"}
    PROVE  /\ statement[t] \in Statement /\ phase[t] = "running"
           /\ SnapshotInv(t) /\ WritesInv(t)
           /\ IsContents(snapshot[t], {Nil}) /\ IsContents(writes[t], {Nil, NoWrite})
           /\ rest[t] \in Seq(Seq(SQLValue))
           /\ result[t] \in [rows : Seq(Seq(SQLValue)), count : Nat]
           /\ LoopInv(t)
BY DEF Inv, DBInv, TypeDB, TxnInv, SessionInv, TypeSession

LEMMA NameIs ==
    ASSUME NEW s \in Statement
    PROVE  /\ s.op \in {"create", "insert", "update", "delete", "select"}
           /\ s.op # "create" => s.name \in TableName
<1>1. IsStatement(s)
    BY StatementAssumption
<1> QED
    BY <1>1 DEF IsStatement

\* Tables are read as they were when the statement began.
LEMMA TableOfIs ==
    ASSUME Inv, NEW t \in Txn, step[t] \notin {"idle", "ended"}, statement[t].op # "create"
    PROVE  /\ statement[t].name \in TableName
           /\ TableOf(t) = SeenTable(t) /\ SeenTable(t) \in Tables \cup {Nil}
<1>1. statement[t] \in Statement /\ WritesInv(t) /\ IsContents(snapshot[t], {Nil})
    BY RunningIs
<1>2. statement[t].name \in TableName
    BY <1>1, NameIs
<1>3. writes[t][tableKey(statement[t].name)] = NoWrite
    BY <1>1, <1>2 DEF WritesInv
<1>4. TableOf(t) = SeenTable(t)
    BY <1>3 DEF TableOf, GetTable, SeenTable, DB!Read
<1>5. SeenTable(t) \in Tables \cup {Nil}
    BY <1>1, <1>2, ContentsIs DEF SeenTable
<1> QED
    BY <1>2, <1>4, <1>5

LEMMA ReadIs ==
    ASSUME Inv, NEW t \in Txn, step[t] \notin {"idle", "ended"}, NEW name \in TableName, NEW v \in SQLValue
    PROVE  DB!Read(t, rowKey(name, v)) \in Seq(SQLValue) \cup {Nil}
<1>1. IsContents(snapshot[t], {Nil}) /\ IsContents(writes[t], {Nil, NoWrite})
    BY RunningIs
<1>2. /\ snapshot[t][rowKey(name, v)] \in Seq(SQLValue) \cup {Nil}
      /\ writes[t][rowKey(name, v)] \in Seq(SQLValue) \cup {Nil, NoWrite}
    BY <1>1 DEF IsContents
<1> QED
    BY <1>2 DEF DB!Read

\* The primary keys that a scan finds.
Found(t, name) == {v \in SQLValue : DB!Read(t, rowKey(name, v)) # Nil}

LEMMA ScanTableIs ==
    ASSUME NEW t, NEW name
    PROVE  \E m \in Nat : \E f : /\ Lists(f, m, Found(t, name))
                                 /\ ScanTable(t, name) = [i \in 1..m |-> DB!Read(t, rowKey(name, f[i]))]
<1> DEFINE f == InScanOrder(Found(t, name))
           m == Len(f)
<1>1. Found(t, name) \in SUBSET SQLValue
    BY DEF Found
<1>2. Lists(f, m, Found(t, name))
    BY <1>1, InScanOrderIs
<1>3. m \in Nat
    BY <1>2 DEF Lists
<1>4. ScanTable(t, name) = [i \in 1..m |-> DB!Read(t, rowKey(name, f[i]))]
    BY DEF ScanTable, Found
<1> HIDE DEF f, m
<1> QED
    BY <1>2, <1>3, <1>4

LEMMA ScanTableType ==
    ASSUME Inv, NEW t \in Txn, step[t] \notin {"idle", "ended"}, NEW name \in TableName
    PROVE  ScanTable(t, name) \in Seq(Seq(SQLValue))
<1>m. PICK m \in Nat : \E f :
        /\ Lists(f, m, Found(t, name))
        /\ ScanTable(t, name) = [i \in 1..m |-> DB!Read(t, rowKey(name, f[i]))]
    BY ScanTableIs
<1>1. PICK f : /\ Lists(f, m, Found(t, name))
               /\ ScanTable(t, name) = [i \in 1..m |-> DB!Read(t, rowKey(name, f[i]))]
    BY <1>m
<1> DEFINE R(i) == DB!Read(t, rowKey(name, f[i]))
<1>2. ASSUME NEW i \in 1..m PROVE R(i) \in Seq(SQLValue)
    <2>1. f[i] \in Found(t, name)
        BY <1>1 DEF Lists
    <2>2. f[i] \in SQLValue /\ R(i) # Nil
        BY <2>1 DEF Found
    <2> QED
        BY <2>2, ReadIs
<1> HIDE DEF R
<1>3. ScanTable(t, name) = [i \in 1..m |-> R(i)]
    BY <1>1 DEF R
<1> QED
    BY <1>1, <1>2, <1>3

LEMMA TakesType ==
    ASSUME NEW T, NEW rows \in Seq(T), NEW S \in SUBSET (1..Len(rows)), NEW s, Takes(s, rows, S)
    PROVE  s \in Seq(T)
<1>m. PICK m \in Nat : \E g : Lists(g, m, S) /\ s = [i \in 1..m |-> rows[g[i]]]
    BY DEF Takes
<1>1. PICK g : Lists(g, m, S) /\ s = [i \in 1..m |-> rows[g[i]]]
    BY <1>m
<1>2. ASSUME NEW i \in 1..m PROVE rows[g[i]] \in T
    <2>1. g[i] \in 1..Len(rows)
        BY <1>1 DEF Lists
    <2> QED
        BY <2>1
<1> QED
    BY <1>1, <1>2

LEMMA SourceRowsType ==
    ASSUME Inv, NEW t \in Txn, step[t] \notin {"idle", "ended"}, statement[t].op # "create"
    PROVE  SourceRows(t) \in Seq(Seq(SQLValue))
<1> DEFINE name == statement[t].name
           rows == ScanTable(t, name)
           p == statement[t].filter
           columns == columnNames(TableOf(t))
<1>1. rows \in Seq(Seq(SQLValue))
    BY TableOfIs, ScanTableType
<1>2. Len(rows) \in Nat
    BY <1>1
<1>3. Takes(FilterRows(p, columns, rows), rows, TrueRows(p, columns, rows, Len(rows)))
    BY <1>2, FilterRowsIs
<1>4. TrueRows(p, columns, rows, Len(rows)) \in SUBSET (1..Len(rows))
    BY DEF TrueRows
<1>5. FilterRows(p, columns, rows) \in Seq(Seq(SQLValue))
    BY <1>1, <1>3, <1>4, TakesType
<1> QED
    BY <1>1, <1>5 DEF SourceRows

-----------------------------------------------------------------------------
(***************************************************************************)
(* The rows an execution is about to write.                                *)
(***************************************************************************)
LEMMA InsertRowIs ==
    ASSUME Inv, NEW t \in Txn, step[t] = "rows", statement[t].op = "insert", RowsLeft(t),
           InsertRow(t) # NoRow
    PROVE  InsertRow(t) \in Seq(SQLValue)
<1> DEFINE s == statement[t]
           input == s.values[result[t].count + 1]
           values == [i \in 1..Len(input) |-> ValueFromExpression(input[i])]
<1>1. /\ s \in Statement /\ result[t].count \in Nat /\ TableOf(t) = SeenTable(t)
      /\ SeenTable(t) \in Tables
    BY RunningIs, TableOfIs DEF LoopInv
<1>2. /\ IsSequence(s.values)
      /\ \A row \in Range(s.values) : IsSequence(row) /\ \A e \in Range(row) : IsOperand(e)
    <2>1. IsStatement(s)
        BY <1>1, StatementAssumption
    <2> QED
        BY <2>1 DEF IsStatement
<1>3. input \in Range(s.values)
    <2>1. result[t].count < Len(s.values)
        BY DEF RowsLeft
    <2>2. Len(s.values) \in Nat /\ \A i \in 1..Len(s.values) : s.values[i] \in Range(s.values)
        BY <1>2, SequenceIs
    <2>3. result[t].count + 1 \in 1..Len(s.values)
        BY <1>1, <2>1, <2>2
    <2> QED
        BY <2>2, <2>3
<1>4. IsSequence(input) /\ \A e \in Range(input) : IsOperand(e)
    BY <1>2, <1>3
<1> HIDE DEF input
<1>5. Len(input) \in Nat /\ \A i \in 1..Len(input) : ValueFromExpression(input[i]) \in SQLValue \cup {EvaluationError}
    BY <1>4, SequenceIs DEF IsOperand
<1>6. EvaluationError \notin Range(values) /\ InsertRow(t) = makeInsertRow(TableOf(t), s.columns, values)
    BY DEF InsertRow, input
<1>7. \A i \in 1..Len(input) : values[i] # EvaluationError
    BY <1>6 DEF Range
<1>8. values \in Seq(SQLValue)
    <2>1. \A i \in 1..Len(input) : values[i] \in SQLValue
        BY <1>5, <1>7
    <2>2. values = [i \in 1..Len(input) |-> values[i]]
        OBVIOUS
    <2> HIDE DEF values
    <2> QED
        BY <1>5, <2>1, <2>2
<1> HIDE DEF values
<1>9. makeInsertRow(SeenTable(t), s.columns, values) \in Seq(SQLValue)
    BY <1>1, <1>6, <1>8, MadeRowIs
<1> QED
    BY <1>1, <1>6, <1>9

LEMMA UpdatedRowIs ==
    ASSUME Inv, NEW t \in Txn, step[t] \in {"rows", "moving"}, statement[t].op = "update", rest[t] # <<>>
    PROVE  UpdatedRow(t) = AssignedRow(t) /\ UpdatedRow(t) \in Seq(SQLValue)
<1> DEFINE s == statement[t]
           a == [c \in DOMAIN s.assignments |-> ValueFromExpression(s.assignments[c])]
<1>1. /\ s \in Statement /\ rest[t] \in Seq(Seq(SQLValue)) /\ TableOf(t) = SeenTable(t)
      /\ \A c \in DOMAIN s.assignments : ValueFromExpression(s.assignments[c]) # EvaluationError
    BY RunningIs, TableOfIs DEF LoopInv
<1>2. UpdatedRow(t) = assign(SeenTable(t), a, Head(rest[t])) /\ UpdatedRow(t) = AssignedRow(t)
    BY <1>1 DEF UpdatedRow, AssignedRow
<1>3. \A c \in DOMAIN s.assignments : IsOperand(s.assignments[c])
    <2>1. IsStatement(s)
        BY <1>1, StatementAssumption
    <2> QED
        BY <2>1 DEF IsStatement
<1>4. \A c \in DOMAIN a : a[c] \in SQLValue
    BY <1>1, <1>3 DEF IsOperand
<1>5. Head(rest[t]) \in Seq(SQLValue)
    BY <1>1
<1> HIDE DEF a
<1> QED
    BY <1>2, <1>4, <1>5, AssignIs

\* A row that fits may be written under the key of its primary key.
LEMMA RowWritable ==
    ASSUME Inv, NEW t \in Txn, step[t] \notin {"idle", "ended"}, statement[t].op # "create",
           SeenTable(t) # Nil, NEW row \in Seq(SQLValue), validateRow(SeenTable(t), row)
    PROVE  Writable(t, rowKey(statement[t].name, PrimaryKeyValue(SeenTable(t), row)), JSONRow(row))
<1> DEFINE pk == PrimaryKeyValue(SeenTable(t), row)
           k == rowKey(statement[t].name, pk)
<1>1. /\ JSONRow(row) \in Seq(SQLValue) /\ Fits(SeenTable(t), JSONRow(row))
      /\ Exact => JSONRow(row) = row
    BY ValidFits
<1>2. \A name \in TableName : k # tableKey(name)
    BY KeysDiffer
<1>3. \A name \in TableName, v \in SQLValue : k = rowKey(name, v) => name = statement[t].name /\ v = pk
    BY KeysDiffer
<1>4. RowOf(SeenTable(t), pk, JSONRow(row))
    BY <1>1 DEF RowOf
<1> HIDE DEF pk, k
<1>5. Writable(t, k, JSONRow(row))
    BY <1>1, <1>2, <1>3, <1>4 DEF Writable, SeenTable
<1> QED
    BY <1>5 DEF pk, k

\* A row may be deleted.
LEMMA NilWritable ==
    ASSUME NEW t, NEW name, NEW v
    PROVE  Writable(t, rowKey(name, v), Nil)
BY KeysDiffer DEF Writable

-----------------------------------------------------------------------------
(***************************************************************************)
(* The steps of the executions.                                            *)
(***************************************************************************)
LEMMA StepKeeps ==
    ASSUME Inv, NEW t \in Txn, step[t] \notin {"idle", "ended"},
           NEW next \in Step \ {"idle", "ended"}, step' = [step EXCEPT ![t] = next],
           NEW left \in Seq(Seq(SQLValue)), rest' = [rest EXCEPT ![t] = left],
           NEW r \in [rows : Seq(Seq(SQLValue)), count : Nat], result' = [result EXCEPT ![t] = r],
           UNCHANGED <<phase, snapshot, statement>>, LoopInv(t)'
    PROVE  SessionInv'
<1>t. TypeSession /\ \A u \in Txn : LoopInv(u)
    BY DEF Inv, SessionInv
<1>1. /\ step \in [Txn -> Step] /\ rest \in [Txn -> Seq(Seq(SQLValue))]
      /\ result \in [Txn -> [rows : Seq(Seq(SQLValue)), count : Nat]]
    BY <1>t DEF TypeSession
<1>2. /\ step' \in [Txn -> Step] /\ rest' \in [Txn -> Seq(Seq(SQLValue))]
      /\ result' \in [Txn -> [rows : Seq(Seq(SQLValue)), count : Nat]]
      /\ step'[t] = next
      /\ \A u \in Txn : u # t => step'[u] = step[u] /\ rest'[u] = rest[u]
    BY <1>1
<1>3. TypeSession'
    BY <1>t, <1>2 DEF TypeSession
<1>4. ASSUME NEW u \in Txn, u # t PROVE LoopInv(u)'
    <2>1. LoopInv(u) /\ step'[u] = step[u] /\ rest'[u] = rest[u]
        BY <1>t, <1>2, <1>4
    <2> QED
        BY <2>1 DEF LoopInv, SeenTable, AssignedRow
<1> QED
    BY <1>3, <1>4 DEF SessionInv

LEMMA EndKeeps ==
    ASSUME Inv, NEW ending \in SUBSET Txn, \A t \in ending : step[t] \notin {"idle", "ended"},
           step' = [t \in Txn |-> IF t \in ending THEN "ended" ELSE step[t]],
           \A t \in ending : phase'[t] # "running",
           \A t \in Txn \ ending : phase'[t] = phase[t] /\ snapshot'[t] = snapshot[t],
           UNCHANGED <<statement, rest, result>>
    PROVE  SessionInv'
<1>t. TypeSession /\ \A u \in Txn : LoopInv(u)
    BY DEF Inv, SessionInv
<1>1. step \in [Txn -> Step]
    BY <1>t DEF TypeSession
<1>2. step' \in [Txn -> Step]
    BY <1>1 DEF Step
<1>3. TypeSession'
    BY <1>t, <1>2 DEF TypeSession
<1>4. ASSUME NEW u \in Txn PROVE LoopInv(u)'
    <2>1. CASE u \in ending
        BY <2>1 DEF LoopInv
    <2>2. CASE u \notin ending
        <3>1. LoopInv(u) /\ step'[u] = step[u] /\ snapshot'[u] = snapshot[u]
            BY <1>t, <2>2
        <3> QED
            BY <3>1 DEF LoopInv, SeenTable, AssignedRow
    <2> QED
        BY <2>1, <2>2
<1> QED
    BY <1>3, <1>4 DEF SessionInv

LEMMA InvInit == Init => Inv
<1> SUFFICES ASSUME Init PROVE Inv
    OBVIOUS
<1>1. DBInv
    BY DBInit
<1>2. phase = [t \in Txn |-> "idle"]
    BY DEF Init, DB!Init
<1>3. TypeSession
    <2>1. <<>> \in Seq(Seq(SQLValue)) /\ [rows |-> <<>>, count |-> 0] \in [rows : Seq(Seq(SQLValue)), count : Nat]
        OBVIOUS
    <2> QED
        BY <1>2, <2>1 DEF TypeSession, Init, Step
<1>4. \A t \in Txn : LoopInv(t)
    BY DEF LoopInv, Init
<1> QED
    BY <1>1, <1>3, <1>4 DEF Inv, SessionInv

LEMMA BeginKeeps ==
    ASSUME Inv, NEW t \in Txn, NEW s \in Statement, Begin(t, s)
    PROVE  Inv'
<1>1. /\ step[t] = "idle" /\ DB!Begin(t) /\ statement' = [statement EXCEPT ![t] = s]
      /\ step' = [step EXCEPT ![t] = "start"] /\ UNCHANGED <<rest, result>>
    BY DEF Begin, Goto
<1>2. phase' = [phase EXCEPT ![t] = "running"] /\ snapshot' = [snapshot EXCEPT ![t] = store]
    BY <1>1 DEF DB!Begin
<1>t. /\ TypeSession /\ (\A u \in Txn : LoopInv(u)) /\ TypeDB
    BY DEF Inv, SessionInv, DBInv
<1>3. DBInv'
    BY <1>1, <1>t, DBBegin DEF Inv, TypeSession
<1>4. /\ step'[t] = "start" /\ phase'[t] = "running" /\ statement'[t] = s
      /\ \A u \in Txn : u # t => /\ step'[u] = step[u] /\ phase'[u] = phase[u]
                                /\ statement'[u] = statement[u] /\ snapshot'[u] = snapshot[u]
    BY <1>1, <1>2, <1>t DEF TypeSession, TypeDB
<1>5. TypeSession'
    <2>1. statement' \in [Txn -> Statement \cup {NoStatement}] /\ step' \in [Txn -> Step]
        BY <1>1, <1>t DEF TypeSession, Step
    <2>2. s # NoStatement
        BY AbsentAssumption
    <2> QED
        BY <1>1, <1>4, <1>t, <2>1, <2>2, ZenonT(30) DEF TypeSession
<1>6. ASSUME NEW u \in Txn PROVE LoopInv(u)'
    <2>1. CASE u = t
        BY <1>4, <2>1 DEF LoopInv
    <2>2. CASE u # t
        <3>1. /\ LoopInv(u) /\ step'[u] = step[u] /\ statement'[u] = statement[u]
              /\ snapshot'[u] = snapshot[u]
            BY <1>4, <1>t, <2>2
        <3> QED
            BY <1>1, <3>1 DEF LoopInv, SeenTable, AssignedRow
    <2> QED
        BY <2>1, <2>2
<1> QED
    BY <1>3, <1>5, <1>6 DEF Inv, SessionInv

LEMMA CreateTableKeeps ==
    ASSUME Inv, NEW t \in Txn, CreateTable(t)
    PROVE  Inv'
<1> DEFINE s == statement[t]
           x == tableFromCreateStatement(s.definition)
<1>1. /\ step[t] = "start" /\ s.op = "create" /\ CanCreateTable(t)
      /\ DB!Write(t, tableKey(x.name), JSONTable(x)) /\ step' = [step EXCEPT ![t] = "done"]
      /\ UNCHANGED <<statement, rest, result>>
    BY DEF CreateTable, Goto
<1>2. /\ s \in Statement /\ WritesInv(t) /\ rest[t] \in Seq(Seq(SQLValue))
      /\ result[t] \in [rows : Seq(Seq(SQLValue)), count : Nat]
    BY <1>1, RunningIs
<1>3. Validate(x) /\ DB!Read(t, tableKey(x.name)) = Nil
    BY <1>1 DEF CanCreateTable, GetTable
<1>4. JSONTable(x) \in Tables /\ x.name \in TableName
    BY <1>1, <1>2, <1>3, CreateIs
<1> HIDE DEF x
<1>5. snapshot[t][tableKey(x.name)] = Nil
    <2>1. writes[t][tableKey(x.name)] # NoWrite => snapshot[t][tableKey(x.name)] = Nil
        BY <1>2, <1>4 DEF WritesInv
    <2> QED
        BY <1>3, <2>1 DEF DB!Read
<1>6. Writable(t, tableKey(x.name), JSONTable(x))
    BY <1>1, <1>4, <1>5, KeysDiffer DEF Writable
<1>7. DBInv'
    BY <1>1, <1>6, DBWrite DEF Inv
<1>8. LoopInv(t)'
    <2>1. step'[t] = "done"
        BY <1>1 DEF Inv, SessionInv, TypeSession
    <2> QED
        BY <2>1 DEF LoopInv
<1>9. SessionInv'
    <2>1. rest' = [rest EXCEPT ![t] = rest[t]] /\ result' = [result EXCEPT ![t] = result[t]]
        BY <1>1 DEF Inv, SessionInv, TypeSession
    <2>2. "done" \in Step \ {"idle", "ended"} /\ UNCHANGED <<phase, snapshot, statement>>
        BY <1>1 DEF Step, DB!Write
    <2> QED
        BY <1>1, <1>2, <1>8, <2>1, <2>2, StepKeeps
<1> QED
    BY <1>7, <1>9 DEF Inv

LEMMA StartRowsKeeps ==
    ASSUME Inv, NEW t \in Txn, StartRows(t)
    PROVE  Inv'
<1> DEFINE left == IF statement[t].op = "insert" THEN <<>> ELSE SourceRows(t)
<1>1. /\ step[t] = "start" /\ statement[t].op \in {"insert", "update", "delete"} /\ CanStart(t)
      /\ rest' = [rest EXCEPT ![t] = left] /\ step' = [step EXCEPT ![t] = "rows"]
      /\ UNCHANGED <<store, phase, snapshot, writes, stale, statement, result>>
    BY DEF StartRows, Goto
<1>2. left \in Seq(Seq(SQLValue))
    BY <1>1, SourceRowsType
<1> HIDE DEF left
<1>3. DBInv'
    BY <1>1, DBSame DEF Inv
<1>4. LoopInv(t)'
    <2>1. step'[t] = "rows" /\ TableOf(t) = SeenTable(t)
        BY <1>1, TableOfIs DEF Inv, SessionInv, TypeSession
    <2>2. /\ SeenTable(t) # Nil
          /\ statement[t].op = "update" => \A c \in DOMAIN statement[t].assignments :
                ValueFromExpression(statement[t].assignments[c]) # EvaluationError
        BY <1>1, <2>1 DEF CanStart
    <2> QED
        BY <1>1, <2>1, <2>2 DEF LoopInv, SeenTable
<1>5. SessionInv'
    <2>1. result' = [result EXCEPT ![t] = result[t]] /\ result[t] \in [rows : Seq(Seq(SQLValue)), count : Nat]
        BY <1>1 DEF Inv, SessionInv, TypeSession
    <2>2. "rows" \in Step \ {"idle", "ended"}
        BY DEF Step
    <2> QED
        BY <1>1, <1>2, <1>4, <2>1, <2>2, StepKeeps
<1> QED
    BY <1>3, <1>5 DEF Inv

LEMMA SelectKeeps ==
    ASSUME Inv, NEW t \in Txn, Select(t)
    PROVE  Inv'
<1> DEFINE r == [rows |-> SourceRows(t), count |-> result[t].count]
<1>t. /\ result \in [Txn -> [rows : Seq(Seq(SQLValue)), count : Nat]]
      /\ rest \in [Txn -> Seq(Seq(SQLValue))] /\ step \in [Txn -> Step]
    BY DEF Inv, SessionInv, TypeSession
<1>1. /\ step[t] = "start" /\ statement[t].op = "select"
      /\ result' = [result EXCEPT ![t] = r] /\ step' = [step EXCEPT ![t] = "done"]
      /\ UNCHANGED <<store, phase, snapshot, writes, stale, statement, rest>>
    BY <1>t DEF Select, Goto
<1>2. r \in [rows : Seq(Seq(SQLValue)), count : Nat]
    <2>1. SourceRows(t) \in Seq(Seq(SQLValue))
        BY <1>1, SourceRowsType
    <2> QED
        BY <1>t, <2>1
<1> HIDE DEF r
<1>3. DBInv'
    BY <1>1, DBSame DEF Inv
<1>4. LoopInv(t)'
    <2>1. step'[t] = "done"
        BY <1>1, <1>t
    <2> QED
        BY <2>1 DEF LoopInv
<1>5. SessionInv'
    <2>1. rest' = [rest EXCEPT ![t] = rest[t]] /\ rest[t] \in Seq(Seq(SQLValue))
        BY <1>1, <1>t
    <2>2. "done" \in Step \ {"idle", "ended"}
        BY DEF Step
    <2> QED
        BY <1>1, <1>2, <1>4, <2>1, <2>2, StepKeeps
<1> QED
    BY <1>3, <1>5 DEF Inv

LEMMA RowDoneIs ==
    ASSUME Inv, NEW t \in Txn, RowDone(t)
    PROVE  \E r \in [rows : Seq(Seq(SQLValue)), count : Nat] :
                r.count = result[t].count + 1 /\ result' = [result EXCEPT ![t] = r]
<1> DEFINE r == [rows |-> result[t].rows, count |-> result[t].count + 1]
<1>1. result \in [Txn -> [rows : Seq(Seq(SQLValue)), count : Nat]]
    BY DEF Inv, SessionInv, TypeSession
<1>2. r \in [rows : Seq(Seq(SQLValue)), count : Nat] /\ r.count = result[t].count + 1
    BY <1>1
<1>3. result' = [result EXCEPT ![t] = r]
    BY <1>1 DEF RowDone
<1> QED
    BY <1>2, <1>3

\* A row of the loop is done.
LEMMA LoopKeeps ==
    ASSUME Inv, NEW t \in Txn, step[t] \in {"rows", "moving"}, step' = [step EXCEPT ![t] = "rows"],
           NEW left \in Seq(Seq(SQLValue)), rest' = [rest EXCEPT ![t] = left],
           RowDone(t), UNCHANGED <<phase, snapshot, statement>>
    PROVE  SessionInv'
<1>1. PICK r \in [rows : Seq(Seq(SQLValue)), count : Nat] : result' = [result EXCEPT ![t] = r]
    BY RowDoneIs
<1>2. LoopInv(t)'
    <2>1. step'[t] = "rows" /\ LoopInv(t)
        BY DEF Inv, SessionInv, TypeSession
    <2> QED
        BY <2>1 DEF LoopInv, SeenTable
<1>3. "rows" \in Step \ {"idle", "ended"}
    BY DEF Step
<1> QED
    BY <1>1, <1>2, <1>3, StepKeeps

LEMMA CreateRowKeeps ==
    ASSUME Inv, NEW t \in Txn, CreateRow(t)
    PROVE  Inv'
<1>t. rest \in [Txn -> Seq(Seq(SQLValue))] /\ step \in [Txn -> Step]
    BY DEF Inv, SessionInv, TypeSession
<1>1. /\ step[t] = "rows" /\ statement[t].op = "insert" /\ RowsLeft(t) /\ CanCreateRow(t)
      /\ DB!Write(t, InsertKey(t), JSONRow(InsertRow(t))) /\ RowDone(t)
      /\ step' = [step EXCEPT ![t] = "rows"] /\ rest' = [rest EXCEPT ![t] = rest[t]]
      /\ UNCHANGED statement
    BY <1>t DEF CreateRow
<1>2. SeenTable(t) # Nil /\ TableOf(t) = SeenTable(t)
    BY <1>1, RunningIs, TableOfIs DEF LoopInv
<1>3. InsertRow(t) \in Seq(SQLValue) /\ validateRow(SeenTable(t), InsertRow(t))
    BY <1>1, <1>2, InsertRowIs DEF CanCreateRow
<1>4. InsertKey(t) = rowKey(statement[t].name, PrimaryKeyValue(SeenTable(t), InsertRow(t)))
    BY <1>2 DEF InsertKey
<1>5. Writable(t, InsertKey(t), JSONRow(InsertRow(t)))
    BY <1>1, <1>2, <1>3, <1>4, RowWritable
<1>6. DBInv'
    BY <1>1, <1>5, DBWrite DEF Inv
<1>7. SessionInv'
    <2>1. UNCHANGED <<phase, snapshot, statement>> /\ rest[t] \in Seq(Seq(SQLValue))
        BY <1>1, <1>t DEF DB!Write
    <2> QED
        BY <1>1, <2>1, LoopKeeps
<1> QED
    BY <1>6, <1>7 DEF Inv

\* The writes of UPDATE.
LEMMA NewRowWritable ==
    ASSUME Inv, NEW t \in Txn, step[t] \in {"rows", "moving"}, statement[t].op = "update",
           rest[t] # <<>>, validateRow(TableOf(t), UpdatedRow(t))
    PROVE  Writable(t, NewKey(t), JSONRow(UpdatedRow(t)))
<1>1. SeenTable(t) # Nil /\ TableOf(t) = SeenTable(t)
    BY RunningIs, TableOfIs DEF LoopInv
<1>2. UpdatedRow(t) \in Seq(SQLValue) /\ validateRow(SeenTable(t), UpdatedRow(t))
    BY <1>1, UpdatedRowIs
<1>3. NewKey(t) = rowKey(statement[t].name, PrimaryKeyValue(SeenTable(t), UpdatedRow(t)))
    BY <1>1 DEF NewKey
<1> QED
    BY <1>1, <1>2, <1>3, RowWritable

LEMMA UpdatingIs ==
    ASSUME NEW t, UpdatingRow(t)
    PROVE  step[t] = "rows" /\ statement[t].op = "update" /\ rest[t] # <<>>
BY DEF UpdatingRow, RowsLeft

LEMMA UpdateRowKeeps ==
    ASSUME Inv, NEW t \in Txn, UpdateRow(t)
    PROVE  Inv'
<1>t. rest \in [Txn -> Seq(Seq(SQLValue))] /\ step \in [Txn -> Step]
    BY DEF Inv, SessionInv, TypeSession
<1>1. /\ step[t] = "rows" /\ statement[t].op = "update" /\ rest[t] # <<>> /\ CanUpdateRow(t)
      /\ DB!Write(t, NewKey(t), JSONRow(UpdatedRow(t))) /\ RowDone(t)
      /\ step' = [step EXCEPT ![t] = "rows"] /\ rest' = [rest EXCEPT ![t] = Tail(rest[t])]
      /\ UNCHANGED statement
    BY <1>t, UpdatingIs DEF UpdateRow, SourceRowDone
<1>2. Writable(t, NewKey(t), JSONRow(UpdatedRow(t)))
    BY <1>1, NewRowWritable DEF CanUpdateRow
<1>3. DBInv'
    BY <1>1, <1>2, DBWrite DEF Inv
<1>4. SessionInv'
    <2>1. UNCHANGED <<phase, snapshot, statement>> /\ Tail(rest[t]) \in Seq(Seq(SQLValue))
        BY <1>1, <1>t DEF DB!Write
    <2> QED
        BY <1>1, <2>1, LoopKeeps
<1> QED
    BY <1>3, <1>4 DEF Inv

LEMMA DeleteOldKeyKeeps ==
    ASSUME Inv, NEW t \in Txn, DeleteOldKey(t)
    PROVE  Inv'
<1>t. /\ rest \in [Txn -> Seq(Seq(SQLValue))] /\ step \in [Txn -> Step]
      /\ result \in [Txn -> [rows : Seq(Seq(SQLValue)), count : Nat]]
    BY DEF Inv, SessionInv, TypeSession
<1>1. /\ step[t] = "rows" /\ statement[t].op = "update" /\ rest[t] # <<>> /\ CanUpdateRow(t)
      /\ DB!Write(t, OldKey(t), Nil) /\ step' = [step EXCEPT ![t] = "moving"]
      /\ UNCHANGED <<statement, rest, result>>
    BY UpdatingIs DEF DeleteOldKey, Goto
<1>2. Writable(t, OldKey(t), Nil)
    BY NilWritable DEF OldKey
<1>3. DBInv'
    BY <1>1, <1>2, DBWrite DEF Inv
<1>4. UNCHANGED <<phase, snapshot, statement>>
    BY <1>1 DEF DB!Write
<1>5. LoopInv(t)'
    <2>1. step'[t] = "moving" /\ LoopInv(t)
        BY <1>1, <1>t DEF Inv, SessionInv
    <2>2. validateRow(SeenTable(t), AssignedRow(t))
        BY <1>1, TableOfIs, UpdatedRowIs DEF CanUpdateRow
    <2> QED
        BY <1>1, <1>4, <2>1, <2>2 DEF LoopInv, SeenTable, AssignedRow
<1>6. SessionInv'
    <2>1. "moving" \in Step \ {"idle", "ended"}
        BY DEF Step
    <2>2. /\ rest' = [rest EXCEPT ![t] = rest[t]] /\ rest[t] \in Seq(Seq(SQLValue))
          /\ result' = [result EXCEPT ![t] = result[t]]
          /\ result[t] \in [rows : Seq(Seq(SQLValue)), count : Nat]
        BY <1>1, <1>t
    <2> QED
        BY <1>1, <1>4, <1>5, <2>1, <2>2, StepKeeps
<1> QED
    BY <1>3, <1>6 DEF Inv

LEMMA SetNewKeyKeeps ==
    ASSUME Inv, NEW t \in Txn, SetNewKey(t)
    PROVE  Inv'
<1>t. rest \in [Txn -> Seq(Seq(SQLValue))]
    BY DEF Inv, SessionInv, TypeSession
<1>1. /\ step[t] = "moving" /\ DB!Write(t, NewKey(t), JSONRow(UpdatedRow(t))) /\ RowDone(t)
      /\ step' = [step EXCEPT ![t] = "rows"] /\ rest' = [rest EXCEPT ![t] = Tail(rest[t])]
      /\ UNCHANGED statement
    BY <1>t DEF SetNewKey, SourceRowDone, Goto
<1>2. /\ statement[t].op = "update" /\ rest[t] # <<>> /\ validateRow(SeenTable(t), AssignedRow(t))
    BY <1>1, RunningIs DEF LoopInv
<1>3. Writable(t, NewKey(t), JSONRow(UpdatedRow(t)))
    BY <1>1, <1>2, TableOfIs, UpdatedRowIs, NewRowWritable
<1>4. DBInv'
    BY <1>1, <1>3, DBWrite DEF Inv
<1>5. SessionInv'
    <2>1. UNCHANGED <<phase, snapshot, statement>> /\ Tail(rest[t]) \in Seq(Seq(SQLValue))
        BY <1>1, <1>2, <1>t DEF DB!Write
    <2> QED
        BY <1>1, <2>1, LoopKeeps
<1> QED
    BY <1>4, <1>5 DEF Inv

LEMMA DeleteRowKeeps ==
    ASSUME Inv, NEW t \in Txn, DeleteRow(t)
    PROVE  Inv'
<1>t. rest \in [Txn -> Seq(Seq(SQLValue))] /\ step \in [Txn -> Step]
    BY DEF Inv, SessionInv, TypeSession
<1>1. /\ step[t] = "rows" /\ rest[t] # <<>> /\ DB!Write(t, OldKey(t), Nil) /\ RowDone(t)
      /\ step' = [step EXCEPT ![t] = "rows"] /\ rest' = [rest EXCEPT ![t] = Tail(rest[t])]
      /\ UNCHANGED statement
    BY <1>t DEF DeleteRow, SourceRowDone, RowsLeft
<1>2. Writable(t, OldKey(t), Nil)
    BY NilWritable DEF OldKey
<1>3. DBInv'
    BY <1>1, <1>2, DBWrite DEF Inv
<1>4. SessionInv'
    <2>1. UNCHANGED <<phase, snapshot, statement>> /\ Tail(rest[t]) \in Seq(Seq(SQLValue))
        BY <1>1, <1>t DEF DB!Write
    <2> QED
        BY <1>1, <2>1, LoopKeeps
<1> QED
    BY <1>3, <1>4 DEF Inv

\* RowsDone, Fails and StorageFails.
LEMMA GotoKeeps ==
    ASSUME Inv, NEW t \in Txn, step[t] \notin {"idle", "ended"}, NEW next \in {"done", "error"}, Goto(t, next),
           UNCHANGED <<store, phase, snapshot, writes, stale, statement, rest, result>>
    PROVE  Inv'
<1>t. /\ rest \in [Txn -> Seq(Seq(SQLValue))] /\ step \in [Txn -> Step]
      /\ result \in [Txn -> [rows : Seq(Seq(SQLValue)), count : Nat]]
    BY DEF Inv, SessionInv, TypeSession
<1>1. step' = [step EXCEPT ![t] = next]
    BY DEF Goto
<1>2. DBInv'
    BY DBSame DEF Inv
<1>3. LoopInv(t)'
    <2>1. step'[t] \in {"done", "error"}
        BY <1>1, <1>t
    <2> QED
        BY <2>1 DEF LoopInv
<1>4. SessionInv'
    <2>1. next \in Step \ {"idle", "ended"}
        BY DEF Step
    <2>2. /\ rest' = [rest EXCEPT ![t] = rest[t]] /\ rest[t] \in Seq(Seq(SQLValue))
          /\ result' = [result EXCEPT ![t] = result[t]]
          /\ result[t] \in [rows : Seq(Seq(SQLValue)), count : Nat]
        BY <1>t
    <2> QED
        BY <1>1, <1>3, <2>1, <2>2, StepKeeps
<1> QED
    BY <1>2, <1>4 DEF Inv

LEMMA CommitKeeps ==
    ASSUME Inv, NEW t \in Txn, Commit(t)
    PROVE  Inv'
<1>t. step \in [Txn -> Step] /\ phase = [u \in Txn |-> phase[u]] /\ snapshot = [u \in Txn |-> snapshot[u]]
    BY DEF Inv, SessionInv, TypeSession, DBInv, TypeDB
<1>1. /\ step[t] = "done" /\ DB!Commit(t) /\ step' = [step EXCEPT ![t] = "ended"]
      /\ UNCHANGED <<statement, rest, result>>
    BY DEF Commit, Goto
<1>2. DBInv'
    BY <1>1, DBCommit DEF Inv
<1>3. phase' = [phase EXCEPT ![t] = "committed"] /\ snapshot' = [snapshot EXCEPT ![t] = DB!NoSnapshot]
    BY <1>1 DEF DB!Commit
<1>4. /\ step' = [u \in Txn |-> IF u \in {t} THEN "ended" ELSE step[u]]
      /\ \A u \in {t} : phase'[u] # "running"
      /\ \A u \in Txn \ {t} : phase'[u] = phase[u] /\ snapshot'[u] = snapshot[u]
    BY <1>1, <1>3, <1>t
<1>5. SessionInv'
    <2>1. {t} \in SUBSET Txn /\ \A u \in {t} : step[u] \notin {"idle", "ended"}
        BY <1>1
    <2> QED
        BY <1>1, <1>4, <2>1, EndKeeps
<1> QED
    BY <1>2, <1>5 DEF Inv

LEMMA GiveUpKeeps ==
    ASSUME Inv, NEW t \in Txn, step[t] \notin {"idle", "ended"}, GiveUp(t)
    PROVE  Inv'
<1>t. step \in [Txn -> Step]
    BY DEF Inv, SessionInv, TypeSession
<1>1. /\ DB!Abort({t}) /\ step' = [step EXCEPT ![t] = "ended"] /\ UNCHANGED <<statement, rest, result>>
    BY DEF GiveUp, Goto
<1>2. DBInv'
    BY <1>1, DBAbort DEF Inv
<1>3. /\ step' = [u \in Txn |-> IF u \in {t} THEN "ended" ELSE step[u]]
      /\ \A u \in {t} : phase'[u] # "running"
      /\ \A u \in Txn \ {t} : phase'[u] = phase[u] /\ snapshot'[u] = snapshot[u]
    BY <1>1, <1>t DEF DB!Abort
<1>4. SessionInv'
    BY <1>1, <1>3, EndKeeps
<1> QED
    BY <1>2, <1>4 DEF Inv

LEMMA CrashKeeps ==
    ASSUME Inv, Crash
    PROVE  Inv'
<1>1. /\ DB!Abort(Running) /\ step' = [t \in Txn |-> IF t \in Running THEN "ended" ELSE step[t]]
      /\ UNCHANGED <<statement, rest, result>> /\ Running \in SUBSET Txn
    BY DEF Crash, Running
<1>2. DBInv'
    BY <1>1, DBAbort DEF Inv
<1>3. /\ \A u \in Running : phase'[u] # "running" /\ step[u] \notin {"idle", "ended"}
      /\ \A u \in Txn \ Running : phase'[u] = phase[u] /\ snapshot'[u] = snapshot[u]
    BY <1>1 DEF DB!Abort, Running, DB!Running, Inv, SessionInv, TypeSession
<1>4. SessionInv'
    BY <1>1, <1>3, EndKeeps
<1> QED
    BY <1>2, <1>4 DEF Inv

LEMMA InvNext == Inv /\ [Next]_vars => Inv'
<1> SUFFICES ASSUME Inv, [Next]_vars PROVE Inv'
    OBVIOUS
<1>1. CASE UNCHANGED vars
    <2>1. DBInv'
        BY <1>1, DBSame DEF Inv, vars
    <2>2. SessionInv'
        BY <1>1 DEF Inv, vars, SessionInv, TypeSession, LoopInv, SeenTable, AssignedRow
    <2> QED
        BY <2>1, <2>2 DEF Inv
<1>2. ASSUME NEW t \in Txn, NEW s \in Statement, Begin(t, s) PROVE Inv'
    BY <1>2, BeginKeeps
<1>3. ASSUME NEW t \in Txn, Proceed(t) PROVE Inv'
    <2>1. CASE CreateTable(t)
        BY <2>1, CreateTableKeeps
    <2>2. CASE StartRows(t)
        BY <2>2, StartRowsKeeps
    <2>3. CASE Select(t)
        BY <2>3, SelectKeeps
    <2>4. CASE CreateRow(t)
        BY <2>4, CreateRowKeeps
    <2>5. CASE UpdateRow(t)
        BY <2>5, UpdateRowKeeps
    <2>6. CASE DeleteOldKey(t)
        BY <2>6, DeleteOldKeyKeeps
    <2>7. CASE SetNewKey(t)
        BY <2>7, SetNewKeyKeeps
    <2>8. CASE DeleteRow(t)
        BY <2>8, DeleteRowKeeps
    <2>9. CASE RowsDone(t)
        BY <2>9, GotoKeeps DEF RowsDone
    <2>10. CASE Fails(t)
        <3>1. step[t] \notin {"idle", "ended"}
            BY <2>10 DEF Fails, Refused
        <3> QED
            BY <2>10, <3>1, GotoKeeps DEF Fails
    <2>11. CASE Commit(t)
        BY <2>11, CommitKeeps
    <2>12. CASE Rollback(t)
        BY <2>12, GiveUpKeeps DEF Rollback
    <2> QED
        BY <1>3, <2>1, <2>2, <2>3, <2>4, <2>5, <2>6, <2>7, <2>8, <2>9, <2>10, <2>11, <2>12 DEF Proceed
<1>4. ASSUME NEW t \in Txn, StorageFails(t) PROVE Inv'
    BY <1>4, GotoKeeps DEF StorageFails
<1>5. ASSUME NEW t \in Txn, CommitFails(t) PROVE Inv'
    BY <1>5, GiveUpKeeps DEF CommitFails
<1>6. CASE Crash
    BY <1>6, CrashKeeps
<1> QED
    BY <1>1, <1>2, <1>3, <1>4, <1>5, <1>6 DEF Next

-----------------------------------------------------------------------------
(***************************************************************************)
(* The theorems.                                                           *)
(***************************************************************************)
\* The invariant holds of every execution of Session.
THEOREM Invariance == Spec => []Inv
BY InvInit, InvNext, PTL DEF Spec

\* Every variable keeps its type: the store holds tables that CREATE TABLE
\* made valid under the keys of tables and rows of values under the keys of
\* rows, and a transaction is open exactly while Session.Execute runs.
THEOREM TypeCorrect == Spec => []TypeOK
<1>1. Inv => TypeOK
    BY DEF Inv, DBInv, TypeDB, SessionInv, TypeSession, TypeOK, DB!Running
<1> QED
    BY <1>1, Invariance, PTL

\* Whatever statements run side by side, fail or are cut off by a crash, a
\* committed row has a committed table and the types and NOT NULL constraints
\* of its columns (kv.go: validateRow).
THEOREM RowsFitTheirTableAlways == Spec => []RowsFitTheirTable
<1>1. Inv => RowsFitTheirTable
    BY DEF Inv, DBInv, Consistent, RowOf, Fits, RowsFitTheirTable
<1> QED
    BY <1>1, Invariance, PTL

\* A committed row is stored under the key of its primary key, as long as
\* every string is valid UTF-8 (kv.go: rowKey, CreateRow and UpdateRow).  The
\* run sql_utf8 shows that the condition is needed.
THEOREM RowsUnderTheirKeyAlways ==
    ASSUME Exact
    PROVE  Spec => []RowsUnderTheirKey
<1>1. Inv => RowsUnderTheirKey
    BY DEF Inv, DBInv, Consistent, RowOf, RowsUnderTheirKey
<1> QED
    BY <1>1, Invariance, PTL

\* The schema of a committed table never changes (kv.go: CreateTable).
THEOREM SchemasAreFixedAlways == Spec => SchemasAreFixed
<1> DEFINE Kept == \A name \in TableName :
                store[tableKey(name)] # Nil => store'[tableKey(name)] = store[tableKey(name)]
<1>1. Inv /\ [Next]_vars => [Kept]_vars
    <2> SUFFICES ASSUME Inv, [Next]_vars, ~UNCHANGED vars PROVE Kept
        OBVIOUS
    <2>1. CASE UNCHANGED store
        BY <2>1
    <2>2. ASSUME NEW t \in Txn, Commit(t) PROVE Kept
        BY <2>2, DBCommit DEF Inv, Commit
    <2>3. UNCHANGED store \/ \E t \in Txn : Commit(t)
        BY DEF Next, Begin, Proceed, CreateTable, StartRows, Select, CreateRow, UpdateRow, DeleteOldKey,
               SetNewKey, DeleteRow, RowsDone, Fails, Rollback, StorageFails, CommitFails, GiveUp, Crash,
               DB!Begin, DB!Write, DB!Abort
    <2> QED
        BY <2>1, <2>2, <2>3
<1> QED
    BY <1>1, Invariance, PTL DEF Spec, SchemasAreFixed

-----------------------------------------------------------------------------
(***************************************************************************)
(* What a statement has done to its snapshot, row by row.                  *)
(***************************************************************************)
\* The writes w on top of the database db: the first c of the new rows R
\* under their keys N, which were free or among the first g of the old keys
\* O; the others of these deleted; and nothing else.
Applied(w, db, N, R, c, O, g) ==
    /\ \A i \in 1..c : N[i] \in Key /\ R[i] \in Seq(SQLValue) /\ w[N[i]] = R[i]
    /\ \A i, j \in 1..c : N[i] = N[j] => i = j
    /\ \A i \in 1..c : db[N[i]] = Nil \/ \E j \in 1..g : O[j] = N[i]
    /\ \A k \in Key : (\A i \in 1..c : N[i] # k) => w[k] = IF \E j \in 1..g : O[j] = k THEN Nil ELSE NoWrite

Count(t) == result[t].count

InsertProgress(t) ==
    LET s == statement[t]
    IN  /\ Count(t) <= Len(s.values)
        /\ Applied(writes[t], snapshot[t], NewKeys(snapshot[t], s), NewRows(snapshot[t], s), Count(t), <<>>, 0)

\* f lists the matching rows of the snapshot in the order of the scan.
Listed(t, m, f) ==
    /\ Lists(f, m, Matching(snapshot[t], statement[t])) /\ Count(t) <= m
    /\ rest[t] = [i \in 1..(m - Count(t)) |-> snapshot[t][f[Count(t) + i]]]

DeleteProgress(t, m, f) ==
    Listed(t, m, f) /\ Applied(writes[t], snapshot[t], <<>>, <<>>, 0, f, Count(t))

UpdateProgress(t, m, f, g) ==
    /\ Listed(t, m, f) /\ g <= m
    /\ Applied(writes[t], snapshot[t],
               [i \in 1..m |-> NewKeys(snapshot[t], statement[t])[f[i]]],
               [i \in 1..m |-> NewRows(snapshot[t], statement[t])[f[i]]], Count(t), f, g)

Moving(t, m, f) ==
    LET key == NewKeys(snapshot[t], statement[t])[f[Count(t) + 1]]
    IN  UpdateProgress(t, m, f, Count(t) + 1) /\ DB!Read(t, key) = Nil

TakesEffectWhole(t) ==
    /\ Allowed(snapshot[t], statement[t])
    /\ [k \in Key |-> DB!Read(t, k)] = Outcome(snapshot[t], statement[t])

Describes(t) ==
    LET s == statement[t]
    IN  CASE s.op = "create" -> TRUE
          [] s.op = "insert" -> result[t].count = Len(s.values)
          [] s.op \in {"update", "delete"} ->
                result[t].count = Cardinality(Matching(snapshot[t], s))
          [] s.op = "select" ->
                /\ Len(result[t].rows) = Cardinality(Matching(snapshot[t], s))
                /\ Range(result[t].rows) = {snapshot[t][k] : k \in Matching(snapshot[t], s)}

Progress(t) ==
    /\ step[t] \in {"idle", "start"} => Count(t) = 0 /\ writes[t] = DB!NoWrites
    /\ step[t] = "rows" /\ statement[t].op = "insert" => InsertProgress(t)
    /\ step[t] = "rows" /\ statement[t].op = "update" => \E m \in Nat : \E f : UpdateProgress(t, m, f, Count(t))
    /\ step[t] = "rows" /\ statement[t].op = "delete" => \E m \in Nat : \E f : DeleteProgress(t, m, f)
    /\ step[t] = "moving" => \E m \in Nat : \E f : Moving(t, m, f)
    /\ step[t] = "done" => TakesEffectWhole(t) /\ Describes(t)

EffectInv == \A t \in Txn : Progress(t)

\* A new row is written under a key at which the transaction reads nothing.
LEMMA AppliedSet ==
    ASSUME NEW w, w = [k \in Key |-> w[k]], NEW db, NEW N, NEW R, NEW c \in Nat, NEW O, NEW g,
           Applied(w, db, N, R, c, O, g), NEW x \in Key, N[c + 1] = x, R[c + 1] \in Seq(SQLValue),
           (IF w[x] # NoWrite THEN w[x] ELSE db[x]) = Nil
    PROVE  Applied([w EXCEPT ![x] = R[c + 1]], db, N, R, c + 1, O, g)
<1> DEFINE u == [w EXCEPT ![x] = R[c + 1]]
<1>1. \A k \in Key : u[k] = IF k = x THEN R[c + 1] ELSE w[k]
    OBVIOUS
<1>2. Nil \notin Seq(SQLValue) /\ NoWrite \notin Seq(SQLValue) /\ Nil # NoWrite
    BY AbsentAssumption DEF Value
<1>a. /\ \A i \in 1..c : N[i] \in Key /\ R[i] \in Seq(SQLValue) /\ w[N[i]] = R[i]
      /\ \A i, j \in 1..c : N[i] = N[j] => i = j
      /\ \A i \in 1..c : db[N[i]] = Nil \/ \E j \in 1..g : O[j] = N[i]
      /\ \A k \in Key : (\A i \in 1..c : N[i] # k) => w[k] = IF \E j \in 1..g : O[j] = k THEN Nil ELSE NoWrite
    BY DEF Applied
<1>3. \A i \in 1..c : N[i] # x
    BY <1>2, <1>a
<1>4. db[x] = Nil \/ \E j \in 1..g : O[j] = x
    BY <1>2, <1>3, <1>a
<1>5. /\ \A i \in 1..(c + 1) : i \in 1..c \/ i = c + 1
      /\ \A i \in 1..c : i \in 1..(c + 1)
      /\ c + 1 \in 1..(c + 1)
    OBVIOUS
<1> HIDE DEF u
<1>6. \A i \in 1..(c + 1) : N[i] \in Key /\ R[i] \in Seq(SQLValue) /\ u[N[i]] = R[i]
    BY <1>1, <1>3, <1>5, <1>a
<1>7. \A i, j \in 1..(c + 1) : N[i] = N[j] => i = j
    BY <1>3, <1>5, <1>a
<1>8. \A i \in 1..(c + 1) : db[N[i]] = Nil \/ \E j \in 1..g : O[j] = N[i]
    BY <1>4, <1>5, <1>a
<1>9. ASSUME NEW k \in Key, \A i \in 1..(c + 1) : N[i] # k
      PROVE  u[k] = IF \E j \in 1..g : O[j] = k THEN Nil ELSE NoWrite
    <2>1. k # x /\ \A i \in 1..c : N[i] # k
        BY <1>5, <1>9
    <2> QED
        BY <1>1, <1>a, <2>1
<1>10. Applied(u, db, N, R, c + 1, O, g)
    BY <1>6, <1>7, <1>8, <1>9 DEF Applied
<1> QED
    BY <1>10 DEF u

\* An old key, which no new row has taken, is deleted.
LEMMA AppliedDelete ==
    ASSUME NEW w, w = [k \in Key |-> w[k]], NEW db, NEW N, NEW R, NEW c \in Nat, NEW O, NEW g \in Nat,
           Applied(w, db, N, R, c, O, g), NEW x \in Key, O[g + 1] = x, db[x] # Nil,
           \A j \in 1..g : O[j] # x
    PROVE  Applied([w EXCEPT ![x] = Nil], db, N, R, c, O, g + 1)
<1> DEFINE u == [w EXCEPT ![x] = Nil]
<1>1. \A k \in Key : u[k] = IF k = x THEN Nil ELSE w[k]
    OBVIOUS
<1>a. /\ \A i \in 1..c : N[i] \in Key /\ R[i] \in Seq(SQLValue) /\ w[N[i]] = R[i]
      /\ \A i, j \in 1..c : N[i] = N[j] => i = j
      /\ \A i \in 1..c : db[N[i]] = Nil \/ \E j \in 1..g : O[j] = N[i]
      /\ \A k \in Key : (\A i \in 1..c : N[i] # k) => w[k] = IF \E j \in 1..g : O[j] = k THEN Nil ELSE NoWrite
    BY DEF Applied
<1>2. \A i \in 1..c : N[i] # x
    BY <1>a
<1>3. /\ \A j \in 1..(g + 1) : j \in 1..g \/ j = g + 1
      /\ \A j \in 1..g : j \in 1..(g + 1)
      /\ g + 1 \in 1..(g + 1)
    OBVIOUS
<1>4. \A k : (\E j \in 1..(g + 1) : O[j] = k) <=> k = x \/ \E j \in 1..g : O[j] = k
    BY <1>3
<1> HIDE DEF u
<1>5. \A i \in 1..c : N[i] \in Key /\ R[i] \in Seq(SQLValue) /\ u[N[i]] = R[i]
    BY <1>1, <1>2, <1>a
<1>6. \A i \in 1..c : db[N[i]] = Nil \/ \E j \in 1..(g + 1) : O[j] = N[i]
    BY <1>4, <1>a
<1>7. ASSUME NEW k \in Key, \A i \in 1..c : N[i] # k
      PROVE  u[k] = IF \E j \in 1..(g + 1) : O[j] = k THEN Nil ELSE NoWrite
    BY <1>1, <1>4, <1>7, <1>a
<1>8. Applied(u, db, N, R, c, O, g + 1)
    BY <1>5, <1>6, <1>7, <1>a DEF Applied
<1> QED
    BY <1>8 DEF u

\* A row is replaced under the key it has.
LEMMA AppliedReplace ==
    ASSUME NEW w, w = [k \in Key |-> w[k]], NEW db, NEW N, NEW R, NEW c \in Nat, NEW O,
           Applied(w, db, N, R, c, O, c), NEW x \in Key, N[c + 1] = x, O[c + 1] = x, db[x] # Nil,
           \A j \in 1..c : O[j] # x, R[c + 1] \in Seq(SQLValue)
    PROVE  Applied([w EXCEPT ![x] = R[c + 1]], db, N, R, c + 1, O, c + 1)
<1> DEFINE v == [w EXCEPT ![x] = Nil]
<1>1. Applied(v, db, N, R, c, O, c + 1)
    BY AppliedDelete
<1>2. v = [k \in Key |-> v[k]] /\ v[x] = Nil /\ [v EXCEPT ![x] = R[c + 1]] = [w EXCEPT ![x] = R[c + 1]]
    OBVIOUS
<1>3. (IF v[x] # NoWrite THEN v[x] ELSE db[x]) = Nil
    BY <1>2, AbsentAssumption
<1> HIDE DEF v
<1>4. Applied([v EXCEPT ![x] = R[c + 1]], db, N, R, c + 1, O, c + 1)
    BY <1>1, <1>2, <1>3, AppliedSet
<1> QED
    BY <1>2, <1>4

-----------------------------------------------------------------------------
(***************************************************************************)
(* The predicate of a filter, and the primary key of a row.                *)
(***************************************************************************)
LEMMA NumberIs ==
    ASSUME NEW v \in SQLValue
    PROVE  v.n \in Nat /\ AsFloat(v) \in Int
<1>1. v \in [kind : ValueKind, n : Nat]
    BY SQLValueAssumption
<1>2. v.n \in Nat
    BY <1>1
<1> DEFINE n == v.n
<1> HIDE DEF n
<1>n. n \in Nat
    BY <1>2 DEF n
<1>3. float64(n) \in Int
    <2>1. CASE n <= ExactInteger \/ n % 2 = 0
        <3>1. n > ExactInteger => n % 4 # 1 /\ n % 4 # 3
            BY <1>n, <2>1, NumberAssumption
        <3>2. float64(n) = n
            BY <1>n, <2>1, <3>1, NumberAssumption DEF float64
        <3> QED
            BY <1>n, <3>2
    <2>2. CASE n > ExactInteger /\ n % 4 = 1
        <3>1. ~(n <= ExactInteger \/ n % 2 = 0) /\ n % 4 # 3
            BY <1>n, <2>2, NumberAssumption
        <3>2. float64(n) = n - 1
            BY <2>2, <3>1 DEF float64
        <3> QED
            BY <1>n, <3>2
    <2>3. CASE n > ExactInteger /\ n % 4 = 3
        <3>1. ~(n <= ExactInteger \/ n % 2 = 0) /\ n % 4 # 1
            BY <1>n, <2>3, NumberAssumption
        <3>2. float64(n) = n + 1
            BY <2>3, <3>1 DEF float64
        <3> QED
            BY <1>n, <3>2
    <2>4. n <= ExactInteger \/ n % 2 = 0 \/ (n > ExactInteger /\ (n % 4 = 1 \/ n % 4 = 3))
        BY <1>n, NumberAssumption
    <2> QED
        BY <2>1, <2>2, <2>3, <2>4
<1>4. AsFloat(v) \in Int
    <2> DEFINE m == float64(v.n)
    <2>1. m \in Int
        BY <1>3 DEF n
    <2> HIDE DEF m
    <2>2. m * FloatUnit \in Int
        BY <2>1, NumberAssumption
    <2>3. AsFloat(v) = IF v.kind = "integer" THEN m * FloatUnit ELSE v.n
        BY DEF AsFloat, m
    <2> QED
        BY <1>2, <2>2, <2>3
<1> QED
    BY <1>2, <1>4

LEMMA ComparisonIs ==
    ASSUME NEW op \in {"=", "<", ">"}, NEW left \in SQLValue, NEW right \in SQLValue,
           evaluateComparison(op, left, right) # EvaluationError
    PROVE  LET number(v) == IF left.kind = right.kind THEN v.n ELSE AsFloat(v)
           IN  evaluateComparison(op, left, right) = Boolean(TRUE) <=>
                /\ left # Null /\ right # Null
                /\ \/ op = "=" /\ number(left) = number(right)
                   \/ op = "<" /\ number(left) < number(right)
                   \/ op = ">" /\ number(left) > number(right)
<1> DEFINE number(v) == IF left.kind = right.kind THEN v.n ELSE AsFloat(v)
           a == number(left)
           b == number(right)
<1>1. a \in Int /\ b \in Int
    BY NumberIs
<1>2. Null # Boolean(TRUE)
    BY DEF Null, Boolean
<1>3. CASE left = Null \/ right = Null
    BY <1>2, <1>3 DEF evaluateComparison
<1>4. CASE left # Null /\ right # Null
    <2>1. Comparable(left, right) /\ evaluateComparison(op, left, right) = Boolean(Holds(op, Compare(left, right)))
        BY <1>4 DEF evaluateComparison
    <2>2. Compare(left, right) = Sign(a, b)
        <3>1. CASE left.kind = right.kind
            BY <1>4, <3>1 DEF Compare
        <3>2. CASE left.kind # right.kind
            <4>1. IsNumber(left) /\ IsNumber(right)
                BY <1>4, <2>1, <3>2 DEF Comparable
            <4> QED
                BY <1>4, <3>2, <4>1 DEF Compare
        <3> QED
            BY <3>1, <3>2
    <2> HIDE DEF a, b
    <2>3. Holds(op, Sign(a, b)) <=> \/ op = "=" /\ a = b
                                    \/ op = "<" /\ a < b
                                    \/ op = ">" /\ a > b
        <3>1. /\ Sign(a, b) = 0 <=> a = b
              /\ Sign(a, b) < 0 <=> a < b
              /\ Sign(a, b) > 0 <=> a > b
            BY <1>1 DEF Sign
        <3>2. CASE op = "="
            BY <3>1, <3>2 DEF Holds
        <3>3. CASE op = "<"
            BY <3>1, <3>3 DEF Holds
        <3>4. CASE op = ">"
            BY <3>1, <3>4 DEF Holds
        <3> QED
            BY <3>2, <3>3, <3>4
    <2>4. \A x \in BOOLEAN : Boolean(x) = Boolean(TRUE) <=> x
        BY DEF Boolean
    <2>5. Holds(op, Sign(a, b)) \in BOOLEAN
        <3>1. CASE op = "="
            BY <3>1 DEF Holds
        <3>2. CASE op = "<"
            BY <3>2 DEF Holds
        <3>3. CASE op = ">"
            BY <3>3 DEF Holds
        <3> QED
            BY <3>1, <3>2, <3>3
    <2>6. evaluateComparison(op, left, right) = Boolean(TRUE) <=> Holds(op, Sign(a, b))
        BY <2>1, <2>2, <2>4, <2>5
    <2> QED
        BY <1>4, <2>3, <2>6 DEF a, b
<1> QED
    BY <1>3, <1>4

\* A side of a comparison that can be evaluated has its value in the row.
LEMMA TermIs ==
    ASSUME NEW e, IsTerm(e), NEW table, Len(table.columns) \in Nat, NEW row \in Seq(SQLValue),
           Len(row) = Len(table.columns),
           evaluateOperand(e, columnNames(table), row) # EvaluationError
    PROVE  /\ evaluateOperand(e, columnNames(table), row) = TermValue(e, table, row)
           /\ TermValue(e, table, row) \in SQLValue
<1>1. CASE e[1] = "literal"
    BY <1>1 DEF IsTerm, evaluateOperand, TermValue
<1>2. CASE e[1] = "function"
    BY <1>2 DEF evaluateOperand
<1>3. CASE e[1] = "column"
    <2> DEFINE n == Len(table.columns)
               I == {i \in 1..n : table.columns[i].name = e[2]}
               J == {i \in 1..Len(columnNames(table)) : columnNames(table)[i] = e[2]}
    <2>1. columnNames(table) = [i \in 1..n |-> table.columns[i].name]
        BY DEF columnNames
    <2>2. Len(columnNames(table)) = n
        <3> HIDE DEF n
        <3>1. n \in Nat
            BY DEF n
        <3> QED
            BY <2>1, <3>1
    <2>3. I = J
        BY <2>1, <2>2
    <2>4. Index(columnNames(table), e[2]) = IF J # {} THEN Min(J) ELSE 0
        BY DEF Index, SelectInSeq
    <2>5. ColumnIndex(table, e[2]) = IF I # {} THEN Min(I) ELSE 0
        BY DEF ColumnIndex, SelectInSeq
    <2>6. I # {} => Min(I) \in 1..n
        BY FirstIs
    <2> HIDE DEF I, J
    <2>7. Index(columnNames(table), e[2]) = ColumnIndex(table, e[2])
        BY <2>3, <2>4, <2>5
    <2>8. /\ Index(columnNames(table), e[2]) # 0
          /\ evaluateOperand(e, columnNames(table), row) = row[Index(columnNames(table), e[2])]
        BY <1>3 DEF evaluateOperand
    <2>9. ColumnIndex(table, e[2]) \in 1..n
        BY <2>5, <2>6, <2>7, <2>8
    <2>10. TermValue(e, table, row) = row[ColumnIndex(table, e[2])]
        BY <1>3 DEF TermValue
    <2>11. row[ColumnIndex(table, e[2])] \in SQLValue
        BY <2>9
    <2> QED
        BY <2>7, <2>8, <2>10, <2>11
<1> QED
    BY <1>1, <1>2, <1>3 DEF IsTerm

\* Where it is no error, the predicate of a filter is true in the rows that
\* satisfy it.
LEMMA SatisfiesIs ==
    ASSUME NEW p, p # NoFilter, IsFilter(p), NEW table, Len(table.columns) \in Nat,
           NEW row \in Seq(SQLValue), Len(row) = Len(table.columns),
           evaluateExpression(p, columnNames(table), row, columnNames(table), row) # EvaluationError
    PROVE  IsTrue(p, columnNames(table), row) <=> Satisfies(p, table, row)
<1> DEFINE left == TermValue(p.left, table, row)
           right == TermValue(p.right, table, row)
           l == evaluateOperand(p.left, columnNames(table), row)
           r == evaluateOperand(p.right, columnNames(table), row)
<1>1. l # EvaluationError /\ r # EvaluationError
    BY DEF evaluateExpression
<1>2. IsTerm(p.left) /\ IsTerm(p.right) /\ p.operation \in {"=", "<", ">"}
    BY DEF IsFilter
<1>3. l = left /\ r = right /\ left \in SQLValue /\ right \in SQLValue
    BY <1>1, <1>2, TermIs
<1>4. evaluateExpression(p, columnNames(table), row, columnNames(table), row) =
        evaluateComparison(p.operation, left, right)
    BY <1>1, <1>3 DEF evaluateExpression
<1> HIDE DEF left, right, l, r
<1>5. evaluateComparison(p.operation, left, right) # EvaluationError
    BY <1>4
<1>6. LET number(v) == IF left.kind = right.kind THEN v.n ELSE AsFloat(v)
      IN  evaluateComparison(p.operation, left, right) = Boolean(TRUE) <=>
            /\ left # Null /\ right # Null
            /\ \/ p.operation = "=" /\ number(left) = number(right)
               \/ p.operation = "<" /\ number(left) < number(right)
               \/ p.operation = ">" /\ number(left) > number(right)
    BY <1>2, <1>3, <1>5, ComparisonIs
<1> QED
    BY <1>4, <1>6 DEF IsTrue, Satisfies, left, right

LEMMA PrimaryKeyIs ==
    ASSUME Exact, NEW table \in Tables, NEW row \in Seq(SQLValue), Len(row) = Len(table.columns)
    PROVE  PrimaryKeyValue(table, row) \in SQLValue
<1>1. PICK s \in Statement : /\ s.op = "create" /\ Validate(tableFromCreateStatement(s.definition))
                             /\ table = JSONTable(tableFromCreateStatement(s.definition))
    BY DEF Tables
<1>2. Validate(table) /\ Len(table.columns) \in Nat
    BY <1>1, CreateIs
<1> DEFINE n == Len(table.columns)
           I == {i \in 1..n : table.columns[i].primaryKey}
<1>3. I # {}
    <2>1. Cardinality(I) = 1
        BY <1>2 DEF Validate, primaryKeys
    <2>2. Cardinality({}) = 0
        BY FS_EmptySet
    <2> HIDE DEF I
    <2>3. I = {} => 1 = 0
        BY <2>1, <2>2, Zenon
    <2> QED
        BY <2>3
<1>4. Min(I) \in 1..n
    BY <1>2, <1>3, FirstIs
<1>5. PrimaryKeyValue(table, row) = row[Min(I)]
    BY <1>3 DEF PrimaryKeyValue, SelectInSeq
<1> QED
    BY <1>4, <1>5

-----------------------------------------------------------------------------
(***************************************************************************)
(* The source of a statement: the matching rows of its snapshot.           *)
(***************************************************************************)
\* Every row is under the key that UPDATE and DELETE compute from it.
RightRow(db, s, k) ==
    /\ k \in Key /\ db[k] \in Seq(SQLValue) /\ db[k] # Nil
    /\ TableIn(db, s) \in Tables /\ Len(db[k]) = Len(TableIn(db, s).columns)
    /\ k = rowKey(s.name, PrimaryKeyValue(TableIn(db, s), db[k]))
    /\ \E v \in SQLValue : k = rowKey(s.name, v)

LEMMA RowsInIs ==
    ASSUME Exact, NEW db, IsContents(db, {Nil}), Consistent(db), NEW s, s.name \in TableName
    PROVE  \A k \in RowsIn(db, s) : RightRow(db, s, k)
<1> SUFFICES ASSUME NEW k \in RowsIn(db, s) PROVE RightRow(db, s, k)
    OBVIOUS
<1>1. k \in Key /\ k[1] = "row" /\ k[2] = s.name /\ db[k] # Nil
    BY DEF RowsIn
<1>2. PICK v \in SQLValue : k = rowKey(s.name, v)
    <2>1. \A name : tableKey(name)[1] # "row"
        BY DEF tableKey
    <2>2. \A name, v : rowKey(name, v)[2] = name
        BY DEF rowKey
    <2> QED
        BY <1>1, <2>1, <2>2, KeyIs
<1>3. db[tableKey(s.name)] # Nil /\ RowOf(db[tableKey(s.name)], v, db[k])
    BY <1>1, <1>2 DEF Consistent
<1>4. db[k] \in Seq(SQLValue) /\ TableIn(db, s) \in Tables
    <2>1. db[tableKey(s.name)] \in Tables \cup {Nil} /\ db[rowKey(s.name, v)] \in Seq(SQLValue) \cup {Nil}
        BY ContentsIs
    <2> QED
        BY <1>1, <1>2, <1>3, <2>1 DEF TableIn
<1>5. Len(db[k]) = Len(TableIn(db, s).columns) /\ PrimaryKeyValue(TableIn(db, s), db[k]) = v
    BY <1>3 DEF RowOf, Fits, TableIn
<1> QED
    BY <1>1, <1>2, <1>4, <1>5 DEF RightRow

\* A scan of the snapshot lists the rows of the table.
LEMMA ScanIs ==
    ASSUME Inv, Exact, NEW t \in Txn, step[t] \notin {"idle", "ended"}, statement[t].op # "create",
           writes[t] = DB!NoWrites
    PROVE  \E m \in Nat : \E e : /\ Lists(e, m, RowsIn(snapshot[t], statement[t]))
                                 /\ ScanTable(t, statement[t].name) = [i \in 1..m |-> snapshot[t][e[i]]]
<1> DEFINE s == statement[t]
           db == snapshot[t]
           name == s.name
<1>1. name \in TableName /\ IsContents(db, {Nil}) /\ Consistent(db)
    BY TableOfIs, RunningIs DEF SnapshotInv
<1>r. \A k \in RowsIn(db, s) : RightRow(db, s, k)
    BY <1>1, RowsInIs
<1>0. name = s.name
    OBVIOUS
<1> HIDE DEF name
<1>m. PICK m \in Nat : \E g :
        /\ Lists(g, m, Found(t, name))
        /\ ScanTable(t, name) = [i \in 1..m |-> DB!Read(t, rowKey(name, g[i]))]
    BY ONLY ScanTableIs, SMT
<1>2. PICK g : /\ Lists(g, m, Found(t, name))
               /\ ScanTable(t, name) = [i \in 1..m |-> DB!Read(t, rowKey(name, g[i]))]
    BY <1>m
<1>3. \A v \in SQLValue : rowKey(name, v) \in Key /\ DB!Read(t, rowKey(name, v)) = db[rowKey(name, v)]
    BY <1>1, KeysDiffer, NothingIs DEF DB!Read
<1>4. /\ g \in [1..m -> Found(t, name)] /\ (\A i, j \in 1..m : g[i] = g[j] => i = j)
      /\ \A x \in Found(t, name) : \E i \in 1..m : g[i] = x
    BY <1>2 DEF Lists
<1>5. Found(t, name) = {v \in SQLValue : db[rowKey(name, v)] # Nil}
    BY <1>3 DEF Found
<1> DEFINE e == [i \in 1..m |-> rowKey(name, g[i])]
<1>6. \A i \in 1..m : g[i] \in SQLValue /\ e[i] = rowKey(name, g[i]) /\ db[e[i]] # Nil
    BY <1>4, <1>5
<1>7. e \in [1..m -> RowsIn(db, s)]
    <2>1. ASSUME NEW i \in 1..m PROVE e[i] \in RowsIn(db, s)
        <3>1. rowKey(name, g[i])[1] = "row" /\ rowKey(name, g[i])[2] = name
            BY DEF rowKey
        <3> QED
            BY <1>0, <1>3, <1>6, <3>1 DEF RowsIn
    <2> QED
        BY <2>1
<1>8. \A i, j \in 1..m : e[i] = e[j] => i = j
    BY <1>4, <1>6, KeysDiffer
<1>9. ASSUME NEW k \in RowsIn(db, s) PROVE \E i \in 1..m : e[i] = k
    <2>1. PICK v \in SQLValue : k = rowKey(name, v) /\ db[k] # Nil
        BY <1>0, <1>r DEF RightRow
    <2>2. PICK i \in 1..m : g[i] = v
        BY <1>4, <1>5, <2>1
    <2> QED
        BY <1>6, <2>1, <2>2
<1>10. ScanTable(t, name) = [i \in 1..m |-> db[e[i]]]
    BY <1>2, <1>3, <1>6
<1> HIDE DEF e
<1>11. Lists(e, m, RowsIn(db, s))
    BY <1>7, <1>8, <1>9 DEF Lists
<1> QED
    BY <1>0, <1>10, <1>11

LEMMA FilterIs ==
    ASSUME NEW s \in Statement, s.op \in {"update", "delete", "select"}
    PROVE  IsFilter(s.filter)
<1>1. IsStatement(s)
    BY StatementAssumption
<1> QED
    BY <1>1 DEF IsStatement

\* The source hands out the matching rows, each of them once.
LEMMA SourceIs ==
    ASSUME Inv, Exact, NEW t \in Txn, step[t] \notin {"idle", "ended"},
           statement[t].op \in {"update", "delete", "select"},
           writes[t] = DB!NoWrites, ~SourceFails(t)
    PROVE  \E m \in Nat : \E f : /\ Lists(f, m, Matching(snapshot[t], statement[t]))
                                 /\ SourceRows(t) = [i \in 1..m |-> snapshot[t][f[i]]]
<1> DEFINE s == statement[t]
           db == snapshot[t]
           p == s.filter
           table == TableIn(db, s)
           rows == ScanTable(t, s.name)
           columns == columnNames(table)
<1>1. /\ s \in Statement /\ s.name \in TableName /\ IsContents(db, {Nil}) /\ Consistent(db)
      /\ TableOf(t) = table
    BY TableOfIs, RunningIs DEF SnapshotInv, SeenTable, TableIn
<1>m. PICK m \in Nat : \E e :
        /\ Lists(e, m, RowsIn(db, s))
        /\ rows = [i \in 1..m |-> db[e[i]]]
    BY ScanIs
<1>2. PICK e : /\ Lists(e, m, RowsIn(db, s))
               /\ rows = [i \in 1..m |-> db[e[i]]]
    BY <1>m
<1>e. /\ e \in [1..m -> RowsIn(db, s)] /\ (\A i, j \in 1..m : e[i] = e[j] => i = j)
      /\ \A k \in RowsIn(db, s) : \E i \in 1..m : e[i] = k
    BY <1>2 DEF Lists
<1>r. \A k \in RowsIn(db, s) : RightRow(db, s, k)
    BY <1>1, RowsInIs
<1>3. CASE p = NoFilter
    <2>1. Matching(db, s) = RowsIn(db, s)
        BY <1>3 DEF Matching
    <2>2. SourceRows(t) = rows
        BY <1>3 DEF SourceRows
    <2> HIDE DEF rows
    <2> QED
        BY <1>2, <2>1, <2>2
<1>4. CASE p # NoFilter
    <2> DEFINE I == TrueRows(p, columns, rows, m)
    <2>1. Len(rows) = m
        <3> HIDE DEF rows
        <3> QED
            BY <1>2
    <2>2. SourceRows(t) = FilterRows(p, columns, rows)
        BY <1>1, <1>4 DEF SourceRows
    <2>3. Takes(SourceRows(t), rows, I)
        BY <2>1, <2>2, FilterRowsIs
    <2>m. PICK q \in Nat : \E h : Lists(h, q, I) /\ SourceRows(t) = [i \in 1..q |-> rows[h[i]]]
        BY <2>3 DEF Takes
    <2>4. PICK h : Lists(h, q, I) /\ SourceRows(t) = [i \in 1..q |-> rows[h[i]]]
        BY <2>m
    <2>5. ASSUME NEW i \in 1..m
          PROVE  /\ rows[i] = db[e[i]] /\ e[i] \in RowsIn(db, s)
                 /\ IsTrue(p, columns, rows[i]) <=> Satisfies(p, table, db[e[i]])
        <3>1. e[i] \in RowsIn(db, s)
            BY <1>e
        <3>2. rows[i] = db[e[i]]
            <4> HIDE DEF rows
            <4> QED
                BY <1>2
        <3>3. db[e[i]] \in Seq(SQLValue) /\ table \in Tables /\ Len(db[e[i]]) = Len(table.columns)
            BY <1>r, <3>1 DEF RightRow
        <3>4. Len(table.columns) \in Nat
            BY <3>3, TableIs
        <3>5. evaluateExpression(p, columns, rows[i], columns, rows[i]) # EvaluationError
            BY <1>1, <1>4, <2>1 DEF SourceFails, FilterFails
        <3>6. IsFilter(p)
            BY <1>1, FilterIs
        <3>7. IsTrue(p, columns, db[e[i]]) <=> Satisfies(p, table, db[e[i]])
            <4>1. evaluateExpression(p, columns, db[e[i]], columns, db[e[i]]) # EvaluationError
                BY <3>2, <3>5
            <4> HIDE DEF p, table
            <4> QED
                BY <1>4, <3>3, <3>4, <3>6, <4>1, SatisfiesIs
        <3> QED
            BY <3>1, <3>2, <3>7
    <2>6. I \in SUBSET (1..m)
        BY DEF TrueRows
    <2> DEFINE f == [i \in 1..q |-> e[h[i]]]
    <2>h. /\ h \in [1..q -> I] /\ (\A i, j \in 1..q : h[i] = h[j] => i = j)
          /\ \A x \in I : \E i \in 1..q : h[i] = x
        BY <2>4 DEF Lists
    <2>7. /\ \A i \in I : e[i] \in Matching(db, s)
          /\ \A k \in Matching(db, s) : \E i \in I : e[i] = k
        <3>1. Matching(db, s) = {k \in RowsIn(db, s) : Satisfies(p, table, db[k])}
            BY <1>4 DEF Matching
        <3>2. I = {i \in 1..m : Satisfies(p, table, db[e[i]])}
            BY <2>5 DEF TrueRows
        <3> HIDE DEF I, p, table, db, s
        <3> QED
            BY <1>e, <3>1, <3>2
    <2>8. Lists(f, q, Matching(db, s))
        <3> HIDE DEF I
        <3>1. f \in [1..q -> Matching(db, s)]
            BY <2>7, <2>h
        <3>2. ASSUME NEW i \in 1..q, NEW j \in 1..q, f[i] = f[j] PROVE i = j
            <4>1. h[i] \in 1..m /\ h[j] \in 1..m /\ e[h[i]] = e[h[j]]
                BY <2>6, <2>h, <3>2
            <4> QED
                BY <1>e, <2>h, <4>1
        <3>3. ASSUME NEW k \in Matching(db, s) PROVE \E i \in 1..q : f[i] = k
            <4>1. PICK x \in I : e[x] = k
                BY <2>7
            <4>2. PICK i \in 1..q : h[i] = x
                BY <2>h
            <4> QED
                BY <4>1, <4>2
        <3> HIDE DEF f
        <3> QED
            BY <2>4, <3>1, <3>2, <3>3 DEF Lists
    <2>9. SourceRows(t) = [i \in 1..q |-> db[f[i]]]
        <3>1. ASSUME NEW i \in 1..q PROVE rows[h[i]] = db[f[i]]
            <4>1. h[i] \in 1..m
                BY <2>4, <2>6 DEF Lists
            <4> QED
                BY <2>5, <4>1
        <3> HIDE DEF rows, f
        <3> QED
            BY <2>4, <3>1
    <2> HIDE DEF f
    <2> QED
        BY <2>4, <2>8, <2>9
<1> QED
    BY <1>3, <1>4

-----------------------------------------------------------------------------
(***************************************************************************)
(* The next row of a statement, in the code and in the reference.          *)
(***************************************************************************)
LEMMA LiteralIs ==
    ASSUME NEW e, ValueFromExpression(e) # EvaluationError
    PROVE  ValueFromExpression(e) = e[2]
BY DEF ValueFromExpression

\* A valid row is stored as it is, under a key of the table.
LEMMA StoredIs ==
    ASSUME Exact, NEW table \in Tables, NEW row \in Seq(SQLValue), validateRow(table, row),
           NEW name \in TableName
    PROVE  JSONRow(row) = row /\ rowKey(name, PrimaryKeyValue(table, row)) \in Key
<1>1. Len(row) = Len(table.columns)
    BY DEF validateRow
<1>2. PrimaryKeyValue(table, row) \in SQLValue
    BY <1>1, PrimaryKeyIs
<1> QED
    BY <1>2, ValidFits, KeysDiffer

LEMMA NextInsert ==
    ASSUME Inv, Exact, NEW t \in Txn, step[t] = "rows", statement[t].op = "insert", RowsLeft(t),
           CanCreateRow(t)
    PROVE  /\ Count(t) + 1 \in 1..Len(statement[t].values)
           /\ InsertRow(t) = NewRows(snapshot[t], statement[t])[Count(t) + 1]
           /\ InsertKey(t) = NewKeys(snapshot[t], statement[t])[Count(t) + 1]
           /\ InsertKey(t) \in Key /\ InsertRow(t) \in Seq(SQLValue) /\ JSONRow(InsertRow(t)) = InsertRow(t)
<1> DEFINE s == statement[t]
           db == snapshot[t]
           n == Len(s.values)
           c == Count(t) + 1
           input == s.values[c]
           values == [i \in 1..Len(input) |-> ValueFromExpression(input[i])]
           literals == [i \in 1..Len(input) |-> input[i][2]]
<1>1. /\ s \in Statement /\ result[t].count \in Nat /\ TableOf(t) = SeenTable(t) /\ TableIn(db, s) = SeenTable(t)
      /\ SeenTable(t) \in Tables /\ s.name \in TableName
    BY RunningIs, TableOfIs DEF LoopInv, SeenTable, TableIn
<1>2. n \in Nat
    <2>1. IsStatement(s)
        BY <1>1, StatementAssumption
    <2>2. IsSequence(s.values)
        BY <2>1 DEF IsStatement
    <2> QED
        BY <2>2, SequenceIs
<1>3. c \in 1..n
    <2>1. result[t].count < n
        BY DEF RowsLeft
    <2> QED
        BY <1>1, <1>2, <2>1 DEF Count
<1>4. InsertRow(t) # NoRow /\ validateRow(SeenTable(t), InsertRow(t))
    BY <1>1 DEF CanCreateRow
<1>5. EvaluationError \notin Range(values) /\ InsertRow(t) = makeInsertRow(SeenTable(t), s.columns, values)
    BY <1>1, <1>4 DEF InsertRow, Count
<1>6. values = literals
    <2>1. \A i \in 1..Len(input) : ValueFromExpression(input[i]) # EvaluationError
        BY <1>5 DEF Range
    <2> QED
        BY <2>1, LiteralIs
<1>7. NewRows(db, s) = [i \in 1..n |-> makeInsertRow(TableIn(db, s), s.columns,
                            [j \in 1..Len(s.values[i]) |-> s.values[i][j][2]])]
    BY DEF NewRows
<1>8. InsertRow(t) = NewRows(db, s)[c]
    <2>1. NewRows(db, s)[c] = makeInsertRow(TableIn(db, s), s.columns, literals)
        BY <1>3, <1>7
    <2> QED
        BY <1>1, <1>5, <1>6, <2>1
<1>9. DOMAIN NewRows(db, s) = 1..n
    BY <1>7
<1>10. InsertKey(t) = NewKeys(db, s)[c]
    <2>1. NewKeys(db, s)[c] = rowKey(s.name, PrimaryKeyValue(TableIn(db, s), NewRows(db, s)[c]))
        BY <1>3, <1>9 DEF NewKeys
    <2> QED
        BY <1>1, <1>8, <2>1 DEF InsertKey
<1>11. InsertRow(t) \in Seq(SQLValue)
    BY <1>4, InsertRowIs
<1>12. JSONRow(InsertRow(t)) = InsertRow(t) /\ InsertKey(t) \in Key
    BY <1>1, <1>4, <1>11, StoredIs DEF InsertKey
<1> QED
    BY <1>3, <1>8, <1>10, <1>11, <1>12

\* The next row of the source is the row under the next of the listed keys.
LEMMA NextSource ==
    ASSUME Inv, Exact, NEW t \in Txn, step[t] \in {"rows", "moving"}, statement[t].op \in {"update", "delete"},
           rest[t] # <<>>, NEW m \in Nat, NEW f, Listed(t, m, f)
    PROVE  /\ Count(t) \in Nat /\ Count(t) + 1 \in 1..m
           /\ f[Count(t) + 1] \in Matching(snapshot[t], statement[t])
           /\ f[Count(t) + 1] \in Key /\ snapshot[t][f[Count(t) + 1]] # Nil
           /\ \A j \in 1..Count(t) : f[j] # f[Count(t) + 1]
           /\ Head(rest[t]) = snapshot[t][f[Count(t) + 1]]
           /\ OldKey(t) = f[Count(t) + 1]
           /\ Tail(rest[t]) = [i \in 1..(m - (Count(t) + 1)) |-> snapshot[t][f[Count(t) + 1 + i]]]
<1> DEFINE s == statement[t]
           db == snapshot[t]
           c == Count(t)
           x == f[c + 1]
           n == m - c
<1>1. /\ TableOf(t) = SeenTable(t) /\ TableIn(db, s) = SeenTable(t) /\ s.name \in TableName
      /\ IsContents(db, {Nil}) /\ Consistent(db) /\ c \in Nat
    BY RunningIs, TableOfIs DEF SnapshotInv, SeenTable, TableIn, Count
<1>2. /\ f \in [1..m -> Matching(db, s)] /\ (\A i, j \in 1..m : f[i] = f[j] => i = j) /\ c <= m
      /\ rest[t] = [i \in 1..n |-> db[f[c + i]]]
    BY DEF Listed, Lists
<1>r. \A k \in RowsIn(db, s) : RightRow(db, s, k)
    BY <1>1, RowsInIs
<1> HIDE DEF c
<1>3. n \in Nat
    BY <1>1, <1>2
<1>4. n # 0
    <2> SUFFICES ASSUME n = 0 PROVE rest[t] = <<>>
        OBVIOUS
    <2>1. 1..n = {}
        OBVIOUS
    <2> HIDE DEF n
    <2> QED
        BY <1>2, <2>1
<1>5. c + 1 \in 1..m /\ n - 1 = m - (c + 1) /\ n - 1 \in Nat
    BY <1>1, <1>2, <1>3, <1>4
<1>6. x \in Matching(db, s)
    BY <1>2, <1>5
<1>7. RightRow(db, s, x)
    BY <1>6, <1>r DEF Matching
<1>8. ASSUME NEW j \in 1..c PROVE f[j] # x
    <2>1. j \in 1..m /\ j # c + 1
        BY <1>1, <1>2, <1>5
    <2> QED
        BY <1>2, <1>5, <2>1
<1>9. /\ rest[t] \in Seq(Seq(SQLValue)) /\ Len(rest[t]) = n
    <2>1. rest[t] \in Seq(Seq(SQLValue))
        BY RunningIs
    <2> HIDE DEF n
    <2> QED
        BY <1>2, <1>3, <2>1
<1>10. Head(rest[t]) = db[x]
    <2>1. 1 \in 1..n
        BY <1>3, <1>4
    <2>2. Head(rest[t]) = rest[t][1]
        BY <1>9
    <2>3. rest[t][1] = db[f[c + 1]]
        <3> HIDE DEF n
        <3> QED
            BY <1>2, <2>1
    <2> QED
        BY <2>2, <2>3
<1>11. Tail(rest[t]) = [i \in 1..(m - (c + 1)) |-> db[f[c + 1 + i]]]
    <2>1. Tail(rest[t]) = [i \in 1..(n - 1) |-> rest[t][i + 1]]
        BY <1>9
    <2>2. ASSUME NEW i \in 1..(n - 1) PROVE rest[t][i + 1] = db[f[c + 1 + i]]
        <3>1. i + 1 \in 1..n /\ c + (i + 1) = c + 1 + i
            BY <1>1, <1>3, <1>4
        <3>2. rest[t][i + 1] = db[f[c + (i + 1)]]
            <4> HIDE DEF n
            <4> QED
                BY <1>2, <3>1
        <3> QED
            BY <3>1, <3>2
    <2>3. Tail(rest[t]) = [i \in 1..(n - 1) |-> db[f[c + 1 + i]]]
        BY <2>1, <2>2
    <2> HIDE DEF n
    <2> QED
        BY <1>5, <2>3
<1>12. OldKey(t) = x
    <2>1. x = rowKey(s.name, PrimaryKeyValue(TableIn(db, s), db[x]))
        BY <1>7 DEF RightRow
    <2> QED
        BY <1>1, <1>10, <2>1 DEF OldKey
<1>13. x \in Key /\ db[x] # Nil
    BY <1>7 DEF RightRow
<1> QED
    BY <1>1, <1>5, <1>6, <1>8, <1>10, <1>11, <1>12, <1>13 DEF c

LEMMA NextUpdate ==
    ASSUME Inv, Exact, NEW t \in Txn, step[t] \in {"rows", "moving"}, statement[t].op = "update",
           rest[t] # <<>>, validateRow(TableOf(t), UpdatedRow(t)),
           NEW x \in Matching(snapshot[t], statement[t]), Head(rest[t]) = snapshot[t][x]
    PROVE  /\ UpdatedRow(t) = NewRows(snapshot[t], statement[t])[x]
           /\ NewKey(t) = NewKeys(snapshot[t], statement[t])[x]
           /\ NewKey(t) \in Key /\ UpdatedRow(t) \in Seq(SQLValue) /\ JSONRow(UpdatedRow(t)) = UpdatedRow(t)
<1> DEFINE s == statement[t]
           db == snapshot[t]
           a == [c \in DOMAIN s.assignments |-> ValueFromExpression(s.assignments[c])]
           b == [c \in DOMAIN s.assignments |-> s.assignments[c][2]]
<1>1. /\ TableOf(t) = SeenTable(t) /\ TableIn(db, s) = SeenTable(t) /\ s.name \in TableName
      /\ SeenTable(t) \in Tables
      /\ \A c \in DOMAIN s.assignments : ValueFromExpression(s.assignments[c]) # EvaluationError
    BY RunningIs, TableOfIs DEF SeenTable, TableIn, LoopInv
<1>2. a = b
    BY <1>1, LiteralIs
<1>3. UpdatedRow(t) = assign(SeenTable(t), b, db[x])
    <2>1. UpdatedRow(t) = assign(SeenTable(t), a, Head(rest[t]))
        BY <1>1 DEF UpdatedRow
    <2> HIDE DEF a, b
    <2> QED
        BY <1>2, <2>1
<1>4. NewRows(db, s) = [k \in Matching(db, s) |-> assign(TableIn(db, s), b, db[k])]
    BY DEF NewRows
<1> HIDE DEF b
<1>5. UpdatedRow(t) = NewRows(db, s)[x] /\ DOMAIN NewRows(db, s) = Matching(db, s)
    BY <1>1, <1>3, <1>4
<1>6. NewKey(t) = NewKeys(db, s)[x]
    <2>1. NewKeys(db, s)[x] = rowKey(s.name, PrimaryKeyValue(TableIn(db, s), NewRows(db, s)[x]))
        BY <1>5 DEF NewKeys
    <2> QED
        BY <1>1, <1>5, <2>1 DEF NewKey
<1>7. UpdatedRow(t) \in Seq(SQLValue)
    BY UpdatedRowIs
<1>8. JSONRow(UpdatedRow(t)) = UpdatedRow(t) /\ NewKey(t) \in Key
    BY <1>1, <1>7, StoredIs DEF NewKey
<1> QED
    BY <1>5, <1>6, <1>7, <1>8

-----------------------------------------------------------------------------
(***************************************************************************)
(* The steps of the executions, once more.                                 *)
(***************************************************************************)
\* The executions that a step leaves alone.
LEMMA ProgressSame ==
    ASSUME NEW u \in Txn, Progress(u),
           /\ step'[u] = step[u] /\ statement'[u] = statement[u] /\ result'[u] = result[u]
           /\ rest'[u] = rest[u] /\ writes'[u] = writes[u] /\ snapshot'[u] = snapshot[u]
    PROVE  Progress(u)'
<1>1. Count(u)' = Count(u)
    BY DEF Count
<1>2. InsertProgress(u) => InsertProgress(u)'
    BY <1>1 DEF InsertProgress
<1>3. ASSUME NEW m, NEW f PROVE Listed(u, m, f) => Listed(u, m, f)'
    BY <1>1 DEF Listed
<1>4. ASSUME NEW m, NEW f PROVE DeleteProgress(u, m, f) => DeleteProgress(u, m, f)'
    BY <1>1, <1>3 DEF DeleteProgress
<1>5. ASSUME NEW m, NEW f PROVE UpdateProgress(u, m, f, Count(u)) => UpdateProgress(u, m, f, Count(u))'
    BY <1>1, <1>3 DEF UpdateProgress
<1>6. ASSUME NEW m, NEW f PROVE Moving(u, m, f) => Moving(u, m, f)'
    <2>1. UpdateProgress(u, m, f, Count(u) + 1) => UpdateProgress(u, m, f, Count(u) + 1)'
        BY <1>1, <1>3 DEF UpdateProgress
    <2> QED
        BY <1>1, <2>1 DEF Moving, DB!Read
<1>7. TakesEffectWhole(u) /\ Describes(u) => TakesEffectWhole(u)' /\ Describes(u)'
    BY <1>1, ZenonT(30) DEF TakesEffectWhole, Describes, DB!Read
<1>8. writes[u] = DB!NoWrites => writes'[u] = DB!NoWrites'
    BY DEF DB!NoWrites
<1> QED
    BY <1>1, <1>2, <1>4, <1>5, <1>6, <1>7, <1>8 DEF Progress

Wrote(t, k, value) == writes'[t] = [writes[t] EXCEPT ![k] = value] /\ UNCHANGED snapshot

LEMMA WriteIs ==
    ASSUME Inv, NEW t \in Txn, NEW k, NEW value, DB!Write(t, k, value)
    PROVE  /\ Wrote(t, k, value)
           /\ \A u \in Txn \ {t} : writes'[u] = writes[u]
<1>1. writes = [u \in Txn |-> writes[u]] /\ IsContents(writes[t], {Nil, NoWrite})
    BY DEF Inv, DBInv, TypeDB
<1>2. writes' = [writes EXCEPT ![t] = [@ EXCEPT ![k] = value]] /\ UNCHANGED snapshot
    BY DEF DB!Write
<1> QED
    BY <1>1, <1>2 DEF Wrote

LEMMA StepIs ==
    ASSUME Inv, NEW t \in Txn, NEW next, step' = [step EXCEPT ![t] = next]
    PROVE  step'[t] = next /\ \A u \in Txn \ {t} : step'[u] = step[u]
BY DEF Inv, SessionInv, TypeSession

\* Nothing has been written yet.
LEMMA AppliedNothing ==
    ASSUME NEW db, NEW N, NEW R, NEW O
    PROVE  Applied(DB!NoWrites, db, N, R, 0, O, 0)
<1>1. 1..0 = {}
    OBVIOUS
<1> QED
    BY <1>1, NothingIs DEF Applied

LEMMA CreateTableProgress ==
    ASSUME Inv, Exact, NEW t \in Txn, Progress(t), CreateTable(t)
    PROVE  Progress(t)'
<1> DEFINE s == statement[t]
           db == snapshot[t]
           x == tableFromCreateStatement(s.definition)
           k == tableKey(x.name)
<1>1. /\ step[t] = "start" /\ s.op = "create" /\ CanCreateTable(t)
      /\ DB!Write(t, k, JSONTable(x)) /\ step' = [step EXCEPT ![t] = "done"]
      /\ UNCHANGED <<statement, rest, result>>
    BY DEF CreateTable, Goto
<1>2. /\ s \in Statement /\ writes[t] = DB!NoWrites /\ IsContents(db, {Nil})
    BY <1>1, RunningIs DEF Progress
<1>3. Validate(x) /\ DB!Read(t, k) = Nil
    BY <1>1 DEF CanCreateTable, GetTable
<1>4. JSONTable(x) = x /\ x \in Tables /\ x.name \in TableName /\ x.name = s.definition.name
    BY <1>1, <1>2, <1>3, CreateIs
<1>5. k \in Key /\ x # NoWrite
    BY <1>4, KeysDiffer, AbsentAssumption DEF Value
<1>6. db[k] = Nil
    BY <1>2, <1>3, <1>5, NothingIs DEF DB!Read
<1>7. step'[t] = "done" /\ writes'[t] = [writes[t] EXCEPT ![k] = x] /\ UNCHANGED snapshot
    <2>1. DB!Write(t, k, x)
        BY <1>1, <1>4
    <2> HIDE DEF k, x
    <2>2. Wrote(t, k, x)
        BY <2>1, WriteIs
    <2> QED
        BY <1>1, <2>2, StepIs DEF Wrote
<1>8. db = [j \in Key |-> db[j]]
    BY <1>2, ContentsIs
<1> HIDE DEF db, x, k
<1>9. Outcome(db, s) = [db EXCEPT ![k] = x]
    BY <1>1, <1>4 DEF Outcome, x, k
<1>10. ASSUME NEW j \in Key PROVE DB!Read(t, j)' = IF j = k THEN x ELSE db[j]
    <2>1. writes'[t][j] = IF j = k THEN x ELSE NoWrite
        BY <1>2, <1>5, <1>7, NothingIs DEF DB!NoWrites
    <2> QED
        BY <1>5, <1>7, <2>1 DEF DB!Read, db
<1>11. [j \in Key |-> DB!Read(t, j)'] = Outcome(db, s)
    BY <1>5, <1>8, <1>9, <1>10
<1>12. Allowed(db, s)
    BY <1>1, <1>4, <1>6 DEF Allowed, k
<1>13. TakesEffectWhole(t)'
    BY <1>1, <1>7, <1>11, <1>12 DEF TakesEffectWhole, db
<1>14. Describes(t)'
    BY <1>1 DEF Describes
<1> QED
    BY <1>7, <1>13, <1>14 DEF Progress

LEMMA StartRowsProgress ==
    ASSUME Inv, Exact, NEW t \in Txn, Progress(t), StartRows(t)
    PROVE  Progress(t)'
<1> DEFINE s == statement[t]
           db == snapshot[t]
<1>t. rest \in [Txn -> Seq(Seq(SQLValue))]
    BY DEF Inv, SessionInv, TypeSession
<1>1. /\ step[t] = "start" /\ s.op \in {"insert", "update", "delete"} /\ CanStart(t)
      /\ rest'[t] = IF s.op = "insert" THEN <<>> ELSE SourceRows(t)
      /\ step' = [step EXCEPT ![t] = "rows"]
      /\ UNCHANGED <<store, phase, snapshot, writes, stale, statement, result>>
    BY <1>t DEF StartRows, Goto
<1>2. s \in Statement /\ writes[t] = DB!NoWrites /\ Count(t) = 0
    BY <1>1, RunningIs DEF Progress
<1>3. step'[t] = "rows" /\ writes'[t] = DB!NoWrites /\ Count(t)' = 0
    BY <1>1, <1>2, StepIs DEF Count
<1>4. CASE s.op = "insert"
    <2>1. Len(s.values) \in Nat
        <3>1. IsStatement(s)
            BY <1>2, StatementAssumption
        <3>2. IsSequence(s.values)
            BY <1>4, <3>1 DEF IsStatement
        <3> QED
            BY <3>2, SequenceIs
    <2>2. Applied(DB!NoWrites, db, NewKeys(db, s), NewRows(db, s), 0, <<>>, 0)
        BY AppliedNothing
    <2>3. InsertProgress(t)'
        BY <1>1, <1>3, <2>1, <2>2 DEF InsertProgress
    <2> QED
        BY <1>1, <1>3, <1>4, <2>3 DEF Progress
<1>5. CASE s.op \in {"update", "delete"}
    <2>m. PICK m \in Nat : \E f :
            /\ Lists(f, m, Matching(db, s))
            /\ SourceRows(t) = [i \in 1..m |-> db[f[i]]]
        BY <1>1, <1>2, <1>5, SourceIs DEF CanStart
    <2>1. PICK f : /\ Lists(f, m, Matching(db, s))
                   /\ SourceRows(t) = [i \in 1..m |-> db[f[i]]]
        BY <2>m
    <2>2. Listed(t, m, f)'
        <3>1. m - 0 = m /\ 0 <= m /\ \A i \in 1..m : 0 + i = i
            BY <2>1
        <3>2. rest'[t] = [i \in 1..(m - 0) |-> db[f[0 + i]]]
            BY <1>1, <1>5, <2>1, <3>1
        <3> QED
            BY <1>1, <1>3, <2>1, <3>1, <3>2 DEF Listed
    <2>3. CASE s.op = "delete"
        <3>1. Applied(DB!NoWrites, db, <<>>, <<>>, 0, f, 0)
            BY AppliedNothing
        <3>2. DeleteProgress(t, m, f)'
            BY <1>1, <1>3, <2>2, <3>1 DEF DeleteProgress
        <3> QED
            BY <1>1, <1>3, <2>1, <2>3, <3>2 DEF Progress
    <2>4. CASE s.op = "update"
        <3> DEFINE N == [i \in 1..m |-> NewKeys(db, s)[f[i]]]
                   R == [i \in 1..m |-> NewRows(db, s)[f[i]]]
        <3>1. Applied(DB!NoWrites, db, N, R, 0, f, 0)
            <4> HIDE DEF N, R
            <4> QED
                BY AppliedNothing
        <3>2. UpdateProgress(t, m, f, Count(t))'
            <4>1. 0 <= m
                BY <2>1
            <4> QED
                BY <1>1, <1>3, <2>2, <3>1, <4>1 DEF UpdateProgress
        <3> QED
            BY <1>1, <1>3, <2>1, <2>4, <3>2 DEF Progress
    <2> QED
        BY <1>5, <2>3, <2>4
<1> QED
    BY <1>1, <1>4, <1>5

\* f lists a set: it has as many members as f is long.
LEMMA ListsCount ==
    ASSUME NEW m \in Nat, NEW f, NEW S, Lists(f, m, S)
    PROVE  Cardinality(S) = m
<1>1. f \in Bijection(1..m, S)
    BY DEF Lists, Bijection, Injection, Surjection, IsInjective
<1>2. IsFiniteSet(1..m) /\ Cardinality(1..m) = m
    BY FS_Interval
<1> QED
    BY <1>1, <1>2, FS_Bijection DEF ExistsBijection

LEMMA SelectProgress ==
    ASSUME Inv, Exact, NEW t \in Txn, Progress(t), Select(t)
    PROVE  Progress(t)'
<1> DEFINE s == statement[t]
           db == snapshot[t]
<1>t. result \in [Txn -> [rows : Seq(Seq(SQLValue)), count : Nat]]
    BY DEF Inv, SessionInv, TypeSession
<1>1. /\ step[t] = "start" /\ s.op = "select" /\ CanStart(t)
      /\ result'[t].rows = SourceRows(t) /\ step' = [step EXCEPT ![t] = "done"]
      /\ UNCHANGED <<store, phase, snapshot, writes, stale, statement, rest>>
    BY <1>t DEF Select, Goto
<1>2. /\ writes[t] = DB!NoWrites /\ IsContents(db, {Nil}) /\ step'[t] = "done"
      /\ TableOf(t) = TableIn(db, s)
    BY <1>1, RunningIs, TableOfIs, StepIs DEF Progress, SeenTable, TableIn
<1>m. PICK m \in Nat : \E f : Lists(f, m, Matching(db, s)) /\ SourceRows(t) = [i \in 1..m |-> db[f[i]]]
    BY <1>1, <1>2, SourceIs DEF CanStart
<1>3. PICK f : Lists(f, m, Matching(db, s)) /\ SourceRows(t) = [i \in 1..m |-> db[f[i]]]
    BY <1>m
<1>4. TakesEffectWhole(t)'
    <2>1. db = [k \in Key |-> db[k]]
        BY <1>2, ContentsIs
    <2>2. \A k \in Key : DB!Read(t, k)' = db[k]
        BY <1>1, <1>2, NothingIs DEF DB!Read
    <2>3. Outcome(db, s) = db /\ Allowed(db, s)
        BY <1>1, <1>2 DEF Outcome, Allowed, CanStart
    <2>4. [k \in Key |-> DB!Read(t, k)'] = Outcome(db, s)
        BY <2>1, <2>2, <2>3
    <2> QED
        BY <1>1, <2>3, <2>4 DEF TakesEffectWhole
<1>5. Describes(t)'
    <2> DEFINE rows == SourceRows(t)
               M == Matching(db, s)
    <2>1. Len(rows) = m /\ DOMAIN rows = 1..m /\ \A i \in 1..m : rows[i] = db[f[i]]
        <3> HIDE DEF rows
        <3> QED
            BY <1>3 DEF rows
    <2>2. Cardinality(M) = m
        BY <1>3, ListsCount
    <2>3. Range(rows) = {db[k] : k \in M}
        <3>1. /\ f \in [1..m -> M] /\ \A k \in M : \E i \in 1..m : f[i] = k
            BY <1>3 DEF Lists
        <3> HIDE DEF rows, M, db
        <3> QED
            BY <2>1, <3>1 DEF Range
    <2> QED
        BY <1>1, <2>1, <2>2, <2>3 DEF Describes
<1> QED
    BY <1>2, <1>4, <1>5 DEF Progress

LEMMA WritesAreFunction ==
    ASSUME Inv, NEW t \in Txn
    PROVE  writes[t] = [j \in Key |-> writes[t][j]]
<1>1. IsContents(writes[t], {Nil, NoWrite})
    BY DEF Inv, DBInv, TypeDB
<1> QED
    BY <1>1, ContentsIs

\* One more row has been dealt with.
LEMMA CountIs ==
    ASSUME Inv, NEW t \in Txn, RowDone(t)
    PROVE  /\ Count(t)' = Count(t) + 1
           /\ \A u \in Txn \ {t} : result'[u] = result[u]
<1>1. result \in [Txn -> [rows : Seq(Seq(SQLValue)), count : Nat]]
    BY DEF Inv, SessionInv, TypeSession
<1>2. PICK r \in [rows : Seq(Seq(SQLValue)), count : Nat] :
        r.count = result[t].count + 1 /\ result' = [result EXCEPT ![t] = r]
    BY RowDoneIs
<1> QED
    BY <1>1, <1>2 DEF Count

LEMMA CreateRowProgress ==
    ASSUME Inv, Exact, NEW t \in Txn, Progress(t), CreateRow(t)
    PROVE  Progress(t)'
<1> DEFINE s == statement[t]
           db == snapshot[t]
           N == NewKeys(db, s)
           R == NewRows(db, s)
           c == Count(t)
           x == InsertKey(t)
           row == InsertRow(t)
           w == writes[t]
<1>1. /\ step[t] = "rows" /\ s.op = "insert" /\ RowsLeft(t) /\ CanCreateRow(t)
      /\ DB!Write(t, x, JSONRow(row)) /\ RowDone(t) /\ UNCHANGED <<statement, step, rest>>
    BY DEF CreateRow
<1>2. InsertProgress(t)
    BY <1>1 DEF Progress
<1>3. c <= Len(s.values) /\ Applied(w, db, N, R, c, <<>>, 0)
    BY <1>2 DEF InsertProgress
<1>4. /\ c + 1 \in 1..Len(s.values) /\ row = R[c + 1] /\ x = N[c + 1]
      /\ x \in Key /\ row \in Seq(SQLValue) /\ JSONRow(row) = row
    BY <1>1, NextInsert
<1>5. DB!Read(t, x) = Nil
    BY <1>1 DEF CanCreateRow
<1>6. c \in Nat /\ w = [k \in Key |-> w[k]]
    BY <1>1, RunningIs, WritesAreFunction DEF Count
<1>7. Wrote(t, x, row)
    <2>1. DB!Write(t, x, row)
        BY <1>1, <1>4
    <2> HIDE DEF x, row
    <2> QED
        BY <2>1, WriteIs
<1>8. writes'[t] = [w EXCEPT ![x] = R[c + 1]] /\ UNCHANGED snapshot
    BY <1>4, <1>7 DEF Wrote
<1>9. (IF w[x] # NoWrite THEN w[x] ELSE db[x]) = Nil
    BY <1>5 DEF DB!Read
<1> HIDE DEF s, db, N, R, c, x, row, w
<1>10. Applied([w EXCEPT ![x] = R[c + 1]], db, N, R, c + 1, <<>>, 0)
    <2>1. N[c + 1] = x /\ R[c + 1] \in Seq(SQLValue)
        BY <1>4
    <2> QED
        BY <1>3, <1>4, <1>6, <1>9, <2>1, AppliedSet
<1>11. Count(t)' = c + 1
    BY <1>1, CountIs DEF c
<1>12. c + 1 <= Len(s.values)
    BY <1>4
<1>13. InsertProgress(t)'
    BY <1>1, <1>8, <1>10, <1>11, <1>12 DEF InsertProgress, s, db, N, R
<1>14. step'[t] = "rows" /\ statement'[t].op = "insert"
    BY <1>1 DEF s
<1> QED
    BY <1>13, <1>14 DEF Progress

\* The loops over the rows of a source.
LEMMA SourceStep ==
    ASSUME Inv, Exact, NEW t \in Txn, step[t] \in {"rows", "moving"}, statement[t].op \in {"update", "delete"},
           rest[t] # <<>>, NEW m \in Nat, NEW f, Listed(t, m, f), SourceRowDone(t),
           UNCHANGED <<snapshot, statement>>
    PROVE  Listed(t, m, f)' /\ Count(t)' = Count(t) + 1
<1>t. rest \in [Txn -> Seq(Seq(SQLValue))]
    BY DEF Inv, SessionInv, TypeSession
<1>1. RowDone(t) /\ rest'[t] = Tail(rest[t])
    BY <1>t DEF SourceRowDone
<1>2. Count(t)' = Count(t) + 1
    BY <1>1, CountIs
<1>3. /\ Count(t) + 1 \in 1..m
      /\ Tail(rest[t]) = [i \in 1..(m - (Count(t) + 1)) |-> snapshot[t][f[Count(t) + 1 + i]]]
    BY NextSource, SMTT(30)
<1>4. Lists(f, m, Matching(snapshot[t], statement[t])) /\ Count(t) + 1 <= m
    BY <1>3 DEF Listed
<1>5. Listed(t, m, f)'
    BY <1>1, <1>2, <1>3, <1>4 DEF Listed
<1> QED
    BY <1>2, <1>5

LEMMA DeleteRowProgress ==
    ASSUME Inv, Exact, NEW t \in Txn, Progress(t), DeleteRow(t)
    PROVE  Progress(t)'
<1> DEFINE s == statement[t]
           db == snapshot[t]
           c == Count(t)
           w == writes[t]
<1>1. /\ step[t] = "rows" /\ s.op = "delete" /\ rest[t] # <<>>
      /\ DB!Write(t, OldKey(t), Nil) /\ SourceRowDone(t) /\ UNCHANGED <<statement, step>>
    BY DEF DeleteRow, RowsLeft
<1>m. PICK m \in Nat : \E f : DeleteProgress(t, m, f)
    BY <1>1 DEF Progress
<1>2. PICK f : DeleteProgress(t, m, f)
    BY <1>m
<1>3. Listed(t, m, f) /\ Applied(w, db, <<>>, <<>>, 0, f, c)
    BY <1>2 DEF DeleteProgress
<1> DEFINE x == f[c + 1]
<1>4. /\ c \in Nat /\ x \in Key /\ db[x] # Nil /\ (\A j \in 1..c : f[j] # x) /\ OldKey(t) = x
    BY <1>1, <1>3, NextSource
<1>5. w = [k \in Key |-> w[k]]
    BY WritesAreFunction
<1>6. Wrote(t, x, Nil)
    <2>1. DB!Write(t, x, Nil)
        BY <1>1, <1>4
    <2> HIDE DEF x
    <2> QED
        BY <2>1, WriteIs
<1>7. writes'[t] = [w EXCEPT ![x] = Nil] /\ UNCHANGED snapshot
    BY <1>6 DEF Wrote
<1>8. Listed(t, m, f)' /\ Count(t)' = c + 1
    BY <1>1, <1>3, <1>7, SourceStep
<1>x. f[c + 1] = x
    OBVIOUS
<1> HIDE DEF db, c, w, x
<1>9. Applied([w EXCEPT ![x] = Nil], db, <<>>, <<>>, 0, f, c + 1)
    BY <1>3, <1>4, <1>5, <1>x, AppliedDelete
<1>10. DeleteProgress(t, m, f)'
    BY <1>7, <1>8, <1>9 DEF DeleteProgress, db
<1>11. step'[t] = "rows" /\ statement'[t].op = "delete"
    BY <1>1
<1> QED
    BY <1>2, <1>10, <1>11 DEF Progress

\* What the three steps of UPDATE have in common: the keys and rows of the
\* reference in the order of the source, and the next of them.
MovedKeys(t, m, f) == [i \in 1..m |-> NewKeys(snapshot[t], statement[t])[f[i]]]
MovedRows(t, m, f) == [i \in 1..m |-> NewRows(snapshot[t], statement[t])[f[i]]]

LEMMA UpdateStep ==
    ASSUME Inv, Exact, NEW t \in Txn, step[t] \in {"rows", "moving"}, statement[t].op = "update",
           rest[t] # <<>>, validateRow(TableOf(t), UpdatedRow(t)), NEW m \in Nat, NEW f, Listed(t, m, f)
    PROVE  /\ Count(t) \in Nat /\ Count(t) + 1 \in 1..m
           /\ NewKey(t) = MovedKeys(t, m, f)[Count(t) + 1] /\ NewKey(t) \in Key
           /\ NewKey(t) = NewKeys(snapshot[t], statement[t])[f[Count(t) + 1]]
           /\ UpdatedRow(t) = MovedRows(t, m, f)[Count(t) + 1] /\ UpdatedRow(t) \in Seq(SQLValue)
           /\ JSONRow(UpdatedRow(t)) = UpdatedRow(t)
           /\ OldKey(t) = f[Count(t) + 1] /\ OldKey(t) \in Key /\ snapshot[t][OldKey(t)] # Nil
           /\ \A j \in 1..Count(t) : f[j] # OldKey(t)
<1> DEFINE x == f[Count(t) + 1]
<1>1. /\ Count(t) \in Nat /\ Count(t) + 1 \in 1..m /\ x \in Matching(snapshot[t], statement[t])
      /\ x \in Key /\ snapshot[t][x] # Nil /\ (\A j \in 1..Count(t) : f[j] # x)
      /\ Head(rest[t]) = snapshot[t][x] /\ OldKey(t) = x
    BY NextSource
<1>x. x = f[Count(t) + 1]
    OBVIOUS
<1> HIDE DEF x
<1>2. /\ UpdatedRow(t) = NewRows(snapshot[t], statement[t])[x]
      /\ NewKey(t) = NewKeys(snapshot[t], statement[t])[x]
      /\ NewKey(t) \in Key /\ UpdatedRow(t) \in Seq(SQLValue) /\ JSONRow(UpdatedRow(t)) = UpdatedRow(t)
    BY <1>1, NextUpdate
<1>3. /\ MovedKeys(t, m, f)[Count(t) + 1] = NewKeys(snapshot[t], statement[t])[x]
      /\ MovedRows(t, m, f)[Count(t) + 1] = NewRows(snapshot[t], statement[t])[x]
    BY <1>1, <1>x DEF MovedKeys, MovedRows
<1> QED
    BY <1>1, <1>2, <1>3, <1>x

LEMMA UpdateRowProgress ==
    ASSUME Inv, Exact, NEW t \in Txn, Progress(t), UpdateRow(t)
    PROVE  Progress(t)'
<1> DEFINE s == statement[t]
           db == snapshot[t]
           c == Count(t)
           w == writes[t]
           x == NewKey(t)
           row == UpdatedRow(t)
<1>1. /\ step[t] = "rows" /\ s.op = "update" /\ rest[t] # <<>> /\ CanUpdateRow(t) /\ OldKey(t) = x
      /\ DB!Write(t, x, JSONRow(row)) /\ SourceRowDone(t) /\ UNCHANGED <<statement, step>>
    BY UpdatingIs DEF UpdateRow
<1>m. PICK m \in Nat : \E f : UpdateProgress(t, m, f, c)
    BY <1>1 DEF Progress
<1>2. PICK f : UpdateProgress(t, m, f, c)
    BY <1>m
<1> DEFINE N == MovedKeys(t, m, f)
           R == MovedRows(t, m, f)
<1>3. Listed(t, m, f) /\ Applied(w, db, N, R, c, f, c)
    BY <1>2 DEF UpdateProgress, MovedKeys, MovedRows
<1>4. /\ c \in Nat /\ c + 1 \in 1..m /\ x = N[c + 1] /\ x \in Key
      /\ row = R[c + 1] /\ row \in Seq(SQLValue) /\ JSONRow(row) = row
      /\ f[c + 1] = x /\ db[x] # Nil /\ \A j \in 1..c : f[j] # x
    BY <1>1, <1>3, UpdateStep DEF CanUpdateRow
<1>5. w = [k \in Key |-> w[k]]
    BY WritesAreFunction
<1>6. Wrote(t, x, row)
    <2>1. DB!Write(t, x, row)
        BY <1>1, <1>4
    <2> HIDE DEF x, row
    <2> QED
        BY <2>1, WriteIs
<1>7. writes'[t] = [w EXCEPT ![x] = R[c + 1]] /\ UNCHANGED snapshot
    BY <1>4, <1>6 DEF Wrote
<1>8. Listed(t, m, f)' /\ Count(t)' = c + 1
    BY <1>1, <1>3, <1>7, SourceStep
<1> HIDE DEF db, c, w, x, N, R, row
<1>9. Applied([w EXCEPT ![x] = R[c + 1]], db, N, R, c + 1, f, c + 1)
    <2>1. N[c + 1] = x /\ R[c + 1] \in Seq(SQLValue)
        BY <1>4
    <2> QED
        BY <1>3, <1>4, <1>5, <2>1, AppliedReplace
<1>10. UpdateProgress(t, m, f, Count(t))'
    <2>1. c + 1 <= m
        BY <1>4
    <2> QED
        BY <1>1, <1>7, <1>8, <1>9, <2>1 DEF UpdateProgress, db, N, R, MovedKeys, MovedRows
<1>11. step'[t] = "rows" /\ statement'[t].op = "update"
    BY <1>1
<1> QED
    BY <1>2, <1>10, <1>11 DEF Progress

LEMMA DeleteOldKeyProgress ==
    ASSUME Inv, Exact, NEW t \in Txn, Progress(t), DeleteOldKey(t)
    PROVE  Progress(t)'
<1> DEFINE s == statement[t]
           db == snapshot[t]
           c == Count(t)
           w == writes[t]
           x == OldKey(t)
           y == NewKey(t)
<1>1. /\ step[t] = "rows" /\ s.op = "update" /\ rest[t] # <<>> /\ CanUpdateRow(t) /\ x # y
      /\ DB!Write(t, x, Nil) /\ step' = [step EXCEPT ![t] = "moving"] /\ UNCHANGED <<statement, rest, result>>
    BY UpdatingIs DEF DeleteOldKey, Goto
<1>m. PICK m \in Nat : \E f : UpdateProgress(t, m, f, c)
    BY <1>1 DEF Progress
<1>2. PICK f : UpdateProgress(t, m, f, c)
    BY <1>m
<1> DEFINE N == MovedKeys(t, m, f)
           R == MovedRows(t, m, f)
<1>3. Listed(t, m, f) /\ Applied(w, db, N, R, c, f, c)
    BY <1>2 DEF UpdateProgress, MovedKeys, MovedRows
<1>4. /\ c \in Nat /\ c + 1 \in 1..m /\ y \in Key /\ y = NewKeys(db, s)[f[c + 1]]
      /\ f[c + 1] = x /\ x \in Key /\ db[x] # Nil /\ \A j \in 1..c : f[j] # x
    BY <1>1, <1>3, UpdateStep DEF CanUpdateRow
<1>5. w = [k \in Key |-> w[k]]
    BY WritesAreFunction
<1>6. Wrote(t, x, Nil)
    <2> HIDE DEF x
    <2> QED
        BY <1>1, WriteIs
<1>7. writes'[t] = [w EXCEPT ![x] = Nil] /\ UNCHANGED snapshot
    BY <1>6 DEF Wrote
<1>8. Listed(t, m, f)' /\ Count(t)' = c
    BY <1>1, <1>3, <1>7 DEF Listed, Count
<1>r. DB!Read(t, y) = Nil
    BY <1>1 DEF CanUpdateRow
<1>s. step'[t] = "moving"
    BY <1>1, StepIs
<1> HIDE DEF db, c, w, x, N, R, y
<1>9. Applied([w EXCEPT ![x] = Nil], db, N, R, c, f, c + 1)
    BY <1>3, <1>4, <1>5, AppliedDelete
<1>10. UpdateProgress(t, m, f, Count(t) + 1)'
    <2>1. c + 1 <= m
        BY <1>4
    <2> QED
        BY <1>1, <1>7, <1>8, <1>9, <2>1 DEF UpdateProgress, db, N, R, MovedKeys, MovedRows
<1>11. (IF writes'[t][y] # NoWrite THEN writes'[t][y] ELSE snapshot'[t][y]) = Nil
    <2>1. writes'[t][y] = w[y] /\ snapshot' = snapshot
        BY <1>1, <1>4, <1>5, <1>7
    <2> QED
        BY <1>r, <2>1 DEF DB!Read, w
<1>12. Moving(t, m, f)'
    <2>1. NewKeys(snapshot'[t], statement'[t])[f[Count(t)' + 1]] = y
        BY <1>1, <1>4, <1>7, <1>8 DEF db
    <2> QED
        BY <1>10, <1>11, <2>1 DEF Moving, DB!Read
<1> QED
    BY <1>2, <1>12, <1>s DEF Progress

LEMMA SetNewKeyProgress ==
    ASSUME Inv, Exact, NEW t \in Txn, Progress(t), SetNewKey(t)
    PROVE  Progress(t)'
<1> DEFINE s == statement[t]
           db == snapshot[t]
           c == Count(t)
           w == writes[t]
           x == NewKey(t)
           row == UpdatedRow(t)
<1>1. /\ step[t] = "moving" /\ DB!Write(t, x, JSONRow(row)) /\ SourceRowDone(t)
      /\ step' = [step EXCEPT ![t] = "rows"] /\ UNCHANGED statement
    BY DEF SetNewKey, Goto
<1>m. PICK m \in Nat : \E f : Moving(t, m, f)
    BY <1>1 DEF Progress
<1>2. PICK f : Moving(t, m, f)
    BY <1>m
<1> DEFINE N == MovedKeys(t, m, f)
           R == MovedRows(t, m, f)
<1>3. /\ Listed(t, m, f) /\ Applied(w, db, N, R, c, f, c + 1)
      /\ DB!Read(t, NewKeys(db, s)[f[c + 1]]) = Nil
    BY <1>2 DEF Moving, UpdateProgress, MovedKeys, MovedRows
<1>v. /\ s.op = "update" /\ rest[t] # <<>> /\ validateRow(SeenTable(t), AssignedRow(t))
    BY <1>1, RunningIs DEF LoopInv
<1>u. validateRow(TableOf(t), UpdatedRow(t))
    BY <1>1, <1>v, TableOfIs, UpdatedRowIs
<1>4. /\ c \in Nat /\ c + 1 \in 1..m /\ x = N[c + 1] /\ x \in Key
      /\ x = NewKeys(db, s)[f[c + 1]]
      /\ row = R[c + 1] /\ row \in Seq(SQLValue) /\ JSONRow(row) = row
    BY <1>1, <1>3, <1>u, <1>v, UpdateStep
<1>5. w = [k \in Key |-> w[k]]
    BY WritesAreFunction
<1>6. Wrote(t, x, row)
    <2>1. DB!Write(t, x, row)
        BY <1>1, <1>4
    <2> HIDE DEF x, row
    <2> QED
        BY <2>1, WriteIs
<1>7. writes'[t] = [w EXCEPT ![x] = R[c + 1]] /\ UNCHANGED snapshot
    BY <1>4, <1>6 DEF Wrote
<1>8. Listed(t, m, f)' /\ Count(t)' = c + 1
    BY <1>1, <1>3, <1>7, <1>v, SourceStep
<1>r. (IF w[x] # NoWrite THEN w[x] ELSE db[x]) = Nil
    BY <1>3, <1>4 DEF DB!Read
<1>s. step'[t] = "rows"
    BY <1>1, StepIs
<1> HIDE DEF db, c, w, x, N, R, row
<1>9. Applied([w EXCEPT ![x] = R[c + 1]], db, N, R, c + 1, f, c + 1)
    <2>1. N[c + 1] = x /\ R[c + 1] \in Seq(SQLValue)
        BY <1>4
    <2> QED
        BY <1>3, <1>4, <1>5, <1>r, <2>1, AppliedSet
<1>10. UpdateProgress(t, m, f, Count(t))'
    <2>1. c + 1 <= m
        BY <1>4
    <2> QED
        BY <1>1, <1>7, <1>8, <1>9, <2>1 DEF UpdateProgress, db, N, R, MovedKeys, MovedRows
<1> QED
    BY <1>1, <1>2, <1>10, <1>s, <1>v DEF Progress

-----------------------------------------------------------------------------
(***************************************************************************)
(* The end of the loops.                                                   *)
(***************************************************************************)
\* What the transaction reads once all of the new rows and old keys are done.
LEMMA AppliedReads ==
    ASSUME NEW w, NEW db, NEW N, NEW R, NEW c, NEW O, NEW g, Applied(w, db, N, R, c, O, g)
    PROVE  /\ \A i \in 1..c : (IF w[N[i]] # NoWrite THEN w[N[i]] ELSE db[N[i]]) = R[i]
           /\ \A k \in Key : (\A i \in 1..c : N[i] # k) =>
                (IF w[k] # NoWrite THEN w[k] ELSE db[k]) = IF \E j \in 1..g : O[j] = k THEN Nil ELSE db[k]
<1>1. NoWrite \notin Seq(SQLValue) /\ NoWrite # Nil
    BY AbsentAssumption DEF Value
<1> QED
    BY <1>1 DEF Applied

LEMMA InsertDone ==
    ASSUME Inv, Exact, NEW t \in Txn, step[t] = "rows", statement[t].op = "insert", InsertProgress(t),
           ~RowsLeft(t)
    PROVE  TakesEffectWhole(t) /\ Describes(t)
<1> DEFINE s == statement[t]
           db == snapshot[t]
           w == writes[t]
           n == Len(s.values)
           N == NewKeys(db, s)
           R == NewRows(db, s)
<1>1. /\ s \in Statement /\ result[t].count \in Nat /\ TableIn(db, s) # Nil
    BY RunningIs DEF LoopInv, SeenTable, TableIn
<1>2. n \in Nat
    <2>1. IsStatement(s)
        BY <1>1, StatementAssumption
    <2>2. IsSequence(s.values)
        BY <2>1 DEF IsStatement
    <2> QED
        BY <2>2, SequenceIs
<1>3. Count(t) = n
    BY <1>1, <1>2 DEF RowsLeft, InsertProgress, Count
<1>4. Applied(w, db, N, R, n, <<>>, 0)
    BY <1>3 DEF InsertProgress
<1>5. DOMAIN R = 1..n /\ DOMAIN N = 1..n
    BY DEF NewRows, NewKeys
<1>6. Describes(t)
    BY <1>3 DEF Describes, Count
<1>7. /\ \A i \in 1..n : N[i] \in Key /\ db[N[i]] = Nil
      /\ \A i, j \in 1..n : N[i] = N[j] => i = j
    <2>1. 1..0 = {}
        OBVIOUS
    <2> HIDE DEF N, R, n
    <2> QED
        BY <1>4, <2>1 DEF Applied
<1>8. /\ \A i \in 1..n : DB!Read(t, N[i]) = R[i]
      /\ \A k \in Key : (\A i \in 1..n : N[i] # k) => DB!Read(t, k) = db[k]
    <2>1. 1..0 = {}
        OBVIOUS
    <2>2. /\ \A i \in 1..n : (IF w[N[i]] # NoWrite THEN w[N[i]] ELSE db[N[i]]) = R[i]
          /\ \A k \in Key : (\A i \in 1..n : N[i] # k) =>
               (IF w[k] # NoWrite THEN w[k] ELSE db[k]) = IF \E j \in 1..0 : <<>>[j] = k THEN Nil ELSE db[k]
        <3> HIDE DEF N, R, n, w, db
        <3> QED
            BY <1>4, AppliedReads
    <2> HIDE DEF N, R, n
    <2> QED
        BY <2>1, <2>2 DEF DB!Read
<1>9. Allowed(db, s)
    <2>1. KeysAreFree(db, s)
        <3>1. Range(N) \cap RowsIn(db, s) = {}
            <4> HIDE DEF N, n
            <4> QED
                BY <1>5, <1>7 DEF Range, RowsIn
        <3>2. \A i, j \in DOMAIN N : N[i] = N[j] => i = j
            BY <1>5, <1>7
        <3> QED
            BY <3>1, <3>2 DEF KeysAreFree
    <2> QED
        BY <1>1, <2>1 DEF Allowed
<1>10. Outcome(db, s) = [k \in Key |-> IF k \in Range(N) THEN R[CHOOSE i \in DOMAIN R : N[i] = k] ELSE db[k]]
    BY DEF Outcome
<1>11. ASSUME NEW k \in Key
       PROVE  DB!Read(t, k) = IF k \in Range(N) THEN R[CHOOSE i \in DOMAIN R : N[i] = k] ELSE db[k]
    <2> HIDE DEF N, R, n
    <2>1. CASE k \in Range(N)
        <3>1. \E i \in DOMAIN R : N[i] = k
            BY <1>5, <2>1 DEF Range
        <3>2. PICK i \in DOMAIN R : N[i] = k /\ i = (CHOOSE j \in DOMAIN R : N[j] = k)
            BY <3>1
        <3> QED
            BY <1>5, <1>8, <2>1, <3>2
    <2>2. CASE k \notin Range(N)
        <3>1. \A i \in 1..n : N[i] # k
            BY <1>5, <2>2 DEF Range
        <3> QED
            BY <1>8, <2>2, <3>1
    <2> QED
        BY <2>1, <2>2
<1>12. TakesEffectWhole(t)
    <2> HIDE DEF N, R, n
    <2> QED
        BY <1>9, <1>10, <1>11 DEF TakesEffectWhole
<1> QED
    BY <1>6, <1>12

\* The source is exhausted.
LEMMA ListedDone ==
    ASSUME Inv, NEW t \in Txn, step[t] = "rows", rest[t] = <<>>, NEW m \in Nat, NEW f, Listed(t, m, f)
    PROVE  /\ Count(t) = m /\ Cardinality(Matching(snapshot[t], statement[t])) = m
           /\ f \in [1..m -> Matching(snapshot[t], statement[t])]
           /\ \A i, j \in 1..m : f[i] = f[j] => i = j
           /\ \A k \in Matching(snapshot[t], statement[t]) : \E i \in 1..m : f[i] = k
<1> DEFINE c == Count(t)
           n == m - c
<1>1. Lists(f, m, Matching(snapshot[t], statement[t])) /\ c <= m /\ c \in Nat
    BY RunningIs DEF Listed, Count
<1>2. rest[t] = [i \in 1..n |-> snapshot[t][f[c + i]]]
    BY DEF Listed
<1> HIDE DEF c
<1>3. n \in Nat
    BY <1>1
<1>4. n = 0
    <2> SUFFICES ASSUME 1 \in 1..n PROVE FALSE
        BY <1>3
    <2>1. DOMAIN rest[t] = 1..n
        <3> HIDE DEF n
        <3> QED
            BY <1>2
    <2>2. DOMAIN <<>> = {}
        OBVIOUS
    <2> HIDE DEF n
    <2> QED
        BY <2>1, <2>2
<1>5. c = m
    BY <1>1, <1>4
<1>6. Cardinality(Matching(snapshot[t], statement[t])) = m
    BY <1>1, ListsCount
<1> QED
    BY <1>1, <1>5, <1>6 DEF c, Lists

LEMMA DeleteDone ==
    ASSUME Inv, Exact, NEW t \in Txn, step[t] = "rows", statement[t].op = "delete",
           NEW m \in Nat, NEW f, DeleteProgress(t, m, f), rest[t] = <<>>
    PROVE  TakesEffectWhole(t) /\ Describes(t)
<1> DEFINE s == statement[t]
           db == snapshot[t]
           w == writes[t]
           M == Matching(db, s)
<1>1. Listed(t, m, f) /\ Applied(w, db, <<>>, <<>>, 0, f, Count(t))
    BY DEF DeleteProgress
<1>2. /\ Count(t) = m /\ Cardinality(M) = m /\ f \in [1..m -> M]
      /\ (\A i, j \in 1..m : f[i] = f[j] => i = j)
      /\ \A k \in M : \E i \in 1..m : f[i] = k
    BY <1>1, ListedDone, SMTT(30)
<1>3. TableIn(db, s) # Nil
    BY RunningIs DEF LoopInv, SeenTable, TableIn
<1>4. Describes(t)
    BY <1>2 DEF Describes, Count
<1>5. ASSUME NEW k \in Key PROVE DB!Read(t, k) = IF k \in M THEN Nil ELSE db[k]
    <2>1. 1..0 = {}
        OBVIOUS
    <2>2. \A j \in Key : (\A i \in 1..0 : <<>>[i] # j) =>
            (IF w[j] # NoWrite THEN w[j] ELSE db[j]) = IF \E i \in 1..m : f[i] = j THEN Nil ELSE db[j]
        <3> HIDE DEF w, db
        <3> QED
            BY <1>1, <1>2, AppliedReads
    <2>3. (IF w[k] # NoWrite THEN w[k] ELSE db[k]) = IF \E i \in 1..m : f[i] = k THEN Nil ELSE db[k]
        BY <2>1, <2>2
    <2>4. (\E i \in 1..m : f[i] = k) <=> k \in M
        <3> HIDE DEF M
        <3> QED
            BY <1>2
    <2> QED
        BY <2>3, <2>4 DEF DB!Read
<1>6. Outcome(db, s) = [k \in Key |-> IF k \in M THEN Nil ELSE db[k]] /\ Allowed(db, s)
    BY <1>3 DEF Outcome, Allowed
<1>7. TakesEffectWhole(t)
    <2> HIDE DEF M
    <2> QED
        BY <1>5, <1>6 DEF TakesEffectWhole
<1> QED
    BY <1>4, <1>7

LEMMA UpdateDone ==
    ASSUME Inv, Exact, NEW t \in Txn, step[t] = "rows", statement[t].op = "update",
           NEW m \in Nat, NEW f, UpdateProgress(t, m, f, Count(t)), rest[t] = <<>>
    PROVE  TakesEffectWhole(t) /\ Describes(t)
<1> DEFINE s == statement[t]
           db == snapshot[t]
           w == writes[t]
           M == Matching(db, s)
           N == MovedKeys(t, m, f)
           R == MovedRows(t, m, f)
           keys == NewKeys(db, s)
           rows == NewRows(db, s)
<1>1. Listed(t, m, f) /\ Applied(w, db, N, R, Count(t), f, Count(t))
    BY DEF UpdateProgress, MovedKeys, MovedRows
<1>2. /\ Count(t) = m /\ Cardinality(M) = m /\ f \in [1..m -> M]
      /\ (\A i, j \in 1..m : f[i] = f[j] => i = j)
      /\ \A k \in M : \E i \in 1..m : f[i] = k
    BY <1>1, ListedDone
<1>3. TableIn(db, s) # Nil
    BY RunningIs DEF LoopInv, SeenTable, TableIn
<1>4. Describes(t)
    BY <1>2 DEF Describes, Count
<1>5. DOMAIN rows = M /\ DOMAIN keys = M
    BY DEF NewRows, NewKeys
<1>6. \A i \in 1..m : N[i] = keys[f[i]] /\ R[i] = rows[f[i]]
    BY DEF MovedKeys, MovedRows
<1>7. Applied(w, db, N, R, m, f, m)
    BY <1>1, <1>2
<1>8. /\ \A i \in 1..m : N[i] \in Key /\ (db[N[i]] = Nil \/ \E j \in 1..m : f[j] = N[i])
      /\ \A i, j \in 1..m : N[i] = N[j] => i = j
    <2> HIDE DEF N, R
    <2> QED
        BY <1>7 DEF Applied
<1>9. /\ \A i \in 1..m : (IF w[N[i]] # NoWrite THEN w[N[i]] ELSE db[N[i]]) = R[i]
      /\ \A k \in Key : (\A i \in 1..m : N[i] # k) =>
           (IF w[k] # NoWrite THEN w[k] ELSE db[k]) = IF \E j \in 1..m : f[j] = k THEN Nil ELSE db[k]
    <2> HIDE DEF N, R, w, db
    <2> QED
        BY <1>7, AppliedReads
<1>o. Outcome(db, s) = [k \in Key |-> IF k \in Range(keys) THEN rows[CHOOSE i \in DOMAIN rows : keys[i] = k]
                                      ELSE IF k \in M THEN Nil ELSE db[k]]
    BY DEF Outcome
<1> HIDE DEF M, N, R, keys, rows
<1>10. ASSUME NEW a \in M, NEW b \in M, keys[a] = keys[b] PROVE a = b
    <2>1. PICK i \in 1..m : f[i] = a
        BY <1>2
    <2>2. PICK j \in 1..m : f[j] = b
        BY <1>2
    <2>3. N[i] = N[j]
        BY <1>6, <1>10, <2>1, <2>2
    <2> QED
        BY <1>8, <2>1, <2>2, <2>3
<1>11. Allowed(db, s)
    <2>1. ASSUME NEW k \in Range(keys), k \in RowsIn(db, s) \ M PROVE FALSE
        <3>1. PICK a \in M : keys[a] = k
            BY <1>5 DEF Range
        <3>2. PICK i \in 1..m : f[i] = a
            BY <1>2
        <3>3. db[k] = Nil \/ \E j \in 1..m : f[j] = k
            BY <1>6, <1>8, <3>1, <3>2
        <3> QED
            BY <1>2, <2>1, <3>3 DEF RowsIn
    <2>2. KeysAreFree(db, s)
        BY <1>5, <1>10, <2>1 DEF KeysAreFree, keys, M
    <2> QED
        BY <1>3, <2>2 DEF Allowed
<1>12. ASSUME NEW k \in Key
       PROVE  DB!Read(t, k) = IF k \in Range(keys) THEN rows[CHOOSE i \in DOMAIN rows : keys[i] = k]
                              ELSE IF k \in M THEN Nil ELSE db[k]
    <2>1. CASE k \in Range(keys)
        <3>1. \E i \in DOMAIN rows : keys[i] = k
            BY <1>5, <2>1 DEF Range
        <3>2. PICK a \in DOMAIN rows : keys[a] = k /\ a = (CHOOSE i \in DOMAIN rows : keys[i] = k)
            BY <3>1
        <3>3. PICK i \in 1..m : f[i] = a
            BY <1>2, <1>5, <3>2
        <3>4. N[i] = k /\ R[i] = rows[a]
            BY <1>6, <3>2, <3>3
        <3>5. DB!Read(t, k) = rows[a]
            BY <1>9, <3>4 DEF DB!Read
        <3> QED
            BY <2>1, <3>2, <3>5
    <2>2. CASE k \notin Range(keys)
        <3>1. ASSUME NEW i \in 1..m PROVE N[i] # k
            <4>1. f[i] \in M
                BY <1>2
            <4> QED
                BY <1>5, <1>6, <2>2, <4>1 DEF Range
        <3>2. (\E j \in 1..m : f[j] = k) <=> k \in M
            BY <1>2
        <3>3. DB!Read(t, k) = IF k \in M THEN Nil ELSE db[k]
            BY <1>9, <3>1, <3>2 DEF DB!Read
        <3> QED
            BY <2>2, <3>3
    <2> QED
        BY <2>1, <2>2
<1>13. TakesEffectWhole(t)
    BY <1>o, <1>11, <1>12 DEF TakesEffectWhole
<1> QED
    BY <1>4, <1>13

LEMMA RowsDoneProgress ==
    ASSUME Inv, Exact, NEW t \in Txn, Progress(t), RowsDone(t)
    PROVE  Progress(t)'
<1>1. /\ step[t] = "rows" /\ ~RowsLeft(t) /\ step' = [step EXCEPT ![t] = "done"]
      /\ UNCHANGED <<snapshot, writes, statement, rest, result>>
    BY DEF RowsDone, Goto
<1>2. statement[t].op \in {"insert", "update", "delete"} /\ step'[t] = "done"
    BY <1>1, RunningIs, StepIs DEF LoopInv
<1>3. TakesEffectWhole(t) /\ Describes(t)
    <2>1. CASE statement[t].op = "insert"
        <3>1. InsertProgress(t)
            BY <1>1, <2>1 DEF Progress
        <3> QED
            BY <1>1, <2>1, <3>1, InsertDone
    <2>2. CASE statement[t].op = "update"
        <3>m. PICK m \in Nat : \E f : UpdateProgress(t, m, f, Count(t))
            BY <1>1, <2>2 DEF Progress
        <3>1. PICK f : UpdateProgress(t, m, f, Count(t))
            BY <3>m
        <3>2. rest[t] = <<>>
            BY <1>1, <2>2 DEF RowsLeft
        <3> QED
            BY <1>1, <2>2, <3>1, <3>2, UpdateDone
    <2>3. CASE statement[t].op = "delete"
        <3>m. PICK m \in Nat : \E f : DeleteProgress(t, m, f)
            BY <1>1, <2>3 DEF Progress
        <3>1. PICK f : DeleteProgress(t, m, f)
            BY <3>m
        <3>2. rest[t] = <<>>
            BY <1>1, <2>3 DEF RowsLeft
        <3> QED
            BY <1>1, <2>3, <3>1, <3>2, DeleteDone
    <2> QED
        BY <1>2, <2>1, <2>2, <2>3
<1>4. TakesEffectWhole(t)' /\ Describes(t)'
    BY <1>1, <1>3 DEF TakesEffectWhole, Describes, DB!Read
<1> QED
    BY <1>2, <1>4 DEF Progress

-----------------------------------------------------------------------------
(***************************************************************************)
(* All executions together.                                                *)
(***************************************************************************)
Untouched(u) ==
    /\ step'[u] = step[u] /\ statement'[u] = statement[u] /\ result'[u] = result[u]
    /\ rest'[u] = rest[u] /\ writes'[u] = writes[u] /\ snapshot'[u] = snapshot[u]

\* A step of one execution leaves the others alone.
LEMMA OthersUntouched ==
    ASSUME Inv, NEW t \in Txn,
           \/ \E s \in Statement : Begin(t, s)
           \/ Proceed(t) \/ StorageFails(t) \/ CommitFails(t)
    PROVE  \A u \in Txn \ {t} : Untouched(u)
<1>t. /\ writes = [u \in Txn |-> writes[u]] /\ snapshot = [u \in Txn |-> snapshot[u]]
      /\ step \in [Txn -> Step] /\ rest \in [Txn -> Seq(Seq(SQLValue))]
      /\ statement = [u \in Txn |-> statement[u]] /\ result = [u \in Txn |-> result[u]]
    BY DEF Inv, DBInv, TypeDB, SessionInv, TypeSession
<1> SUFFICES ASSUME NEW u \in Txn, u # t PROVE Untouched(u)
    OBVIOUS
<1>d. ASSUME NEW k, NEW value, DB!Write(t, k, value) PROVE writes'[u] = writes[u] /\ snapshot'[u] = snapshot[u]
    BY <1>d, <1>t DEF DB!Write
<1>c. DB!Commit(t) \/ DB!Abort({t}) \/ DB!Begin(t) => writes'[u] = writes[u] /\ snapshot'[u] = snapshot[u]
    BY <1>t DEF DB!Commit, DB!Abort, DB!Begin
<1>g. ASSUME NEW next, Goto(t, next) PROVE step'[u] = step[u]
    BY <1>g, <1>t DEF Goto
<1>r. RowDone(t) => result'[u] = result[u]
    BY CountIs
<1>s. SourceRowDone(t) => result'[u] = result[u] /\ rest'[u] = rest[u]
    BY <1>r, <1>t DEF SourceRowDone
<1>1. ASSUME NEW s \in Statement, Begin(t, s) PROVE Untouched(u)
    BY <1>1, <1>c, <1>g, <1>t DEF Begin, Untouched
<1>2. CreateTable(t) => Untouched(u)
    BY <1>d, <1>g DEF CreateTable, Untouched
<1>3. StartRows(t) \/ Select(t) => Untouched(u)
    BY <1>g, <1>t DEF StartRows, Select, Untouched
<1>4. CreateRow(t) \/ DeleteOldKey(t) => Untouched(u)
    BY <1>d, <1>g, <1>r DEF CreateRow, DeleteOldKey, Untouched
<1>5. UpdateRow(t) \/ DeleteRow(t) \/ SetNewKey(t) => Untouched(u)
    BY <1>d, <1>g, <1>s DEF UpdateRow, DeleteRow, SetNewKey, Untouched
<1>6. RowsDone(t) \/ Fails(t) \/ StorageFails(t) => Untouched(u)
    BY <1>g DEF RowsDone, Fails, StorageFails, Untouched
<1>7. Commit(t) \/ Rollback(t) \/ CommitFails(t) => Untouched(u)
    BY <1>c, <1>g DEF Commit, Rollback, CommitFails, GiveUp, Untouched
<1> QED
    BY <1>1, <1>2, <1>3, <1>4, <1>5, <1>6, <1>7 DEF Proceed

LEMMA BeginProgress ==
    ASSUME Inv, NEW t \in Txn, Progress(t), NEW s \in Statement, Begin(t, s)
    PROVE  Progress(t)'
<1>1. /\ step[t] = "idle" /\ step' = [step EXCEPT ![t] = "start"] /\ UNCHANGED <<writes, result>>
    BY DEF Begin, Goto, DB!Begin
<1>2. step'[t] = "start"
    BY <1>1, StepIs
<1>3. Count(t)' = 0 /\ writes'[t] = DB!NoWrites'
    BY <1>1 DEF Progress, Count, DB!NoWrites
<1> QED
    BY <1>2, <1>3 DEF Progress

\* An execution that has failed or ended.
LEMMA OverProgress ==
    ASSUME Inv, NEW t \in Txn, NEW next \in {"error", "ended"}, Goto(t, next)
    PROVE  Progress(t)'
<1>1. step'[t] = next
    BY StepIs DEF Goto
<1> QED
    BY <1>1 DEF Progress

LEMMA ProceedProgress ==
    ASSUME Inv, Exact, NEW t \in Txn, Progress(t), Proceed(t)
    PROVE  Progress(t)'
<1>1. CASE CreateTable(t)
    BY <1>1, CreateTableProgress
<1>2. CASE StartRows(t)
    BY <1>2, StartRowsProgress
<1>3. CASE Select(t)
    BY <1>3, SelectProgress
<1>4. CASE CreateRow(t)
    BY <1>4, CreateRowProgress
<1>5. CASE UpdateRow(t)
    BY <1>5, UpdateRowProgress
<1>6. CASE DeleteOldKey(t)
    BY <1>6, DeleteOldKeyProgress
<1>7. CASE SetNewKey(t)
    BY <1>7, SetNewKeyProgress
<1>8. CASE DeleteRow(t)
    BY <1>8, DeleteRowProgress
<1>9. CASE RowsDone(t)
    BY <1>9, RowsDoneProgress
<1>10. CASE Fails(t) \/ Commit(t) \/ Rollback(t)
    BY <1>10, OverProgress DEF Fails, Commit, Rollback, GiveUp
<1> QED
    BY <1>1, <1>2, <1>3, <1>4, <1>5, <1>6, <1>7, <1>8, <1>9, <1>10 DEF Proceed

LEMMA CrashProgress ==
    ASSUME Inv, EffectInv, Crash, NEW u \in Txn
    PROVE  Progress(u)'
<1>1. /\ DB!Abort(Running) /\ step' = [t \in Txn |-> IF t \in Running THEN "ended" ELSE step[t]]
      /\ UNCHANGED <<statement, rest, result>>
    BY DEF Crash
<1>2. CASE u \in Running
    <2>1. step'[u] = "ended"
        BY <1>1, <1>2
    <2> QED
        BY <2>1 DEF Progress
<1>3. CASE u \notin Running
    <2>1. step'[u] = step[u] /\ writes'[u] = writes[u] /\ snapshot'[u] = snapshot[u]
        BY <1>1, <1>3 DEF DB!Abort
    <2>2. Progress(u)
        BY DEF EffectInv
    <2> QED
        BY <1>1, <2>1, <2>2, ProgressSame
<1> QED
    BY <1>2, <1>3

LEMMA EffectInit == Init => EffectInv
<1> SUFFICES ASSUME Init, NEW t \in Txn PROVE Progress(t)
    BY DEF EffectInv
<1>1. step[t] = "idle" /\ result[t].count = 0 /\ writes[t] = DB!NoWrites
    BY DEF Init, DB!Init
<1> QED
    BY <1>1 DEF Progress, Count

LEMMA EffectNext ==
    ASSUME Exact
    PROVE  Inv /\ EffectInv /\ [Next]_vars => EffectInv'
<1> SUFFICES ASSUME Inv, EffectInv, [Next]_vars, NEW u \in Txn PROVE Progress(u)'
    BY DEF EffectInv
<1>0. Progress(u)
    BY DEF EffectInv
<1>1. CASE UNCHANGED vars
    BY <1>0, <1>1, ProgressSame DEF vars
<1>2. ASSUME NEW t \in Txn,
             (\E s \in Statement : Begin(t, s)) \/ Proceed(t) \/ StorageFails(t) \/ CommitFails(t)
      PROVE  Progress(u)'
    <2>1. CASE u # t
        <3>1. Untouched(u)
            BY <1>2, <2>1, OthersUntouched
        <3> QED
            BY <1>0, <3>1, ProgressSame DEF Untouched
    <2>2. CASE u = t
        <3>1. ASSUME NEW s \in Statement, Begin(t, s) PROVE Progress(t)'
            BY <1>0, <2>2, <3>1, BeginProgress
        <3>2. CASE Proceed(t)
            BY <1>0, <2>2, <3>2, ProceedProgress
        <3>3. CASE StorageFails(t) \/ CommitFails(t)
            <4>1. Progress(t)'
                BY <3>3, OverProgress DEF StorageFails, CommitFails, GiveUp
            <4> QED
                BY <2>2, <4>1
        <3> QED
            BY <1>2, <2>2, <3>1, <3>2, <3>3
    <2> QED
        BY <2>1, <2>2
<1>3. CASE Crash
    BY <1>3, CrashProgress
<1> QED
    BY <1>1, <1>2, <1>3 DEF Next

\* The writes of every statement are at any moment the part of its effect
\* that its loop has got to, as long as every string is valid UTF-8.
THEOREM EffectInvariance ==
    ASSUME Exact
    PROVE  Spec => [](Inv /\ EffectInv)
<1>1. Init => Inv /\ EffectInv
    BY InvInit, EffectInit
<1>2. Inv /\ EffectInv /\ [Next]_vars => (Inv /\ EffectInv)'
    BY InvNext, EffectNext
<1> QED
    BY <1>1, <1>2, PTL DEF Spec

\* A statement that is about to commit has done to its snapshot exactly what
\* it means, although it wrote its rows one at a time between those of the
\* others, for every schema, every data and any number of statements
\* (executor.go: Insert, Update, Delete; kv.go: CreateRow, UpdateRow).
THEOREM StatementTakesEffectWholeAlways ==
    ASSUME Exact
    PROVE  Spec => []StatementTakesEffectWhole
<1>1. EffectInv => StatementTakesEffectWhole
    BY DEF EffectInv, Progress, TakesEffectWhole, StatementTakesEffectWhole
<1> QED
    BY <1>1, EffectInvariance, PTL

\* The rows and the count a client gets are those of the rows of the snapshot
\* that satisfy WHERE (filter.go, expression.go, executor.go).
THEOREM ResultsDescribeSnapshotAlways ==
    ASSUME Exact
    PROVE  Spec => []ResultsDescribeSnapshot
<1>1. EffectInv => ResultsDescribeSnapshot
    BY DEF EffectInv, Progress, Describes, ResultsDescribeSnapshot
<1> QED
    BY <1>1, EffectInvariance, PTL

=============================================================================
