------------------------------- MODULE Session -------------------------------
(***************************************************************************)
(* SQL statements over the transaction layer: engine.Session.Execute, the  *)
(* writing executors of executor/executor.go and the KVTransaction of      *)
(* engine/kv.go.  The store underneath is module SnapshotIsolation, which  *)
(* module MVCCRefinement shows the MVCC layer to implement.                *)
(*                                                                         *)
(* Execute runs one statement in one transaction.  Between two calls of    *)
(* the transaction other sessions run, so every write is an action of its  *)
(* own.  A read returns the same whenever it happens (the snapshot does    *)
(* not move), so the reads that lead up to a write are part of its action. *)
(* Any call can also fail with a storage error.                            *)
(***************************************************************************)
EXTENDS Tables

CONSTANTS
    Txn,          \* the executions of statements, in no particular order
    TableName,
    SQLValue,     \* the values in statements, and what JSON makes of them
    Statement,    \* what clients may ask for
    NoStatement,  \* the execution has not begun
    NoFilter,     \* the statement has no WHERE
    Nil,          \* the key has no value
    NoWrite,      \* the transaction has not written the key
    MaxSessions   \* bound: statements that run at the same time

VARIABLES
    store, phase, snapshot, writes, stale,  \* those of SnapshotIsolation
    statement,  \* the statement each execution runs
    step,       \* where it is in Execute
    rest,       \* the rows of its source it has not yet dealt with
    result      \* the rows it returns and the number of rows it has written

vars == <<store, phase, snapshot, writes, stale, statement, step, rest, result>>

(***************************************************************************)
(* The keys of kv.go, without their bytes: tables and rows have name       *)
(* spaces of their own, a row has the table's name and the primary key.    *)
(***************************************************************************)
tableKey(name) == <<"table", name>>
rowKey(name, primaryKey) == <<"row", name, primaryKey>>

Key ==
    {tableKey(name) : name \in TableName} \cup
    {rowKey(name, v) : name \in TableName, v \in SQLValue}

\* What a column, a row and a table have become once they are stored: JSON.
JSONColumn(c) ==
    [name |-> c.name, dataType |-> c.dataType, primaryKey |-> c.primaryKey,
     nullable |-> c.nullable, default |-> IF c.default = Unset THEN Unset ELSE JSON(c.default)]

JSONTable(table) ==
    [name |-> table.name,
     columns |-> [i \in 1..Len(table.columns) |-> JSONColumn(table.columns[i])]]

JSONRow(row) == [i \in 1..Len(row) |-> JSON(row[i])]

\* The tables that can be stored.
Tables ==
    {JSONTable(table) : table \in
        {x \in {tableFromCreateStatement(s.definition) : s \in {y \in Statement : y.op = "create"}} :
            Validate(x)}}

Value == Tables \cup Seq(SQLValue)

(***************************************************************************)
(* What the parser returns.  An operand is a literal, whose value is in    *)
(* SQLValue, or no constant.                                               *)
(***************************************************************************)
IsSequence(s) == s \in Seq(Range(s))

IsOperand(e) == ValueFromExpression(e) \in SQLValue \cup {EvaluationError}

\* A side of a comparison.
IsTerm(e) ==
    \/ e[1] = "literal" /\ e[2] \in SQLValue
    \/ e[1] \in {"column", "function"}

IsFilter(p) == p # NoFilter => p.operation \in {"=", "<", ">"} /\ IsTerm(p.left) /\ IsTerm(p.right)

IsColumnDefinition(c) ==
    /\ c.dataType \in DataType
    /\ c.primaryKey \in BOOLEAN
    /\ c.nullable \in BOOLEAN \cup {Unset}
    /\ c.default # Unset => IsOperand(c.default)

IsStatement(s) ==
    CASE s.op = "create" ->
            /\ s.definition.name \in TableName
            /\ IsSequence(s.definition.columns)
            /\ \A c \in Range(s.definition.columns) : IsColumnDefinition(c)
      [] s.op = "insert" ->
            /\ s.name \in TableName
            /\ IsSequence(s.values)
            /\ \A row \in Range(s.values) : IsSequence(row) /\ \A e \in Range(row) : IsOperand(e)
      [] s.op = "update" ->
            /\ s.name \in TableName /\ IsFilter(s.filter)
            /\ \A c \in DOMAIN s.assignments : IsOperand(s.assignments[c])
      [] s.op \in {"delete", "select"} -> s.name \in TableName /\ IsFilter(s.filter)
      [] OTHER -> FALSE

ASSUME StatementAssumption == \A s \in Statement : IsStatement(s)

ASSUME SQLValueAssumption ==
    /\ IsFiniteSet(SQLValue) /\ Null \in SQLValue
    /\ \A v \in SQLValue : v \in [kind : ValueKind, n : Nat] /\ JSON(v) \in SQLValue

\* The names of what is absent are no statements, values or writes.
ASSUME AbsentAssumption ==
    NoStatement \notin Statement /\ Nil \notin Value /\ NoWrite \notin Value \cup {Nil}

DB == INSTANCE SnapshotIsolation

(***************************************************************************)
(* "start": Begin has returned.  "rows": in the loop over the rows.        *)
(* "moving": UpdateRow has deleted the old key of a row and not yet set    *)
(* the new one.  "done": Execute of the executor has returned.  "error":   *)
(* it has returned an error.  "ended": Session.Execute has returned.       *)
(***************************************************************************)
Step == {"idle", "start", "rows", "moving", "done", "error", "ended"}

\* Tables under the keys of tables, rows under the keys of rows, or nothing.
IsContents(d, nothing) ==
    /\ d = [k \in Key |-> d[k]]
    /\ \A name \in TableName : d[tableKey(name)] \in Tables \cup nothing
    /\ \A name \in TableName, v \in SQLValue : d[rowKey(name, v)] \in Seq(SQLValue) \cup nothing

TypeOK ==
    /\ IsContents(store, {Nil})
    /\ phase \in [Txn -> {"idle", "running", "committed", "aborted"}]
    /\ snapshot = [t \in Txn |-> snapshot[t]] /\ \A t \in Txn : IsContents(snapshot[t], {Nil})
    /\ writes = [t \in Txn |-> writes[t]] /\ \A t \in Txn : IsContents(writes[t], {Nil, NoWrite})
    /\ stale \in [Txn -> SUBSET Key]
    /\ statement \in [Txn -> Statement \cup {NoStatement}]
    /\ step \in [Txn -> Step]
    /\ rest \in [Txn -> Seq(Seq(SQLValue))]
    /\ result \in [Txn -> [rows : Seq(Seq(SQLValue)), count : Nat]]
    /\ \A t \in Txn : statement[t] = NoStatement <=> step[t] = "idle"
    /\ \A t \in Txn : DB!Running(t) <=> step[t] \notin {"idle", "ended"}

Init ==
    /\ DB!Init
    /\ statement = [t \in Txn |-> NoStatement]
    /\ step = [t \in Txn |-> "idle"]
    /\ rest = [t \in Txn |-> <<>>]
    /\ result = [t \in Txn |-> [rows |-> <<>>, count |-> 0]]

Running == {t \in Txn : DB!Running(t)}

-----------------------------------------------------------------------------
(***************************************************************************)
(* Reading: tables and rows as a transaction sees them.                    *)
(***************************************************************************)
GetTable(t, name) == DB!Read(t, tableKey(name))

TableOf(t) == GetTable(t, statement[t].name)

\* A scan hands out the rows in the order of their encoded primary keys, which
\* for the values of one type is the order of the values.
InScanOrder(keys) ==
    CHOOSE s \in [1..Cardinality(keys) -> keys] :
        \A i, j \in 1..Cardinality(keys) : i < j => s[i] # s[j] /\ s[i].n <= s[j].n

ScanTable(t, name) ==
    LET ordered == InScanOrder({v \in SQLValue : DB!Read(t, rowKey(name, v)) # Nil})
    IN  [i \in 1..Len(ordered) |-> DB!Read(t, rowKey(name, ordered[i]))]

\* ScanExecutor below a FilterExecutor, if the statement has a WHERE.
SourceRows(t) ==
    LET rows == ScanTable(t, statement[t].name)
    IN  IF statement[t].filter = NoFilter THEN rows
        ELSE FilterRows(statement[t].filter, columnNames(TableOf(t)), rows)

SourceFails(t) ==
    /\ statement[t].filter # NoFilter
    /\ FilterFails(statement[t].filter, columnNames(TableOf(t)), ScanTable(t, statement[t].name))

-----------------------------------------------------------------------------
(***************************************************************************)
(* Writing: MVCCTransaction.write refuses a key that a concurrent          *)
(* transaction has written.                                                *)
(***************************************************************************)
Conflict(t, k) == k \in stale[t] \/ \E u \in Txn \ {t} : k \in DB!KeysWritten(u)

Goto(t, next) == step' = [step EXCEPT ![t] = next]

RowDone(t) ==
    result' = [result EXCEPT ![t] = [rows |-> @.rows, count |-> @.count + 1]]

SourceRowDone(t) == RowDone(t) /\ rest' = [rest EXCEPT ![t] = Tail(@)]

\* Is the executor's loop over its rows not finished?
RowsLeft(t) ==
    IF statement[t].op = "insert" THEN result[t].count < Len(statement[t].values)
    ELSE rest[t] # <<>>

-----------------------------------------------------------------------------
(***************************************************************************)
(* Session.Execute: parse, plan, begin.                                    *)
(***************************************************************************)
Begin(t, s) ==
    /\ step[t] = "idle"
    /\ Cardinality(Running) < MaxSessions
    /\ DB!Begin(t)
    /\ statement' = [statement EXCEPT ![t] = s]
    /\ Goto(t, "start")
    /\ UNCHANGED <<rest, result>>

\* Mutant: a table that exists is replaced.
CanCreateTable_replace(t) == Validate(tableFromCreateStatement(statement[t].definition))

\* KVTransaction.CreateTable: the table is valid and not there yet.
CanCreateTable(t) ==
    LET table == tableFromCreateStatement(statement[t].definition)
    IN  Validate(table) /\ GetTable(t, table.name) = Nil

CreateTable(t) ==
    LET table == tableFromCreateStatement(statement[t].definition)
    IN  /\ step[t] = "start" /\ statement[t].op = "create"
        /\ CanCreateTable(t)
        /\ ~Conflict(t, tableKey(table.name))
        /\ DB!Write(t, tableKey(table.name), JSONTable(table))
        /\ Goto(t, "done")
        /\ UNCHANGED <<statement, rest, result>>

\* What the other executors check before their first row: the table, the
\* columns and values of SET, and the rows of the source.
CanStart(t) ==
    LET s == statement[t]
    IN  /\ TableOf(t) # Nil
        /\ s.op = "update" => \A c \in DOMAIN s.assignments :
                /\ ColumnIndex(TableOf(t), c) # 0
                /\ ValueFromExpression(s.assignments[c]) # EvaluationError
        /\ s.op # "insert" => ~SourceFails(t)

\* The rows of the source are all read before the first one is written.
StartRows(t) ==
    /\ step[t] = "start" /\ statement[t].op \in {"insert", "update", "delete"}
    /\ CanStart(t)
    /\ rest' = [rest EXCEPT ![t] =
                    IF statement[t].op = "insert" THEN <<>> ELSE SourceRows(t)]
    /\ Goto(t, "rows")
    /\ UNCHANGED <<store, phase, snapshot, writes, stale, statement, result>>

Select(t) ==
    /\ step[t] = "start" /\ statement[t].op = "select"
    /\ CanStart(t)
    /\ result' = [result EXCEPT ![t] = [rows |-> SourceRows(t), count |-> @.count]]
    /\ Goto(t, "done")
    /\ UNCHANGED <<store, phase, snapshot, writes, stale, statement, rest>>

-----------------------------------------------------------------------------
(***************************************************************************)
(* INSERT: one row of VALUES.                                              *)
(***************************************************************************)
InsertRow(t) ==
    LET input == statement[t].values[result[t].count + 1]
        values == [i \in 1..Len(input) |-> ValueFromExpression(input[i])]
    IN  IF EvaluationError \in Range(values) THEN NoRow
        ELSE makeInsertRow(TableOf(t), statement[t].columns, values)

InsertKey(t) == rowKey(statement[t].name, PrimaryKeyValue(TableOf(t), InsertRow(t)))

\* KVTransaction.CreateRow: the row fits the table, its key is free.
CanCreateRow(t) ==
    /\ InsertRow(t) # NoRow
    /\ validateRow(TableOf(t), InsertRow(t))
    /\ DB!Read(t, InsertKey(t)) = Nil

CreateRow(t) ==
    /\ step[t] = "rows" /\ statement[t].op = "insert" /\ RowsLeft(t)
    /\ CanCreateRow(t)
    /\ ~Conflict(t, InsertKey(t))
    /\ DB!Write(t, InsertKey(t), JSONRow(InsertRow(t)))
    /\ RowDone(t)
    /\ UNCHANGED <<statement, step, rest>>

-----------------------------------------------------------------------------
(***************************************************************************)
(* UPDATE: one row of the source.  When the primary key changes, the old   *)
(* key is deleted before the new one is set.                               *)
(***************************************************************************)
UpdatedRow(t) ==
    LET s == statement[t]
    IN  assign(TableOf(t), [c \in DOMAIN s.assignments |-> ValueFromExpression(s.assignments[c])],
               Head(rest[t]))

OldKey(t) == rowKey(statement[t].name, PrimaryKeyValue(TableOf(t), Head(rest[t])))

\* Mutant: the updated row is stored under the key it was read from.
NewKey_old(t) == OldKey(t)

NewKey(t) == rowKey(statement[t].name, PrimaryKeyValue(TableOf(t), UpdatedRow(t)))

\* Mutant: the new primary key may belong to another row.
CanUpdateRow_overwrite(t) == validateRow(TableOf(t), UpdatedRow(t))

CanUpdateRow(t) ==
    /\ validateRow(TableOf(t), UpdatedRow(t))
    /\ OldKey(t) # NewKey(t) => DB!Read(t, NewKey(t)) = Nil

UpdatingRow(t) == step[t] = "rows" /\ statement[t].op = "update" /\ RowsLeft(t)

\* KVTransaction.UpdateRow of a row that keeps its primary key.
UpdateRow(t) ==
    /\ UpdatingRow(t)
    /\ CanUpdateRow(t)
    /\ OldKey(t) = NewKey(t)
    /\ ~Conflict(t, NewKey(t))
    /\ DB!Write(t, NewKey(t), JSONRow(UpdatedRow(t)))
    /\ SourceRowDone(t)
    /\ UNCHANGED <<statement, step>>

\* KVTransaction.UpdateRow of a row whose primary key changes, first half.
DeleteOldKey(t) ==
    /\ UpdatingRow(t)
    /\ CanUpdateRow(t)
    /\ OldKey(t) # NewKey(t)
    /\ ~Conflict(t, OldKey(t))
    /\ DB!Write(t, OldKey(t), Nil)
    /\ Goto(t, "moving")
    /\ UNCHANGED <<statement, rest, result>>

\* Second half.
SetNewKey(t) ==
    /\ step[t] = "moving"
    /\ ~Conflict(t, NewKey(t))
    /\ DB!Write(t, NewKey(t), JSONRow(UpdatedRow(t)))
    /\ SourceRowDone(t)
    /\ Goto(t, "rows")
    /\ UNCHANGED statement

\* DELETE: KVTransaction.DeleteRow of one row of the source.
DeleteRow(t) ==
    /\ step[t] = "rows" /\ statement[t].op = "delete" /\ RowsLeft(t)
    /\ ~Conflict(t, OldKey(t))
    /\ DB!Write(t, OldKey(t), Nil)
    /\ SourceRowDone(t)
    /\ UNCHANGED <<statement, step>>

\* The loop is over and the executor returns its count.
RowsDone(t) ==
    /\ step[t] = "rows" /\ ~RowsLeft(t)
    /\ Goto(t, "done")
    /\ UNCHANGED <<store, phase, snapshot, writes, stale, statement, rest, result>>

-----------------------------------------------------------------------------
(***************************************************************************)
(* Errors.  RowRefused: the statement cannot go on with the next row.      *)
(***************************************************************************)
RowRefused(t) ==
    LET op == statement[t].op
    IN  \/ op = "insert" /\ IF CanCreateRow(t) THEN Conflict(t, InsertKey(t)) ELSE TRUE
        \/ op = "update" /\ IF CanUpdateRow(t) THEN Conflict(t, OldKey(t)) ELSE TRUE
        \/ op = "delete" /\ Conflict(t, OldKey(t))

\* Mutant: a write waits for the transaction it conflicts with.
Refused_waits(t) ==
    \/ step[t] = "start" /\ statement[t].op # "create" /\ ~CanStart(t)
    \/ step[t] = "start" /\ statement[t].op = "create" /\ ~CanCreateTable(t)
    \/ step[t] = "rows" /\ RowsLeft(t) /\ statement[t].op = "insert" /\ ~CanCreateRow(t)
    \/ step[t] = "rows" /\ RowsLeft(t) /\ statement[t].op = "update" /\ ~CanUpdateRow(t)

Refused(t) ==
    \/ step[t] = "start" /\ statement[t].op # "create" /\ ~CanStart(t)
    \/ step[t] = "start" /\ statement[t].op = "create" /\
            (CanCreateTable(t) => Conflict(t, tableKey(statement[t].definition.name)))
    \/ step[t] = "rows" /\ RowsLeft(t) /\ RowRefused(t)
    \/ step[t] = "moving" /\ Conflict(t, NewKey(t))

Fails(t) ==
    /\ Refused(t)
    /\ Goto(t, "error")
    /\ UNCHANGED <<store, phase, snapshot, writes, stale, statement, rest, result>>

\* A call of the storage engine fails.
StorageFails(t) ==
    /\ step[t] \in {"start", "rows", "moving"}
    /\ Goto(t, "error")
    /\ UNCHANGED <<store, phase, snapshot, writes, stale, statement, rest, result>>

Commit(t) ==
    /\ step[t] = "done"
    /\ DB!Commit(t)
    /\ Goto(t, "ended")
    /\ UNCHANGED <<statement, rest, result>>

\* Rollback, complete or not, after an error; or a Commit that failed.  What
\* the transaction wrote is never seen again.
GiveUp(t) ==
    /\ DB!Abort({t})
    /\ Goto(t, "ended")
    /\ UNCHANGED <<statement, rest, result>>

\* Mutant: an error is returned without a rollback.
Rollback_forgets(t) ==
    /\ step[t] = "error"
    /\ Goto(t, "ended")
    /\ UNCHANGED <<store, phase, snapshot, writes, stale, statement, rest, result>>

Rollback(t) == step[t] = "error" /\ GiveUp(t)

CommitFails(t) == step[t] = "done" /\ GiveUp(t)

\* The server process dies with every statement it is running.
Crash ==
    /\ Running # {}
    /\ DB!Abort(Running)
    /\ step' = [t \in Txn |-> IF t \in Running THEN "ended" ELSE step[t]]
    /\ UNCHANGED <<statement, rest, result>>

-----------------------------------------------------------------------------
\* What Execute does of itself, once it has begun.
Proceed(t) ==
    \/ CreateTable(t)
    \/ StartRows(t)
    \/ Select(t)
    \/ CreateRow(t)
    \/ UpdateRow(t)
    \/ DeleteOldKey(t)
    \/ SetNewKey(t)
    \/ DeleteRow(t)
    \/ RowsDone(t)
    \/ Fails(t)
    \/ Commit(t)
    \/ Rollback(t)

Next ==
    \/ \E t \in Txn :
        \/ \E s \in Statement : Begin(t, s)
        \/ Proceed(t)
        \/ StorageFails(t)
        \/ CommitFails(t)
    \/ Crash

Spec == Init /\ [][Next]_vars

-----------------------------------------------------------------------------
(***************************************************************************)
(* What a statement means, in one step on a whole database: a reference    *)
(* for the executors, which go through their rows one by one.              *)
(***************************************************************************)
TableIn(db, s) == db[tableKey(s.name)]

\* The value of a side of a comparison in a row.
TermValue(e, table, row) == IF e[1] = "literal" THEN e[2] ELSE row[ColumnIndex(table, e[2])]

\* A comparison holds only between two values that are not NULL.
Satisfies(p, table, row) ==
    LET left == TermValue(p.left, table, row)
        right == TermValue(p.right, table, row)
        number(v) == IF left.kind = right.kind THEN v.n ELSE AsFloat(v)
    IN  /\ left # Null /\ right # Null
        /\ \/ p.operation = "=" /\ number(left) = number(right)
           \/ p.operation = "<" /\ number(left) < number(right)
           \/ p.operation = ">" /\ number(left) > number(right)

RowsIn(db, s) == {k \in Key : k[1] = "row" /\ k[2] = s.name /\ db[k] # Nil}

Matching(db, s) ==
    {k \in RowsIn(db, s) : s.filter = NoFilter \/ Satisfies(s.filter, TableIn(db, s), db[k])}

\* The rows an INSERT or an UPDATE puts in the table, one per row of VALUES
\* or per matching row.
NewRows(db, s) ==
    IF s.op = "insert"
    THEN [i \in 1..Len(s.values) |->
            makeInsertRow(TableIn(db, s), s.columns, [j \in 1..Len(s.values[i]) |-> s.values[i][j][2]])]
    ELSE [k \in Matching(db, s) |->
            assign(TableIn(db, s), [c \in DOMAIN s.assignments |-> s.assignments[c][2]], db[k])]

NewKeys(db, s) ==
    [i \in DOMAIN NewRows(db, s) |->
        rowKey(s.name, PrimaryKeyValue(TableIn(db, s), NewRows(db, s)[i]))]

\* The new rows have keys of their own: not each other's, and not one of a
\* row that stays.
KeysAreFree(db, s) ==
    LET keys == NewKeys(db, s)
        staying == IF s.op = "insert" THEN RowsIn(db, s) ELSE RowsIn(db, s) \ Matching(db, s)
    IN  /\ \A i, j \in DOMAIN keys : keys[i] = keys[j] => i = j
        /\ Range(keys) \cap staying = {}

Allowed(db, s) ==
    CASE s.op = "create" -> db[tableKey(s.definition.name)] = Nil
      [] s.op \in {"delete", "select"} -> TableIn(db, s) # Nil
      [] s.op \in {"insert", "update"} -> TableIn(db, s) # Nil /\ KeysAreFree(db, s)

Outcome(db, s) ==
    CASE s.op = "create" ->
            [db EXCEPT ![tableKey(s.definition.name)] = tableFromCreateStatement(s.definition)]
      [] s.op = "select" -> db
      [] s.op = "delete" -> [k \in Key |-> IF k \in Matching(db, s) THEN Nil ELSE db[k]]
      [] s.op \in {"insert", "update"} ->
            LET rows == NewRows(db, s)
                keys == NewKeys(db, s)
            IN  [k \in Key |->
                    IF k \in Range(keys) THEN rows[CHOOSE i \in DOMAIN rows : keys[i] = k]
                    ELSE IF s.op = "update" /\ k \in Matching(db, s) THEN Nil
                    ELSE db[k]]

-----------------------------------------------------------------------------
(***************************************************************************)
(* Correctness.                                                            *)
(***************************************************************************)

(***************************************************************************)
(* A statement that is about to commit has done to its snapshot exactly    *)
(* what it means, although its rows were written one at a time between     *)
(* those of other statements: no primary key was given to two rows, no     *)
(* row was missed, updated twice or left behind under its old key          *)
(* (executor.go: Insert, Update, Delete; kv.go: CreateRow, UpdateRow).     *)
(***************************************************************************)
StatementTakesEffectWhole ==
    \A t \in Txn : step[t] = "done" =>
        /\ Allowed(snapshot[t], statement[t])
        /\ [k \in Key |-> DB!Read(t, k)] = Outcome(snapshot[t], statement[t])

(***************************************************************************)
(* What the client gets is about the rows of the snapshot that satisfy     *)
(* WHERE, those for which the predicate is unknown left out: all of them   *)
(* for SELECT, their number for UPDATE and DELETE, the number of VALUES    *)
(* for INSERT (filter.go, expression.go, executor.go).                     *)
(***************************************************************************)
ResultsDescribeSnapshot ==
    \A t \in Txn : step[t] = "done" =>
        LET s == statement[t]
        IN  CASE s.op = "create" -> TRUE
              [] s.op = "insert" -> result[t].count = Len(s.values)
              [] s.op \in {"update", "delete"} ->
                    result[t].count = Cardinality(Matching(snapshot[t], s))
              [] s.op = "select" ->
                    /\ Len(result[t].rows) = Cardinality(Matching(snapshot[t], s))
                    /\ Range(result[t].rows) = {snapshot[t][k] : k \in Matching(snapshot[t], s)}

(***************************************************************************)
(* Every committed row belongs to a committed table and satisfies its      *)
(* column types and NOT NULL constraints, whichever statements have run    *)
(* side by side (kv.go: validateRow in CreateRow and UpdateRow).           *)
(***************************************************************************)
RowsFitTheirTable ==
    \A name \in TableName : \A v \in SQLValue :
        LET row == store[rowKey(name, v)]
            table == store[tableKey(name)]
        IN  row # Nil =>
                /\ table # Nil
                /\ Len(row) = Len(table.columns)
                /\ \A i \in 1..Len(row) : LET column == table.columns[i] IN
                        row[i].kind = column.dataType \/ (row[i] = Null /\ column.nullable)

(***************************************************************************)
(* Every committed row is stored under the key of its primary key.  UPDATE *)
(* and DELETE rely on it: they compute the key of a row from the row they  *)
(* have scanned (executor.go:413 and 460, kv.go:rowKey).                   *)
(***************************************************************************)
RowsUnderTheirKey ==
    \A name \in TableName : \A v \in SQLValue :
        LET row == store[rowKey(name, v)]
        IN  row # Nil => PrimaryKeyValue(store[tableKey(name)], row) = v

(***************************************************************************)
(* The schema of a table never changes once it is committed: of two        *)
(* CREATE TABLE statements for one name at most one commits, also when     *)
(* both found the name free (kv.go: CreateTable; the write conflict).      *)
(***************************************************************************)
SchemasAreFixed ==
    [][\A name \in TableName :
        store[tableKey(name)] # Nil => store'[tableKey(name)] = store[tableKey(name)]]_vars

(***************************************************************************)
(* Nobody waits: a statement that has begun can always take its next step, *)
(* whatever the others hold, so it comes to an end in its own goroutine.   *)
(* A conflicting write is refused at once, and two statements that write   *)
(* the same rows in opposite orders do not block each other (storage.go:   *)
(* write; engine.go: Execute).                                             *)
(***************************************************************************)
NobodyWaits == \A t \in Running : ENABLED Proceed(t)

=============================================================================
