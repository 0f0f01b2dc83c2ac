-------------------------------- MODULE Tables --------------------------------
(***************************************************************************)
(* Table schemas and rows: schema/schema.go, planner/schema.go, and the    *)
(* checks rows pass on their way into a table (executor.makeInsertRow,     *)
(* engine.validateRow).  A table is a name and a sequence of columns, a    *)
(* row a sequence of values in the order of the columns.                   *)
(***************************************************************************)
EXTENDS Values, FiniteSets

CONSTANTS
    Unset,   \* a clause that the column definition leaves out
    NoRow    \* makeInsertRow returns an error

(***************************************************************************)
(* tableFromCreateStatement: a column is nullable unless it is the primary *)
(* key or says otherwise; a nullable column without DEFAULT defaults to    *)
(* NULL.                                                                   *)
(***************************************************************************)
columnFromDefinition(c) ==
    LET nullable == IF c.nullable = Unset THEN ~c.primaryKey ELSE c.nullable
    IN  [name |-> c.name, dataType |-> c.dataType, primaryKey |-> c.primaryKey,
         nullable |-> nullable,
         default |-> IF c.default # Unset THEN ValueFromExpression(c.default)
                     ELSE IF nullable THEN Null ELSE Unset]

tableFromCreateStatement(definition) ==
    [name |-> definition.name,
     columns |-> [i \in 1..Len(definition.columns) |->
                    columnFromDefinition(definition.columns[i])]]

columnNames(table) == [i \in 1..Len(table.columns) |-> table.columns[i].name]

primaryKeys(table) == {i \in 1..Len(table.columns) : table.columns[i].primaryKey}

\* Table.Validate.  A default of NULL passes for any column.
Validate(table) ==
    /\ table.columns # <<>>
    /\ Cardinality(primaryKeys(table)) = 1
    /\ \A i \in primaryKeys(table) : ~table.columns[i].nullable
    /\ \A i \in 1..Len(table.columns) :
        table.columns[i].default \notin {Unset, Null} =>
            table.columns[i].default.kind = table.columns[i].dataType

\* Table.PrimaryKeyValue
PrimaryKeyValue(table, row) == row[SelectInSeq(table.columns, LAMBDA c : c.primaryKey)]

\* Table.ColumnIndex: the first column of that name; 0 stands for the error.
ColumnIndex(table, name) == SelectInSeq(table.columns, LAMBDA c : c.name = name)

\* Mutant: NULL is accepted in every column.
validateRow_nulls(table, row) ==
    /\ Len(row) = Len(table.columns)
    /\ \A i \in 1..Len(row) : row[i] = Null \/ row[i].kind = table.columns[i].dataType

validateRow(table, row) ==
    /\ Len(row) = Len(table.columns)
    /\ \A i \in 1..Len(row) :
        IF row[i] = Null THEN table.columns[i].nullable
        ELSE row[i].kind = table.columns[i].dataType

(***************************************************************************)
(* makeInsertRow.  Without a column list the values are those of the first *)
(* columns; with one, each name stands for the last column so named.  The  *)
(* other columns take their defaults.                                      *)
(***************************************************************************)
position(table, name) == SelectLastInSeq(table.columns, LAMBDA c : c.name = name)

CanPlace(table, names, input) ==
    IF names = <<>> THEN Len(input) <= Len(table.columns)
    ELSE /\ Len(names) = Len(input)
         /\ \A i \in 1..Len(names) : position(table, names[i]) # 0
         /\ \A i, j \in 1..Len(names) :
                position(table, names[i]) = position(table, names[j]) => i = j

\* Which of the input values goes to column i; 0 when none does.
Source(table, names, input, i) ==
    IF names = <<>> THEN (IF i <= Len(input) THEN i ELSE 0)
    ELSE SelectInSeq(names, LAMBDA name : position(table, name) = i)

makeInsertRow(table, names, input) ==
    LET source == [i \in 1..Len(table.columns) |-> Source(table, names, input, i)]
    IN  IF /\ CanPlace(table, names, input)
           /\ \A i \in DOMAIN source : source[i] = 0 => table.columns[i].default # Unset
        THEN [i \in DOMAIN source |->
                IF source[i] = 0 THEN table.columns[i].default ELSE input[source[i]]]
        ELSE NoRow

\* UpdateExecutor: a copy of the row with the assigned columns replaced.
assign(table, assignments, row) ==
    [i \in 1..Len(row) |->
        IF \E c \in DOMAIN assignments : ColumnIndex(table, c) = i
        THEN assignments[CHOOSE c \in DOMAIN assignments : ColumnIndex(table, c) = i]
        ELSE row[i]]

=============================================================================
