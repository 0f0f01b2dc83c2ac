------------------------------ MODULE Executors -------------------------------
(***************************************************************************)
(* The executors that read: executor/executor.go, join.go, aggregate.go    *)
(* and filter.go.  A database is what ScanTable returns in a transaction:  *)
(* for every table, its schema and its rows in the order of their keys.    *)
(*                                                                         *)
(* An executor returns rows, or an error, or panics: aggregate.go takes    *)
(* the value of a group that may not exist and asserts types, and relies   *)
(* on the planner for both.                                                *)
(***************************************************************************)
EXTENDS Plans

RowsResult(columns, rows) == [outcome |-> "rows", columns |-> columns, rows |-> rows]
Error == [outcome |-> "error", columns |-> <<>>, rows |-> <<>>]
Panic == [outcome |-> "panic", columns |-> <<>>, rows |-> <<>>]

\* What a loop over a slice has appended of it: what is at these places.
At(list, places) ==
    LET taken[n \in 0..Len(list)] ==
            IF n = 0 THEN <<>>
            ELSE IF n \in places THEN Append(taken[n - 1], list[n]) ELSE taken[n - 1]
    IN  taken[Len(list)]

-----------------------------------------------------------------------------
Scan(database, name) ==
    IF name \in DOMAIN database
    THEN RowsResult(columnNames(database[name].table), database[name].rows) ELSE Error

Filter(input, predicate) ==
    IF FilterFails(predicate, input.columns, input.rows) THEN Error
    ELSE RowsResult(input.columns, FilterRows(predicate, input.columns, input.rows))

(***************************************************************************)
(* NestedLoopJoinExecutor.  The left operand of the predicate is looked up *)
(* in the left row, the right one in the right row.                        *)
(***************************************************************************)
NestedLoopJoin(left, right, predicate, outer) ==
    LET value(a, b) ==
            IF predicate = Unset THEN Boolean(TRUE)
            ELSE evaluateExpression(predicate, left.columns, a, right.columns, b)
        matches(a) ==
            At(right.rows, {i \in 1..Len(right.rows) : value(a, right.rows[i]) = Boolean(TRUE)})
        combined(a) ==
            IF outer /\ matches(a) = <<>> THEN <<a \o [i \in 1..Len(right.columns) |-> Null]>>
            ELSE [i \in 1..Len(matches(a)) |-> a \o matches(a)[i]]
        fails ==
            \E i \in 1..Len(left.rows), j \in 1..Len(right.rows) :
                value(left.rows[i], right.rows[j]) = EvaluationError
    IN  IF left.outcome # "rows" THEN left
        ELSE IF right.outcome # "rows" THEN right
        ELSE IF fails THEN Error
        ELSE RowsResult(left.columns \o right.columns,
                        FlattenSeq([i \in 1..Len(left.rows) |-> combined(left.rows[i])]))

-----------------------------------------------------------------------------
(***************************************************************************)
(* Aggregates.  A column of values, of which those that are NULL count for *)
(* nothing.                                                                *)
(***************************************************************************)
NonNull(values) == At(values, {i \in 1..Len(values) : values[i] # Null})

count(values) == [kind |-> "integer", n |-> Len(NonNull(values))]

\* Compare has no error to return here: the values of a column are of one kind.
calculateExtreme(values, minimum) ==
    LET replaces(current, best) ==
            IF minimum THEN Compare(current, best) < 0 ELSE Compare(current, best) > 0
        present == NonNull(values)
        extreme[n \in 0..Len(present)] ==
            IF n = 0 THEN Null
            ELSE IF extreme[n - 1] = Null \/ replaces(present[n], extreme[n - 1]) THEN present[n]
            ELSE extreme[n - 1]
    IN  extreme[Len(present)]

sum(values) ==
    LET present == NonNull(values)
        total[n \in 0..Len(present)] == IF n = 0 THEN 0 ELSE total[n - 1] + AsFloat(present[n])
    IN  IF present = <<>> THEN Null
        ELSE IF \E i \in 1..Len(present) : ~IsNumber(present[i]) THEN EvaluationError
        ELSE [kind |-> "float", n |-> total[Len(present)]]

avg(values) ==
    IF sum(values).kind # "float" THEN sum(values)
    ELSE [kind |-> "float", n |-> sum(values).n \div count(values).n]

\* buildAggregateCalculator.  The lexer has put the name in lower case.
calculate(name, values) ==
    CASE name = "count" -> count(values)
      [] name = "min" -> calculateExtreme(values, TRUE)
      [] name = "max" -> calculateExtreme(values, FALSE)
      [] name = "sum" -> sum(values)
      [] name = "avg" -> avg(values)
      [] OTHER -> EvaluationError

-----------------------------------------------------------------------------
(***************************************************************************)
(* AggregateExecutor.                                                      *)
(***************************************************************************)
AliasOr(item, name) == IF item.alias # Unset THEN item.alias ELSE name

aggregateOutputColumns(items) ==
    [i \in 1..Len(items) |-> AliasOr(items[i], items[i].expression[2])]

\* A name is asserted to be a string.
HasNoName(item) == item.expression[1] = "literal" /\ item.expression[2].kind # "string"

\* One value of calculateRow: an aggregate, or the value of the group.
calculateItem(item, groupValue, columns, rows) ==
    LET k == Index(columns, item.expression[3])
    IN  IF item.expression[1] # "function" THEN groupValue
        ELSE IF k = 0 THEN EvaluationError
        ELSE calculate(item.expression[2], [i \in 1..Len(rows) |-> rows[i][k]])

calculateRow(items, groupValue, columns, rows) ==
    [i \in 1..Len(items) |-> calculateItem(items[i], groupValue, columns, rows)]

\* The values of column k, each where it appears first.
GroupKeys(rows, k) ==
    LET column == [i \in 1..Len(rows) |-> rows[i][k]]
    IN  At(column, {i \in 1..Len(rows) : \A j \in 1..(i - 1) : column[j] # column[i]})

\* The first value that is not there decides what becomes of the row.
AggregateResult(items, rows) ==
    LET values == FlattenSeq(rows)
        bad == SelectInSeq(values, LAMBDA v : v \in {Unset, EvaluationError})
    IN  IF bad = 0 THEN RowsResult(aggregateOutputColumns(items), rows)
        ELSE IF values[bad] = Unset THEN Panic ELSE Error

\* Without GROUP BY all rows, if any, are one group, which has no value.
Groups(input, groupBy) ==
    LET k == Index(input.columns, groupBy[2])
        keys == GroupKeys(input.rows, k)
    IN  IF groupBy = Unset THEN <<[key |-> Unset, rows |-> input.rows]>>
        ELSE [i \in 1..Len(keys) |->
                [key |-> keys[i], rows |-> At(input.rows, {j \in 1..Len(input.rows) : input.rows[j][k] = keys[i]})]]

Aggregate(input, items, groupBy) ==
    IF \E i \in 1..Len(items) : HasNoName(items[i]) THEN Panic
    ELSE IF groupBy # Unset /\ Index(input.columns, groupBy[2]) = 0 THEN Error
    ELSE LET groups == Groups(input, groupBy)
         IN  AggregateResult(items, [i \in 1..Len(groups) |->
                calculateRow(items, groups[i].key, input.columns, groups[i].rows)])

-----------------------------------------------------------------------------
(***************************************************************************)
(* OrderExecutor: a stable sort, which for few rows is insertion from the  *)
(* right.  The values of a column are of one kind, or NULL, so that the    *)
(* error of Compare, which ends the sort, does not occur.                  *)
(***************************************************************************)
\* Mutant: only the first column of ORDER BY counts.
Precedes_firstColumn(orderBy, columns, a, b) ==
    LET k == Index(columns, orderBy[1].column)
    IN  IF orderBy[1].descending THEN Compare(a[k], b[k]) > 0 ELSE Compare(a[k], b[k]) < 0

\* Is the comparison of a and b negative?
Precedes(orderBy, columns, a, b) ==
    LET compared(i) ==
            LET k == Index(columns, orderBy[i].column)
            IN  IF orderBy[i].descending THEN -Compare(a[k], b[k]) ELSE Compare(a[k], b[k])
        deciding == SelectInSeq([i \in 1..Len(orderBy) |-> compared(i)], LAMBDA c : c # 0)
    IN  deciding # 0 /\ compared(deciding) < 0

InsertRow(orderBy, columns, sorted, row) ==
    InsertAt(sorted, 1 + SelectLastInSeq(sorted, LAMBDA other : ~Precedes(orderBy, columns, row, other)), row)

Order(input, orderBy) ==
    LET sorted[n \in 0..Len(input.rows)] ==
            IF n = 0 THEN <<>> ELSE InsertRow(orderBy, input.columns, sorted[n - 1], input.rows[n])
    IN  IF \E i \in 1..Len(orderBy) : Index(input.columns, orderBy[i].column) = 0 THEN Error
        ELSE RowsResult(input.columns, sorted[Len(input.rows)])

Offset(input, n) ==
    RowsResult(input.columns, SubSeq(input.rows, 1 + Min({n, Len(input.rows)}), Len(input.rows)))

Limit(input, n) == RowsResult(input.columns, SubSeq(input.rows, 1, Min({n, Len(input.rows)})))

(***************************************************************************)
(* ProjectionExecutor: columns of the source, and constants.               *)
(***************************************************************************)
Projection(input, items) ==
    LET name(item) ==
            AliasOr(item, IF item.expression[1] = "column" THEN item.expression[2] ELSE "?column?")
        fails(item) ==
            IF item.expression[1] = "column" THEN Index(input.columns, item.expression[2]) = 0
            ELSE ValueFromExpression(item.expression) = EvaluationError
        value(item, row) ==
            IF item.expression[1] = "column" THEN row[Index(input.columns, item.expression[2])]
            ELSE ValueFromExpression(item.expression)
    IN  IF \E i \in 1..Len(items) : fails(items[i]) THEN Error
        ELSE RowsResult([i \in 1..Len(items) |-> name(items[i])],
                        [r \in 1..Len(input.rows) |->
                            [i \in 1..Len(items) |-> value(items[i], input.rows[r])]])

-----------------------------------------------------------------------------
(***************************************************************************)
(* Build and Execute: every node has its executor, which passes on what    *)
(* is not rows.                                                            *)
(***************************************************************************)
ExecuteNode(database, input, node) ==
    CASE node.node = "scan" -> Scan(database, node.table)
      [] node.node = "join" ->
            IF node.swapped
            THEN NestedLoopJoin(Scan(database, node.table), input, node.predicate, node.outer)
            ELSE NestedLoopJoin(input, Scan(database, node.table), node.predicate, node.outer)
      [] node.node = "filter" -> Filter(input, node.predicate)
      [] node.node = "aggregate" -> Aggregate(input, node.items, node.groupBy)
      [] node.node = "order" -> Order(input, node.orderBy)
      [] node.node = "offset" -> Offset(input, node.offset)
      [] node.node = "limit" -> Limit(input, node.limit)
      [] node.node = "projection" -> Projection(input, node.items)

Execute(snapshot, source) ==
    LET after[n \in 0..Len(source)] ==
            IF n = 0 THEN RowsResult(<<>>, <<>>)
            ELSE IF after[n - 1].outcome = "rows" THEN ExecuteNode(snapshot, after[n - 1], source[n])
            ELSE after[n - 1]
    IN  after[Len(source)]

=============================================================================
