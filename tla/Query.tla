-------------------------------- MODULE Query ---------------------------------
(***************************************************************************)
(* A statement on its way through Session.Execute, engine/engine.go: it    *)
(* comes as text, is parsed, planned, and read from the snapshot of a      *)
(* transaction.  Modules Parser, Plans and Executors are the code; this    *)
(* module also says what a SELECT means without joins in loops, swapped    *)
(* inputs, groups in maps or rows in sequences, for the code to be         *)
(* compared with.  What the other statements do to the store is module     *)
(* Session.                                                                *)
(*                                                                         *)
(* A statement is written as the tree it stands for, except that the       *)
(* predicate of a RIGHT JOIN has its operands as they are in the text.     *)
(***************************************************************************)
EXTENDS Executors

CONSTANTS
    Statement,  \* what clients may send
    Database    \* what they may find

ASSUME StatementAssumption ==
    \A s \in Statement :
        \/ s \in SelectStatement \cup CreateTableStatement \cup InsertStatement \cup DeleteStatement
        \/ IsUpdateStatement(s)

\* Rows fit their tables, as module Session shows.
ASSUME DatabaseAssumption ==
    \A d \in Database : \A name \in DOMAIN d :
        /\ d[name].table.columns \in Seq([name : STRING, dataType : DataType, primaryKey : BOOLEAN,
                                          nullable : BOOLEAN, default : Optionally(AnyValue)])
        /\ d[name].rows \in Seq(Seq(AnyValue))
        /\ \A i \in 1..Len(d[name].rows) : Len(d[name].rows[i]) = Len(d[name].table.columns)

ASSUME UnsetAssumption == Unset \notin AnyValue \cup {EvaluationError}

VARIABLES
    statement,  \* what the client means
    text,       \* what the server gets of it
    stage,      \* "text", "tree", "plan", "done" or "failed"
    tree, plan, result,
    database    \* the snapshot, once a transaction has begun

vars == <<statement, text, stage, tree, plan, result, database>>

-----------------------------------------------------------------------------
(***************************************************************************)
(* The text of a statement: what the client types, as tokens.              *)
(***************************************************************************)
Words(keywords) == [i \in 1..Len(keywords) |-> Keyword(keywords[i])]

Commas(parts) ==
    FlattenSeq([i \in 1..Len(parts) |-> IF i = 1 THEN parts[i] ELSE <<Symbol(",")>> \o parts[i]])

Each(list, Text(_)) == [i \in 1..Len(list) |-> Text(list[i])]

Name(name) == <<Identifier(name)>>

InParentheses(inside) == <<Symbol("(")>> \o inside \o <<Symbol(")")>>

ValueText(v) ==
    CASE v = Null -> Words(<<"NULL">>)
      [] v.kind = "boolean" -> Words(<<IF v.n = 1 THEN "TRUE" ELSE "FALSE">>)
      [] OTHER -> <<Literal(v)>>

OperandText(operand) ==
    CASE operand[1] = "literal" -> ValueText(operand[2])
      [] operand[1] = "column" -> Name(operand[2])
      [] operand[1] = "function" -> Name(operand[2]) \o InParentheses(Name(operand[3]))

ComparisonText(p) == OperandText(p.left) \o <<Symbol(p.operation)>> \o OperandText(p.right)

Clause(keywords, clause, Text(_)) ==
    IF clause = Unset THEN <<>> ELSE Words(keywords) \o Text(clause)

JoinText(join) ==
    Words([inner |-> <<"JOIN">>, left |-> <<"LEFT", "JOIN">>, right |-> <<"RIGHT", "JOIN">>,
           cross |-> <<"CROSS", "JOIN">>][join.type])
    \o Name(join.table) \o Clause(<<"ON">>, join.predicate, ComparisonText)

ItemText(item) == OperandText(item.expression) \o Clause(<<"AS">>, item.alias, Name)

OrderText(order) == Name(order.column) \o Words(IF order.descending THEN <<"DESC">> ELSE <<>>)

ColumnText(c) ==
    Name(c.name)
    \o Words(<<[integer |-> "INT", float |-> "DOUBLE", boolean |-> "BOOL", string |-> "TEXT"][c.dataType]>>)
    \o (IF c.primaryKey THEN Words(<<"PRIMARY", "KEY">>) ELSE <<>>)
    \o Clause(<<>>, c.nullable, LAMBDA b : Words(IF b THEN <<"NULL">> ELSE <<"NOT", "NULL">>))
    \o Clause(<<"DEFAULT">>, c.default, OperandText)

AssignmentTexts(assignments) ==
    Each(SetToSeq(DOMAIN assignments),
         LAMBDA c : Name(c) \o <<Symbol("=")>> \o OperandText(assignments[c]))

Text(s) ==
    CASE s.op = "select" ->
            Words(<<"SELECT">>)
            \o (IF s.items = <<>> THEN <<Symbol("*")>> ELSE Commas(Each(s.items, ItemText)))
            \o Words(<<"FROM">>) \o Name(s.from.table) \o FlattenSeq(Each(s.from.joins, JoinText))
            \o Clause(<<"WHERE">>, s.where, ComparisonText)
            \o Clause(<<"GROUP", "BY">>, s.groupBy, OperandText)
            \o Clause(<<"HAVING">>, s.having, ComparisonText)
            \o (IF s.orderBy = <<>> THEN <<>>
                ELSE Words(<<"ORDER", "BY">>) \o Commas(Each(s.orderBy, OrderText)))
            \o Clause(<<"LIMIT">>, s.limit, OperandText)
            \o Clause(<<"OFFSET">>, s.offset, OperandText)
      [] s.op = "create" ->
            Words(<<"CREATE", "TABLE">>) \o Name(s.definition.name)
            \o InParentheses(Commas(Each(s.definition.columns, ColumnText)))
      [] s.op = "insert" ->
            Words(<<"INSERT", "INTO">>) \o Name(s.name)
            \o (IF s.columns = <<>> THEN <<>> ELSE InParentheses(Commas(Each(s.columns, Name))))
            \o Words(<<"VALUES">>)
            \o Commas(Each(s.values, LAMBDA row : InParentheses(Commas(Each(row, OperandText)))))
      [] s.op = "update" ->
            Words(<<"UPDATE">>) \o Name(s.name) \o Words(<<"SET">>)
            \o Commas(AssignmentTexts(s.assignments)) \o Clause(<<"WHERE">>, s.filter, ComparisonText)
      [] s.op = "delete" ->
            Words(<<"DELETE", "FROM">>) \o Name(s.name) \o Clause(<<"WHERE">>, s.filter, ComparisonText)

Tokens(s) == Text(s) \o <<Symbol(";"), EndOfInput>>

\* What is left of it when the connection breaks before its end.
CutShort(s) == {SubSeq(Text(s), 1, n) \o <<EndOfInput>> : n \in 0..Len(Text(s))}

-----------------------------------------------------------------------------
(***************************************************************************)
(* Session.Execute.                                                        *)
(***************************************************************************)
Init ==
    /\ statement \in Statement
    /\ text \in {Tokens(statement)} \cup CutShort(statement)
    /\ stage = "text"
    /\ tree = Unset
    /\ plan = Unset
    /\ result = Unset
    /\ database = Unset

ParseStatement ==
    LET parsed == Parse(text)
    IN  /\ stage = "text"
        /\ IF parsed.ok THEN stage' = "tree" /\ tree' = parsed.node
           ELSE stage' = "failed" /\ UNCHANGED tree
        /\ UNCHANGED <<statement, text, plan, result, database>>

BuildPlan ==
    /\ stage = "tree"
    /\ IF Build(tree) = PlanError THEN stage' = "failed" /\ UNCHANGED plan
       ELSE stage' = "plan" /\ plan' = Build(tree)
    /\ UNCHANGED <<statement, text, tree, result, database>>

\* Begin and Execute, up to the first write.
Run(snapshot) ==
    /\ stage = "plan" /\ plan.op \in {"select", "update", "delete"}
    /\ database' = snapshot
    /\ result' = Execute(snapshot, plan.source)
    /\ stage' = IF result'.outcome = "rows" THEN "done" ELSE "failed"
    /\ UNCHANGED <<statement, text, tree, plan>>

Next == ParseStatement \/ BuildPlan \/ \E snapshot \in Database : Run(snapshot)

Spec == Init /\ [][Next]_vars

-----------------------------------------------------------------------------
(***************************************************************************)
(* What SELECT means.  A combination picks a row, by its position, from    *)
(* each table of FROM, or 0 where an outer join has found none.            *)
(***************************************************************************)
TablesOf(q) == <<q.from.table>> \o Each(q.from.joins, LAMBDA join : join.table)

\* The columns of the first n tables: in the order of FROM, but a table that
\* is RIGHT JOINed comes first.
InJoinOrder(q, n, ColumnsOf(_)) ==
    FoldLeft(LAMBDA columns, t :
                IF q.from.joins[t - 1].type = "right" THEN ColumnsOf(t) \o columns
                ELSE columns \o ColumnsOf(t),
             ColumnsOf(1), [i \in 1..(n - 1) |-> i + 1])

\* These columns as <<table, column>>.
LayoutOf(q, n) ==
    InJoinOrder(q, n, LAMBDA t : [c \in 1..Len(database[TablesOf(q)[t]].table.columns) |-> <<t, c>>])

ColumnOf(q, place) == database[TablesOf(q)[place[1]]].table.columns[place[2]]

Cell(q, combination, place) ==
    LET row == combination[place[1]]
    IN  IF row = 0 THEN Null ELSE database[TablesOf(q)[place[1]]].rows[row][place[2]]

NamesOf(q, layout) == Each(layout, LAMBDA place : ColumnOf(q, place).name)

RowOf(q, layout, combination) == Each(layout, LAMBDA place : Cell(q, combination, place))

RowsOf(q, t) == 1..Len(database[TablesOf(q)[t]].rows)

\* Does row j of table t go with the combination of the tables before it?
GoesWith(q, t, combination, j) ==
    LET join == q.from.joins[t - 1]
        before == LayoutOf(q, t - 1)
        after == SelectSeq(LayoutOf(q, t), LAMBDA place : place[1] = t)
        whole == Append(combination, j)
    IN  join.type = "cross" \/
        evaluateExpression(join.predicate,
            NamesOf(q, before), RowOf(q, before, whole), NamesOf(q, after), RowOf(q, after, whole))
        = Boolean(TRUE)

Joined(q, t, combinations) ==
    LET type == q.from.joins[t - 1].type
        pairs == {p \in combinations \X RowsOf(q, t) : GoesWith(q, t, p[1], p[2])}
    IN  {Append(p[1], p[2]) : p \in pairs}
        \cup {Append(c, 0) : c \in {d \in combinations : type = "left" /\ \A p \in pairs : p[1] # d}}
        \cup {[i \in 1..t |-> IF i = t THEN j ELSE 0] :
                j \in {k \in RowsOf(q, t) : type = "right" /\ \A p \in pairs : p[2] # k}}

Combinations(q) ==
    FoldLeft(LAMBDA combinations, t : Joined(q, t, combinations),
             {<<j>> : j \in RowsOf(q, 1)}, [i \in 1..Len(q.from.joins) |-> i + 1])

\* Those for which WHERE is true.
Selected(q) ==
    LET layout == LayoutOf(q, Len(TablesOf(q)))
        holds(c) == evaluateExpression(q.where, NamesOf(q, layout), RowOf(q, layout, c),
                                       NamesOf(q, layout), RowOf(q, layout, c)) = Boolean(TRUE)
    IN  {c \in Combinations(q) : q.where = Unset \/ holds(c)}

\* The value of the named column in a combination.
Named(q, c, name) ==
    LET layout == LayoutOf(q, Len(TablesOf(q)))
    IN  Cell(q, c, layout[Index(NamesOf(q, layout), name)])

AggregateOf(q, function, name, group) ==
    LET present == {c \in group : Named(q, c, name) # Null}
        values == {Named(q, c, name) : c \in present}
        total == MapThenSumSet(LAMBDA c : AsFloat(Named(q, c, name)), present)
    IN  CASE function = "count" -> [kind |-> "integer", n |-> Cardinality(present)]
          [] function # "count" /\ present = {} -> Null
          [] function = "min" /\ present # {} ->
                CHOOSE v \in values : \A w \in values : Compare(v, w) <= 0
          [] function = "max" /\ present # {} ->
                CHOOSE v \in values : \A w \in values : Compare(v, w) >= 0
          [] function = "sum" /\ present # {} -> [kind |-> "float", n |-> total]
          [] function = "avg" /\ present # {} ->
                [kind |-> "float", n |-> CHOOSE n \in 0..total : n * Cardinality(present) = total]

\* The groups of combinations that are one row of the result each.
GroupsOf(q) ==
    IF q.groupBy = Unset THEN {Selected(q)}
    ELSE {{c \in Selected(q) : Named(q, c, q.groupBy[2]) = key} :
            key \in {Named(q, c, q.groupBy[2]) : c \in Selected(q)}}

AggregateRow(q, group) ==
    Each(q.items, LAMBDA item :
        IF item.expression[1] = "function"
        THEN AggregateOf(q, item.expression[2], item.expression[3], group)
        ELSE Named(q, CHOOSE c \in group : TRUE, item.expression[2]))

PlainRow(q, c) ==
    IF q.items = <<>> THEN RowOf(q, LayoutOf(q, Len(TablesOf(q))), c)
    ELSE Each(q.items, LAMBDA item :
            IF item.expression[1] = "column" THEN Named(q, c, item.expression[2])
            ELSE item.expression[2])

\* Every row the result should have, with the number of times it should.
Meaning(q) ==
    LET rowOf == IF IsAggregateQuery(q) THEN [group \in GroupsOf(q) |-> AggregateRow(q, group)]
                 ELSE [c \in Selected(q) |-> PlainRow(q, c)]
    IN  [row \in Range(rowOf) |-> Cardinality({x \in DOMAIN rowOf : rowOf[x] = row})]

BagOf(rows) == [row \in Range(rows) |-> Cardinality({i \in 1..Len(rows) : rows[i] = row})]

\* HAVING, ORDER BY, LIMIT and OFFSET work on what the rest returns.
IsWhole(q) == q.having = Unset /\ q.limit = Unset /\ q.offset = Unset

-----------------------------------------------------------------------------
(***************************************************************************)
(* Properties.                                                             *)
(***************************************************************************)
\* What the code makes of another statement in the same snapshot.
Answer(q) == Execute(database, Build(q).source)

IsSelect == statement.op = "select"

\* What a statement reads: UPDATE and DELETE go over the rows that SELECT *
\* returns with the same WHERE (the comment in ScanExecutor.Execute).
ReadingOf(s) ==
    IF s.op = "select" THEN s
    ELSE [op |-> "select", items |-> <<>>, from |-> [table |-> s.name, joins |-> <<>>],
          where |-> s.filter, groupBy |-> Unset, having |-> Unset, orderBy |-> <<>>,
          limit |-> Unset, offset |-> Unset]

(***************************************************************************)
(* A statement reads the rows it says, each as often as it should: the     *)
(* parser turns the operands of a RIGHT JOIN round and the planner its     *)
(* inputs, so that the executor only has a LEFT JOIN; unmatched rows are   *)
(* padded once; WHERE comes before the groups; NULL matches nothing, is    *)
(* not counted, and is a group of its own; without GROUP BY there is one   *)
(* group even if it is empty.                                              *)
(***************************************************************************)
ReadsWhatItSays ==
    stage = "done" =>
        LET q == ReadingOf(statement)
        IN  IsWhole(q) => BagOf(result.rows) = Meaning(q)

\* Is a before b by the columns of ORDER BY: less in the first in which
\* they differ, or greater if it is DESC?
Before(orderBy, columns, a, b) ==
    \E n \in 1..Len(orderBy) :
        LET compared(i) == Compare(a[Index(columns, orderBy[i].column)], b[Index(columns, orderBy[i].column)])
        IN  /\ \A i \in 1..(n - 1) : compared(i) = 0
            /\ IF orderBy[n].descending THEN compared(n) > 0 ELSE compared(n) < 0

\* The rows of a result sorted, those that ORDER BY does not tell apart in
\* the order they had.
Sorted(orderBy, unordered) ==
    LET rows == unordered.rows
        before(i, j) == Before(orderBy, unordered.columns, rows[i], rows[j])
        order == SetToSortSeq(1..Len(rows), LAMBDA i, j : before(i, j) \/ (i < j /\ ~before(j, i)))
    IN  [i \in 1..Len(rows) |-> rows[order[i]]]

\* What the items of a query show of a row.
Projected(items, columns, row) ==
    IF items = <<>> THEN row
    ELSE Each(items, LAMBDA item :
            IF item.expression[1] = "column" THEN row[Index(columns, item.expression[2])]
            ELSE item.expression[2])

(***************************************************************************)
(* ORDER BY returns the rows of the query without it, sorted by its        *)
(* columns, and rows that are equal in them in the order they had: pages   *)
(* of one query fit together only if ties are always broken alike.  It     *)
(* sees the columns that the projection drops, and the projection leaves   *)
(* the rows in their order (PagesAreWindows says the same of pages).       *)
(***************************************************************************)
OrderIsRight ==
    stage = "done" /\ IsSelect =>
        LET grouped == IsAggregateQuery(tree)
            unordered == Answer([tree EXCEPT !.orderBy = <<>>, !.items = IF grouped THEN @ ELSE <<>>])
            sorted == Sorted(tree.orderBy, unordered)
        IN  tree.orderBy # <<>> /\ tree.limit = Unset /\ tree.offset = Unset =>
                result.rows = IF grouped THEN sorted
                              ELSE Each(sorted, LAMBDA row : Projected(tree.items, unordered.columns, row))

(***************************************************************************)
(* LIMIT l OFFSET o returns rows o + 1 to o + l of the query without them, *)
(* as far as there are any: OFFSET is applied first although the text has  *)
(* it last (the comment on OffsetNode), and neither fails beyond the last  *)
(* row.                                                                    *)
(***************************************************************************)
PagesAreWindows ==
    stage = "done" /\ IsSelect =>
        LET q == tree
            all == Answer([q EXCEPT !.limit = Unset, !.offset = Unset]).rows
            first == IF q.offset = Unset THEN 0 ELSE q.offset[2].n
            isIn(i) == i > first /\ (q.limit # Unset => i <= first + q.limit[2].n)
        IN  /\ Len(result.rows) = Cardinality({i \in 1..Len(all) : isIn(i)})
            /\ \A i \in 1..Len(result.rows) : result.rows[i] = all[first + i]

-----------------------------------------------------------------------------
(***************************************************************************)
(* Which queries make sense for the tables there are, whatever their rows. *)
(* A scope is the sequence of columns that can be named, with their types. *)
(***************************************************************************)
ScopeOf(d, q, n) == InJoinOrder(q, n, LAMBDA t : d[TablesOf(q)[t]].table.columns)

IsNamed(scope, name) == \E i \in 1..Len(scope) : scope[i].name = name

TypeOf(scope, name) == scope[SelectInSeq(scope, LAMBDA column : column.name = name)].dataType

MakesSense(operand, scope) ==
    operand[1] = "literal" \/ (operand[1] = "column" /\ IsNamed(scope, operand[2]))

KindOf(operand, scope) ==
    IF operand[1] = "literal" THEN operand[2].kind ELSE TypeOf(scope, operand[2])

ComparisonMakesSense(p, left, right) ==
    p # Unset =>
        /\ MakesSense(p.left, left)
        /\ MakesSense(p.right, right)
        /\ LET kinds == {KindOf(p.left, left), KindOf(p.right, right)}
           IN  "null" \in kinds \/ Cardinality(kinds) = 1 \/ kinds = {"integer", "float"}

AggregateMakesSense(item, scope) ==
    item.expression[1] = "function" =>
        /\ IsNamed(scope, item.expression[3])
        /\ item.expression[2] \in {"count", "min", "max"} \/
            (item.expression[2] \in {"sum", "avg"} /\ TypeOf(scope, item.expression[3]) \in {"integer", "float"})

\* The columns of an aggregate query, which HAVING and ORDER BY may name.
AggregateScope(q, scope) ==
    Each(q.items, LAMBDA item :
        [name |-> IF item.alias # Unset THEN item.alias ELSE item.expression[2],
         dataType |-> CASE item.expression[2] = "count" -> "integer"
                        [] item.expression[2] \in {"sum", "avg"} -> "float"
                        [] item.expression[2] \in {"min", "max"} -> TypeOf(scope, item.expression[3])
                        [] OTHER -> TypeOf(scope, item.expression[2])])

\* In a group a row has aggregates and the column it is grouped by.
ItemsMakeSense(q, scope) ==
    /\ q.groupBy # Unset => q.groupBy[1] = "column" /\ IsNamed(scope, q.groupBy[2])
    /\ \A item \in Range(q.items) :
        IF IsAggregateQuery(q)
        THEN /\ item.expression[1] = "function" \/ item.expression = q.groupBy
             /\ AggregateMakesSense(item, scope)
        ELSE MakesSense(item.expression, scope)

PageMakesSense(clause) == clause # Unset => clause[1] = "literal" /\ clause[2].kind = "integer"

QueryMakesSense(d, q) ==
    /\ Range(TablesOf(q)) \subseteq DOMAIN d
    /\ PageMakesSense(q.limit) /\ PageMakesSense(q.offset)
    /\ LET n == Len(TablesOf(q))
           scope == ScopeOf(d, q, n)
           output == IF IsAggregateQuery(q) THEN AggregateScope(q, scope) ELSE scope
       IN  /\ \A t \in 2..n :
                ComparisonMakesSense(q.from.joins[t - 1].predicate, ScopeOf(d, q, t - 1),
                                     d[TablesOf(q)[t]].table.columns)
           /\ ComparisonMakesSense(q.where, scope, scope)
           /\ ItemsMakeSense(q, scope)
           /\ ComparisonMakesSense(q.having, output, output)
           /\ \A order \in Range(q.orderBy) : IsNamed(output, order.column)

(***************************************************************************)
(* A query that makes sense for the tables does not fail, whatever rows    *)
(* there are: the parser and the planner let it pass, every operand is     *)
(* looked up where its clause can see it (ORDER BY before the projection,  *)
(* HAVING behind the aggregate, ON on its own side), and NULL fits         *)
(* everywhere.                                                             *)
(***************************************************************************)
SensibleQueriesRun ==
    stage = "failed" /\ IsSelect /\ text = Tokens(statement) =>
        \A d \in IF database = Unset THEN Database ELSE {database} : ~QueryMakesSense(d, statement)

(***************************************************************************)
(* No statement makes an executor panic, which would take the server down  *)
(* with every session: AggregateExecutor dereferences the value of a group *)
(* and asserts the names of columns, and only the planner's checks keep    *)
(* the queries away for which there is none.                               *)
(***************************************************************************)
NothingPanics == result # Unset => result.outcome # "panic"

\* A join with the operands of its predicate where the text has them.
AsWritten(join) ==
    IF join.type = "right"
    THEN [join EXCEPT !.predicate = [@ EXCEPT !.left = join.predicate.right, !.right = join.predicate.left]]
    ELSE join

(***************************************************************************)
(* Every statement that arrives whole is parsed, and the tree is what its  *)
(* text says, clause by clause, but for the operands of RIGHT JOIN:        *)
(* optional clauses, lists and constraints of any length do not run into   *)
(* each other.                                                             *)
(***************************************************************************)
TreeIsTheText ==
    stage # "text" /\ text = Tokens(statement) =>
        /\ tree # Unset
        /\ statement = IF IsSelect THEN [tree EXCEPT !.from.joins = Each(@, AsWritten)] ELSE tree

(***************************************************************************)
(* No statement that was cut short runs: bufio.Scanner hands the server    *)
(* the last line of a connection that broke in the middle of it, and a     *)
(* DELETE without the rest of its WHERE would be a statement.  The         *)
(* semicolon that Parse insists on is what stops it.                       *)
(***************************************************************************)
NoPrefixRuns == tree # Unset => text = Tokens(statement)

=============================================================================
