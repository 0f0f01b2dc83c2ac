-------------------------------- MODULE Plans ---------------------------------
(***************************************************************************)
(* planner/plan.go: what a syntax tree becomes.  The tree of plan nodes is *)
(* a chain, but for joins, whose other input is always the scan of a       *)
(* table: a source is the sequence of its nodes from the first scan up.    *)
(***************************************************************************)
EXTENDS Parser

CONSTANT PlanError  \* Build returns an error

ScanNode(table) == [node |-> "scan", table |-> table]
FilterNode(predicate) == [node |-> "filter", predicate |-> predicate]
OrderNode(orderBy) == [node |-> "order", orderBy |-> orderBy]
OffsetNode(n) == [node |-> "offset", offset |-> n]
LimitNode(n) == [node |-> "limit", limit |-> n]
ProjectionNode(items) == [node |-> "projection", items |-> items]
AggregateNode(items, groupBy) == [node |-> "aggregate", items |-> items, groupBy |-> groupBy]

\* The inputs are what comes before and the scan of a table, or, swapped,
\* the scan and what comes before.
NestedLoopJoinNode(table, predicate, outer, swapped) ==
    [node |-> "join", table |-> table, predicate |-> predicate, outer |-> outer, swapped |-> swapped]

\* The nodes of a clause that may be left out.
Optional(clause, Node(_)) == IF clause = Unset THEN <<>> ELSE <<Node(clause)>>

-----------------------------------------------------------------------------
(***************************************************************************)
(* FROM.  A RIGHT JOIN is the LEFT JOIN of the inputs swapped.  What       *)
(* validateJoinItem asks for is so in every tree of the parser.            *)
(***************************************************************************)
validateJoinItem(join) == (join.type = "cross") <=> (join.predicate = Unset)

\* Mutant: the inputs of a RIGHT JOIN stay where they are.
buildJoin_unswapped(join) ==
    NestedLoopJoinNode(join.table, join.predicate, join.type \in {"left", "right"}, FALSE)

buildJoin(join) ==
    NestedLoopJoinNode(join.table, join.predicate, join.type \in {"left", "right"}, join.type = "right")

buildFromItem(from) ==
    <<ScanNode(from.table)>> \o [i \in 1..Len(from.joins) |-> buildJoin(from.joins[i])]

-----------------------------------------------------------------------------
(***************************************************************************)
(* SELECT.                                                                 *)
(***************************************************************************)
HasAggregate(s) == \E i \in 1..Len(s.items) : s.items[i].expression[1] = "function"

HasNonAggregate(s) == \E i \in 1..Len(s.items) : s.items[i].expression[1] # "function"

IsAggregateQuery(s) == HasAggregate(s) \/ s.groupBy # Unset

\* Mutant: aggregates and columns may be mixed.
ItemsFit_mixed(s) ==
    s.groupBy # Unset =>
        /\ s.groupBy[1] = "column"
        /\ \A i \in 1..Len(s.items) :
            s.items[i].expression[1] # "function" => s.items[i].expression = s.groupBy

\* With GROUP BY, an item is its column or an aggregate; without, either all
\* items are aggregates or none is.
ItemsFit(s) ==
    IF s.groupBy # Unset
    THEN /\ s.groupBy[1] = "column"
         /\ \A i \in 1..Len(s.items) :
                s.items[i].expression[1] # "function" => s.items[i].expression = s.groupBy
    ELSE ~(HasAggregate(s) /\ HasNonAggregate(s))

\* LIMIT and OFFSET.  The text has no signs and an int has 64 bits, so the
\* checks for numbers that are negative or too large never fail.
IsCount(clause) == clause = Unset \/ ValueFromExpression(clause).kind = "integer"

CountFrom(clause) == ValueFromExpression(clause).n

\* Mutant: LIMIT is applied first.
PageNodes_limitFirst(s) ==
    Optional(s.limit, LAMBDA clause : LimitNode(CountFrom(clause))) \o
    Optional(s.offset, LAMBDA clause : OffsetNode(CountFrom(clause)))

PageNodes(s) ==
    Optional(s.offset, LAMBDA clause : OffsetNode(CountFrom(clause))) \o
    Optional(s.limit, LAMBDA clause : LimitNode(CountFrom(clause)))

\* Mutant: the columns are dropped before the rows are put in order.
ResultNodes_projectFirst(s) ==
    (IF s.items # <<>> /\ ~IsAggregateQuery(s) THEN <<ProjectionNode(s.items)>> ELSE <<>>) \o
    (IF s.orderBy # <<>> THEN <<OrderNode(s.orderBy)>> ELSE <<>>) \o
    PageNodes(s)

\* What happens to the rows that are to be returned.
ResultNodes(s) ==
    (IF s.orderBy # <<>> THEN <<OrderNode(s.orderBy)>> ELSE <<>>) \o
    PageNodes(s) \o
    (IF s.items # <<>> /\ ~IsAggregateQuery(s) THEN <<ProjectionNode(s.items)>> ELSE <<>>)

SelectNodes(s) ==
    buildFromItem(s.from) \o
    Optional(s.where, FilterNode) \o
    (IF IsAggregateQuery(s) THEN <<AggregateNode(s.items, s.groupBy)>> ELSE <<>>) \o
    Optional(s.having, FilterNode) \o
    ResultNodes(s)

CanSelect(s) ==
    /\ \A i \in 1..Len(s.from.joins) : validateJoinItem(s.from.joins[i])
    /\ ItemsFit(s)
    /\ IsCount(s.offset)
    /\ IsCount(s.limit)

-----------------------------------------------------------------------------
(***************************************************************************)
(* Build.  UPDATE and DELETE work on the rows of a source of their own.    *)
(***************************************************************************)
CanCreate(definition) ==
    \A i \in 1..Len(definition.columns) :
        LET default == definition.columns[i].default
        IN  default = Unset \/ ValueFromExpression(default) # EvaluationError

SourceNodes(s) == <<ScanNode(s.name)>> \o Optional(s.filter, FilterNode)

Build(s) ==
    CASE s.op = "create" ->
            IF CanCreate(s.definition)
            THEN [op |-> s.op, schema |-> tableFromCreateStatement(s.definition)] ELSE PlanError
      [] s.op = "insert" -> s
      [] s.op = "select" ->
            IF CanSelect(s) THEN [op |-> s.op, source |-> SelectNodes(s)] ELSE PlanError
      [] s.op = "update" ->
            [op |-> s.op, name |-> s.name, assignments |-> s.assignments, source |-> SourceNodes(s)]
      [] s.op = "delete" -> [op |-> s.op, name |-> s.name, source |-> SourceNodes(s)]

=============================================================================
