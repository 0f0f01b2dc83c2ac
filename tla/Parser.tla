-------------------------------- MODULE Parser --------------------------------
(***************************************************************************)
(* The recursive-descent parser, parser/parser.go, and its syntax trees,   *)
(* parser/ast.go.  Its input is what lexer.Lex returns: tokens, the last   *)
(* of which, and no other, is EndOfInput.  Symbols have a kind of their    *)
(* own; numbers and strings are literals with their value.                 *)
(*                                                                         *)
(* The trees of CREATE TABLE, INSERT, UPDATE and DELETE are the statements *)
(* of module Session.  Clauses left out are Unset.                         *)
(***************************************************************************)
EXTENDS Tables

Keyword(k) == [kind |-> "keyword", value |-> k]
Identifier(name) == [kind |-> "identifier", value |-> name]
Literal(v) == [kind |-> "literal", value |-> v]
Symbol(s) == [kind |-> s, value |-> s]
EndOfInput == Symbol("end")

\* KeywordFromIdentifier knows these, which are no names.
ReservedWord == {
    "CREATE", "TABLE", "INT", "INTEGER", "BOOLEAN", "BOOL", "STRING", "TEXT", "VARCHAR", "FLOAT",
    "DOUBLE", "SELECT", "FROM", "INSERT", "INTO", "VALUES", "TRUE", "FALSE", "DEFAULT", "NOT",
    "NULL", "PRIMARY", "KEY", "UPDATE", "SET", "WHERE", "DELETE", "ORDER", "BY", "ASC", "DESC",
    "LIMIT", "OFFSET", "AS", "CROSS", "JOIN", "LEFT", "RIGHT", "ON", "GROUP", "HAVING"}

\* The tokens inside a statement.
Token ==
    {Keyword(k) : k \in ReservedWord}
    \cup {Identifier(name) : name \in STRING}
    \cup {Literal(v) : v \in AnyValue}
    \cup {Symbol(s) : s \in {",", "(", ")", "*", "=", ">", "<"}}

-----------------------------------------------------------------------------
(***************************************************************************)
(* The syntax trees.                                                       *)
(***************************************************************************)
Optionally(S) == S \cup {Unset}

Expression ==
    ({"literal"} \X AnyValue) \cup ({"column"} \X STRING) \cup ({"function"} \X STRING \X STRING)

Operation == [left : Expression, operation : {"=", ">", "<"}, right : Expression]

JoinFromItem ==
    [type : {"inner", "cross", "left", "right"}, table : STRING, predicate : Optionally(Operation)]

FromItem == [table : STRING, joins : Seq(JoinFromItem)]

SelectItem == [expression : Expression, alias : Optionally(STRING)]

OrderBy == [column : STRING, descending : BOOLEAN]

SelectStatement ==
    [op : {"select"}, items : Seq(SelectItem), from : FromItem, where : Optionally(Operation),
     groupBy : Optionally(Expression), having : Optionally(Operation), orderBy : Seq(OrderBy),
     limit : Optionally(Expression), offset : Optionally(Expression)]

ColumnDefinition ==
    [name : STRING, dataType : DataType, nullable : Optionally(BOOLEAN),
     default : Optionally(Expression), primaryKey : BOOLEAN]

CreateTableStatement ==
    [op : {"create"}, definition : [name : STRING, columns : Seq(ColumnDefinition)]]

InsertStatement ==
    [op : {"insert"}, name : STRING, columns : Seq(STRING), values : Seq(Seq(Expression))]

DeleteStatement == [op : {"delete"}, name : STRING, filter : Optionally(Operation)]

\* SET assigns to finitely many columns.
IsUpdateStatement(s) ==
    /\ s.op = "update"
    /\ s.name \in STRING
    /\ IsFiniteSet(DOMAIN s.assignments)
    /\ \A c \in DOMAIN s.assignments : c \in STRING /\ s.assignments[c] \in Expression
    /\ s.filter \in Optionally(Operation)

-----------------------------------------------------------------------------
(***************************************************************************)
(* A parser has the tokens from its index on, the node it has just built,  *)
(* and whether it has met no error.  After an error it matches nothing.    *)
(***************************************************************************)
New(tokens) == [ok |-> TRUE, tokens |-> tokens, node |-> Unset]

Failed == [ok |-> FALSE, tokens |-> <<EndOfInput>>, node |-> Unset]

Yield(p, node) == IF p.ok THEN [p EXCEPT !.node = node] ELSE p

peek(p) == Head(p.tokens)

next(p) == IF peek(p).kind = "end" THEN p ELSE [p EXCEPT !.tokens = Tail(@)]

expect(p, kind) == IF p.ok /\ peek(p).kind = kind THEN next(p) ELSE Failed

AtKeyword(p, keywords) == IF peek(p).kind = "keyword" THEN peek(p).value \in keywords ELSE FALSE

expectKeyword(p, k) == IF AtKeyword(p, {k}) THEN next(p) ELSE Failed

expectIdentifier(p) ==
    IF peek(p).kind = "identifier" THEN Yield(next(p), peek(p).value) ELSE Failed

\* One item, and another one after every comma.
CommaSeparated(p, Item(_)) ==
    LET first == Item(p)
        more(q, item) == IF peek(q).kind = "," THEN Yield(item, Append(q.node, item.node)) ELSE q
        list[n \in 0..Len(first.tokens)] ==
            IF n = 0 THEN Yield(first, <<first.node>>) ELSE more(list[n - 1], Item(next(list[n - 1])))
    IN  list[Len(first.tokens)]

-----------------------------------------------------------------------------
(***************************************************************************)
(* Expressions.                                                            *)
(***************************************************************************)
KeywordLiteral == [TRUE |-> Boolean(TRUE), FALSE |-> Boolean(FALSE), NULL |-> Null]

parseExpression(p) ==
    LET token == peek(p)
        after == next(p)
        argument == expectIdentifier(next(after))
    IN  CASE token.kind = "identifier" /\ peek(after).kind # "(" ->
                Yield(after, <<"column", token.value>>)
          [] token.kind = "identifier" /\ peek(after).kind = "(" ->
                Yield(expect(argument, ")"), <<"function", token.value, argument.node>>)
          [] token.kind = "literal" -> Yield(after, <<"literal", token.value>>)
          [] AtKeyword(p, DOMAIN KeywordLiteral) ->
                Yield(after, <<"literal", KeywordLiteral[token.value]>>)
          [] OTHER -> Failed

parseComparisonExpression(p) ==
    LET left == parseExpression(p)
        right == parseExpression(next(left))
    IN  IF peek(left).kind \notin {"=", ">", "<"} THEN Failed
        ELSE Yield(right, [left |-> left.node, operation |-> peek(left).kind, right |-> right.node])

parseOptionalComparison(p, k) ==
    IF AtKeyword(p, {k}) THEN parseComparisonExpression(next(p)) ELSE Yield(p, Unset)

-----------------------------------------------------------------------------
(***************************************************************************)
(* SELECT.  The tree of FROM is left-deep: a table, and what is joined to  *)
(* it one after the other.                                                 *)
(***************************************************************************)
JoinKeywords == {"JOIN", "CROSS", "LEFT", "RIGHT"}

parseJoinType(p) ==
    LET type == [JOIN |-> "inner", CROSS |-> "cross", LEFT |-> "left", RIGHT |-> "right"]
    IN  Yield(IF AtKeyword(p, {"JOIN"}) THEN next(p) ELSE expectKeyword(next(p), "JOIN"),
              type[peek(p).value])

\* The planner swaps the inputs of a RIGHT JOIN, so the operands are swapped.
JoinPredicate(type, left, right) ==
    IF type = "right" THEN [left |-> right, operation |-> "=", right |-> left]
    ELSE [left |-> left, operation |-> "=", right |-> right]

parseJoin(p) ==
    LET type == parseJoinType(p)
        table == expectIdentifier(type)
        left == parseExpression(expectKeyword(table, "ON"))
        right == parseExpression(expect(left, "="))
    IN  IF type.ok /\ type.node = "cross"
        THEN Yield(table, [type |-> "cross", table |-> table.node, predicate |-> Unset])
        ELSE Yield(right, [type |-> type.node, table |-> table.node,
                           predicate |-> JoinPredicate(type.node, left.node, right.node)])

parseFromClause(p) ==
    LET table == expectIdentifier(expectKeyword(p, "FROM"))
        more(q, join) ==
            IF AtKeyword(q, JoinKeywords)
            THEN Yield(join, [q.node EXCEPT !.joins = Append(@, join.node)]) ELSE q
        from[n \in 0..Len(table.tokens)] ==
            IF n = 0 THEN Yield(table, [table |-> table.node, joins |-> <<>>])
            ELSE more(from[n - 1], parseJoin(from[n - 1]))
    IN  from[Len(table.tokens)]

parseSelectItem(p) ==
    LET expression == parseExpression(p)
        alias == IF AtKeyword(expression, {"AS"}) THEN expectIdentifier(next(expression))
                 ELSE Yield(expression, Unset)
    IN  Yield(alias, [expression |-> expression.node, alias |-> alias.node])

parseSelectItems(p) ==
    IF peek(p).kind = "*" THEN Yield(next(p), <<>>) ELSE CommaSeparated(p, parseSelectItem)

parseGroupBy(p) ==
    IF AtKeyword(p, {"GROUP"}) THEN parseExpression(expectKeyword(next(p), "BY")) ELSE Yield(p, Unset)

parseOrderItem(p) ==
    LET column == expectIdentifier(p)
        direction == IF AtKeyword(column, {"ASC", "DESC"}) THEN next(column) ELSE column
    IN  Yield(direction, [column |-> column.node, descending |-> AtKeyword(column, {"DESC"})])

parseOrderBy(p) ==
    IF AtKeyword(p, {"ORDER"}) THEN CommaSeparated(expectKeyword(next(p), "BY"), parseOrderItem)
    ELSE Yield(p, <<>>)

\* LIMIT and OFFSET
parseOptionalExpression(p, k) ==
    IF AtKeyword(p, {k}) THEN parseExpression(next(p)) ELSE Yield(p, Unset)

parseSelect(p) ==
    LET items == parseSelectItems(expectKeyword(p, "SELECT"))
        from == parseFromClause(items)
        where == parseOptionalComparison(from, "WHERE")
        groupBy == parseGroupBy(where)
        having == parseOptionalComparison(groupBy, "HAVING")
        orderBy == parseOrderBy(having)
        limit == parseOptionalExpression(orderBy, "LIMIT")
        offset == parseOptionalExpression(limit, "OFFSET")
    IN  Yield(offset, [op |-> "select", items |-> items.node, from |-> from.node,
                       where |-> where.node, groupBy |-> groupBy.node, having |-> having.node,
                       orderBy |-> orderBy.node, limit |-> limit.node, offset |-> offset.node])

-----------------------------------------------------------------------------
(***************************************************************************)
(* CREATE TABLE.                                                           *)
(***************************************************************************)
keywordDataType(k) ==
    CASE k \in {"INT", "INTEGER"} -> "integer"
      [] k \in {"BOOL", "BOOLEAN"} -> "boolean"
      [] k \in {"FLOAT", "DOUBLE"} -> "float"
      [] k \in {"STRING", "TEXT", "VARCHAR"} -> "string"
      [] OTHER -> "none"

\* One constraint of a column, of which p.node is what is known so far.
parseConstraint(p) ==
    LET default == parseExpression(next(p))
    IN  CASE AtKeyword(p, {"NULL"}) -> Yield(next(p), [p.node EXCEPT !.nullable = TRUE])
          [] AtKeyword(p, {"NOT"}) ->
                Yield(expectKeyword(next(p), "NULL"), [p.node EXCEPT !.nullable = FALSE])
          [] AtKeyword(p, {"DEFAULT"}) -> Yield(default, [p.node EXCEPT !.default = default.node])
          [] AtKeyword(p, {"PRIMARY"}) ->
                Yield(expectKeyword(next(p), "KEY"), [p.node EXCEPT !.primaryKey = TRUE])
          [] OTHER -> Failed

\* Mutant: a column has one constraint.
parseConstraints_one(column) ==
    IF peek(column).kind = "keyword" THEN parseConstraint(column) ELSE column

parseConstraints(column) ==
    LET more(p) == IF peek(p).kind = "keyword" THEN parseConstraint(p) ELSE p
        constrained[n \in 0..Len(column.tokens)] ==
            IF n = 0 THEN column ELSE more(constrained[n - 1])
    IN  constrained[Len(column.tokens)]

\* The constraints end at the first token that is not a keyword.
parseColumn(p) ==
    LET name == expectIdentifier(p)
        type == IF peek(name).kind = "keyword" THEN keywordDataType(peek(name).value) ELSE "none"
        column == Yield(next(name), [name |-> name.node, dataType |-> type, nullable |-> Unset,
                                     default |-> Unset, primaryKey |-> FALSE])
    IN  IF type = "none" THEN Failed ELSE parseConstraints(column)

parseCreateTable(p) ==
    LET name == expectIdentifier(expectKeyword(expectKeyword(p, "CREATE"), "TABLE"))
        columns == CommaSeparated(expect(name, "("), parseColumn)
    IN  Yield(expect(columns, ")"),
              [op |-> "create", definition |-> [name |-> name.node, columns |-> columns.node]])

-----------------------------------------------------------------------------
(***************************************************************************)
(* INSERT, UPDATE, DELETE.                                                 *)
(***************************************************************************)
parseColumnList(p) ==
    LET columns == CommaSeparated(next(p), expectIdentifier)
    IN  IF peek(p).kind = "(" THEN Yield(expect(columns, ")"), columns.node) ELSE Yield(p, <<>>)

parseRow(p) ==
    LET values == CommaSeparated(expect(p, "("), parseExpression)
    IN  Yield(expect(values, ")"), values.node)

parseInsert(p) ==
    LET name == expectIdentifier(expectKeyword(expectKeyword(p, "INSERT"), "INTO"))
        columns == parseColumnList(name)
        rows == CommaSeparated(expectKeyword(columns, "VALUES"), parseRow)
    IN  Yield(rows, [op |-> "insert", name |-> name.node, columns |-> columns.node, values |-> rows.node])

parseAssignment(p) ==
    LET column == expectIdentifier(p)
        value == parseExpression(expect(column, "="))
    IN  Yield(value, <<column.node, value.node>>)

\* A column may be assigned once.
AssignedOnce(list) == \A i, j \in 1..Len(list) : list[i][1] = list[j][1] => i = j

Assignments(list) ==
    [c \in {list[i][1] : i \in 1..Len(list)} |-> list[SelectInSeq(list, LAMBDA a : a[1] = c)][2]]

parseUpdate(p) ==
    LET name == expectIdentifier(expectKeyword(p, "UPDATE"))
        assignments == CommaSeparated(expectKeyword(name, "SET"), parseAssignment)
        filter == parseOptionalComparison(assignments, "WHERE")
    IN  IF assignments.ok /\ AssignedOnce(assignments.node)
        THEN Yield(filter, [op |-> "update", name |-> name.node,
                            assignments |-> Assignments(assignments.node), filter |-> filter.node])
        ELSE Failed

parseDelete(p) ==
    LET name == expectIdentifier(expectKeyword(expectKeyword(p, "DELETE"), "FROM"))
        filter == parseOptionalComparison(name, "WHERE")
    IN  Yield(filter, [op |-> "delete", name |-> name.node, filter |-> filter.node])

-----------------------------------------------------------------------------
parseStatement(p) ==
    CASE AtKeyword(p, {"SELECT"}) -> parseSelect(p)
      [] AtKeyword(p, {"CREATE"}) -> parseCreateTable(p)
      [] AtKeyword(p, {"INSERT"}) -> parseInsert(p)
      [] AtKeyword(p, {"UPDATE"}) -> parseUpdate(p)
      [] AtKeyword(p, {"DELETE"}) -> parseDelete(p)
      [] OTHER -> Failed

\* Mutant: the semicolon may be missing.
Parse_optionalSemicolon(tokens) ==
    LET statement == parseStatement(New(tokens))
    IN  expect(IF peek(statement).kind = ";" THEN next(statement) ELSE statement, "end")

\* Parse: a statement, a semicolon, and nothing else.
Parse(tokens) == expect(expect(parseStatement(New(tokens)), ";"), "end")

=============================================================================
