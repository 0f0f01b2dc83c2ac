------------------------------- MODULE MCQuery --------------------------------
(* Tables, rows and statements for model checking queries. *)
EXTENDS Query

Num(n) == [kind |-> "integer", n |-> n]
Real(n) == [kind |-> "float", n |-> n]
Str(n) == [kind |-> "string", n |-> n]
L(v) == <<"literal", v>>
C(name) == <<"column", name>>
F(function, name) == <<"function", function, name>>
Compares(left, operation, right) == [left |-> left, operation |-> operation, right |-> right]
As(expression, alias) == [expression |-> expression, alias |-> alias]
Plain(expression) == As(expression, Unset)
By(column, descending) == [column |-> column, descending |-> descending]

Column(name, type, nullable, default, primaryKey) ==
    [name |-> name, dataType |-> type, nullable |-> nullable, default |-> default, primaryKey |-> primaryKey]

Create(name, columns) == [op |-> "create", definition |-> [name |-> name, columns |-> columns]]

(* Two tables with a column name in common, NULL in every other column. *)
CreateT ==
    Create("t", <<Column("id", "integer", Unset, Unset, TRUE), Column("v", "integer", Unset, Unset, FALSE)>>)
CreateU ==
    Create("u", <<Column("id", "integer", FALSE, Unset, TRUE), Column("w", "float", TRUE, L(Null), FALSE),
                  Column("s", "string", Unset, L(Str(1)), FALSE)>>)

RowsOfT ==
    {<<>>,
     <<<<Num(1), Num(1)>>, <<Num(2), Null>>, <<Num(3), Num(1)>>>>,
     <<<<Num(1), Num(2)>>, <<Num(2), Num(0)>>, <<Num(4), Num(2)>>>>,
     <<<<Num(1), Num(3)>>, <<Num(2), Num(2)>>, <<Num(3), Num(3)>>, <<Num(4), Num(1)>>>>,
     <<<<Num(2), Null>>, <<Num(3), Null>>>>}
RowsOfU ==
    {<<>>,
     <<<<Num(1), Real(60), Str(2)>>, <<Num(2), Null, Str(1)>>>>,
     <<<<Num(2), Real(90), Null>>, <<Num(3), Real(120), Str(1)>>>>,
     <<<<Num(1), Null, Str(1)>>, <<Num(3), Real(60), Str(2)>>, <<Num(5), Real(60), Str(1)>>>>}

Databases ==
    {[t |-> [table |-> tableFromCreateStatement(CreateT.definition), rows |-> rt],
      u |-> [table |-> tableFromCreateStatement(CreateU.definition), rows |-> ru]] :
        rt \in RowsOfT, ru \in RowsOfU}

-----------------------------------------------------------------------------
From(table, joins) == [table |-> table, joins |-> joins]
Join(type, table, left, right) ==
    [type |-> type, table |-> table, predicate |-> Compares(left, "=", right)]
Cross(table) == [type |-> "cross", table |-> table, predicate |-> Unset]

T == From("t", <<>>)
Outer == {From("t", <<Join("left", "u", C("v"), C("id"))>>), From("t", <<Join("right", "u", C("v"), C("id"))>>)}
Chains ==
    {From("t", <<Join("left", "u", C("v"), C("id")), Join("right", "t", C("w"), C("id"))>>),
     From("t", <<Join("right", "u", C("id"), C("w")), Join("inner", "t", C("id"), C("v"))>>),
     From("u", <<Cross("t"), Join("left", "u", C("v"), C("w"))>>)}
Joins ==
    {From("t", <<Join("inner", "u", C("v"), C("id"))>>), From("t", <<Cross("u")>>),
     From("t", <<Join("right", "u", C("w"), C("v"))>>), From("t", <<Join("left", "u", C("v"), C("s"))>>),
     From("t", <<Join("right", "t", L(Num(1)), C("v"))>>), From("t", <<Cross("missing")>>)}

Wheres == {Unset, Compares(C("v"), "<", L(Num(2))), Compares(C("w"), ">", C("v"))}

Select(items, from, where, groupBy, having, orderBy, limit, offset) ==
    [op |-> "select", items |-> items, from |-> from, where |-> where, groupBy |-> groupBy,
     having |-> having, orderBy |-> orderBy, limit |-> limit, offset |-> offset]

PlainItems ==
    {<<>>, <<Plain(C("v")), As(C("id"), "k"), Plain(L(Str(3)))>>, <<As(L(Boolean(TRUE)), "one"), Plain(C("w"))>>}

\* Joins of every kind, columns found and missing on either side.
JoinQueries ==
    {Select(items, from, where, Unset, Unset, <<>>, Unset, Unset) :
        items \in PlainItems, from \in {T} \cup Outer \cup Chains \cup Joins, where \in Wheres}

AggregateItems ==
    {<<>>,
     <<Plain(F("count", "v")), Plain(F("sum", "id"))>>,
     <<Plain(C("v")), As(F("count", "w"), "n")>>,
     <<As(F("avg", "id"), "n"), Plain(F("max", "v")), Plain(F("min", "w"))>>,
     <<As(F("sum", "s"), "n")>>,
     <<Plain(F("median", "v"))>>,
     <<Plain(F("count", "v")), Plain(L(Num(1)))>>}

Havings == {Unset, Compares(C("n"), ">", L(Num(1))), Compares(F("count", "w"), ">", L(Num(0)))}

\* Groups and no groups, over joins and not, mixed with what does not fit.
AggregateQueries ==
    {Select(items, from, where, groupBy, having, <<>>, Unset, Unset) :
        items \in AggregateItems, from \in {T} \cup Outer, where \in Wheres,
        groupBy \in {Unset, C("v"), L(Num(1))}, having \in Havings}

Orders == {<<>>, <<By("v", TRUE)>>, <<By("v", FALSE), By("id", TRUE)>>, <<By("n", TRUE), By("v", FALSE)>>}

Limits == {Unset, L(Num(0)), L(Num(1)), L(Num(2))}
Offsets == {Unset, L(Num(0)), L(Num(1)), L(Num(3))}

\* Pages in order, of rows, projected rows and groups.
PagedQueries ==
    {Select(items, from, Unset, Unset, Unset, orderBy, limit, offset) :
        items \in {<<>>, <<Plain(C("id"))>>}, from \in {T} \cup Outer, orderBy \in Orders,
        limit \in Limits \cup {L(Real(60))}, offset \in Offsets \cup {C("id")}}
    \cup
    {Select(<<Plain(C("v")), As(F("count", "id"), "n")>>, from, Unset, C("v"), having, orderBy, limit, offset) :
        from \in Outer, having \in Havings, orderBy \in Orders, limit \in Limits, offset \in Offsets}

Insert(name, columns, values) == [op |-> "insert", name |-> name, columns |-> columns, values |-> values]
Update(name, assignments, filter) ==
    [op |-> "update", name |-> name, assignments |-> assignments, filter |-> filter]
Delete(name, filter) == [op |-> "delete", name |-> name, filter |-> filter]

Filters == Wheres \cup {Compares(L(Null), "=", C("id")), Compares(C("v"), "=", L(Str(1)))}

WriteStatements ==
    {CreateT, CreateU,
     Create("c", <<Column("b", "boolean", TRUE, L(Boolean(FALSE)), TRUE), Column("c", "string", FALSE, C("b"), FALSE)>>),
     Insert("t", <<>>, <<<<L(Num(1)), L(Null)>>, <<L(Num(2))>>>>),
     Insert("u", <<"s", "id">>, <<<<L(Str(1)), L(Num(1))>>, <<F("count", "id"), C("v")>>>>)}
    \cup {Update("t", assignments, filter) :
            assignments \in {[v |-> L(Num(1))], [v |-> L(Null), id |-> C("v")]}, filter \in Filters}
    \cup {Delete(name, filter) : name \in {"t", "u"}, filter \in Filters}

Statements == JoinQueries \cup AggregateQueries \cup PagedQueries \cup WriteStatements
=============================================================================
