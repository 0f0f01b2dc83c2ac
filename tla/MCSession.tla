------------------------------ MODULE MCSession ------------------------------
(* Tables and statements for model checking sessions. *)
EXTENDS Session, TLC

Num(n) == [kind |-> "integer", n |-> n]
Text(n) == [kind |-> "string", n |-> n]
L(v) == <<"literal", v>>
C(name) == <<"column", name>>
Compares(left, operation, right) == [left |-> left, operation |-> operation, right |-> right]

PrimaryKeyColumn(type) ==
    [name |-> "id", dataType |-> type, nullable |-> Unset, default |-> Unset, primaryKey |-> TRUE]
DataColumn(type, nullable, default) ==
    [name |-> "v", dataType |-> type, nullable |-> nullable, default |-> default, primaryKey |-> FALSE]

Create(columns) == [op |-> "create", definition |-> [name |-> "t", columns |-> columns]]
Insert(columns, values) == [op |-> "insert", name |-> "t", columns |-> columns, values |-> values]
Update(assignments, filter) ==
    [op |-> "update", name |-> "t", assignments |-> assignments, filter |-> filter]
Delete(filter) == [op |-> "delete", name |-> "t", filter |-> filter]
SelectFrom(filter) == [op |-> "select", name |-> "t", filter |-> filter]

Names == {"t"}
Integers12 == {Null, Boolean(TRUE), Num(0), Num(1), Num(2)}

CreateNullable == Create(<<PrimaryKeyColumn("integer"), DataColumn("integer", Unset, Unset)>>)
CreateNotNull == Create(<<PrimaryKeyColumn("integer"), DataColumn("integer", FALSE, L(Num(0)))>>)

InsertTwo == Insert(<<>>, <<<<L(Num(1)), L(Num(0))>>, <<L(Num(2))>>>>)
InsertNull == Insert(<<"v", "id">>, <<<<L(Null), L(Num(0))>>>>)
InsertMixed == Insert(<<>>, <<<<L(Num(2)), L(Num(1))>>, <<L(Num(1)), L(Boolean(TRUE))>>>>)
InsertReversed == Insert(<<>>, <<<<L(Num(2)), L(Num(1))>>, <<L(Num(1)), L(Num(1))>>>>)

Move == Update([id |-> L(Num(0))], Compares(C("v"), "<", L(Num(1))))
SetAll == Update([v |-> L(Num(1))], NoFilter)
DeleteSmall == Delete(Compares(L(Num(1)), ">", C("v")))
SelectSmall == SelectFrom(Compares(C("v"), "<", L(Num(1))))
BadFilter == SelectFrom(Compares(C("w"), "=", L(Num(1))))

\* Two schemas for one name, rows with and without NULL, a row of the wrong
\* type after a good one, two INSERTs that write the same rows in opposite
\* orders, moves, deletes, an unknown column.
MixedStatements ==
    {CreateNullable, CreateNotNull, InsertTwo, InsertNull, InsertMixed, InsertReversed, Move, SetAll,
     DeleteSmall, SelectSmall, BadFilter}

\* Statements that write the same rows, in the same and in opposite orders.
WritingStatements == {CreateNullable, InsertTwo, InsertReversed, Move, SetAll, DeleteSmall}

\* String primary keys, one of them with bytes that are not UTF-8.
Strings == {Null, Text(1), Text(7), Text(9)}
StringStatements ==
    {Create(<<PrimaryKeyColumn("string")>>), Insert(<<>>, <<<<L(Text(1))>>, <<L(Text(9))>>>>)}

TxnSymmetry == Permutations(Txn)
=============================================================================
