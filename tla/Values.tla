-------------------------------- MODULE Values --------------------------------
(***************************************************************************)
(* SQL values and the predicates over them: types/value.go, planner/       *)
(* value.go, executor/expression.go and executor/filter.go.                *)
(*                                                                         *)
(* A value is its kind and a number: 0 or 1 for a boolean, an integer, a   *)
(* float in units of 1/FloatUnit, the rank in byte order for a string.     *)
(* The lexer has no negative literals, so no number is below zero.         *)
(***************************************************************************)
EXTENDS Integers, Sequences, SequencesExt

CONSTANTS
    ExactInteger,  \* the largest integer below which float64 has them all: 2^53
    FloatUnit,     \* how many units of a float make one
    InvalidUTF8,   \* ranks of the strings that are not valid UTF-8
    Replaced       \* rank of such a string once its bad bytes are U+FFFD

ASSUME NumberAssumption == ExactInteger \in Nat /\ FloatUnit \in Nat \ {0}

DataType == {"boolean", "integer", "float", "string"}

ValueKind == DataType \cup {"null"}

AnyValue == [kind : ValueKind, n : Nat]

Null == [kind |-> "null", n |-> 0]

Boolean(b) == [kind |-> "boolean", n |-> IF b THEN 1 ELSE 0]

\* Stands for the error that evaluating an expression can return.
EvaluationError == [kind |-> "error", n |-> 0]

(***************************************************************************)
(* What a value has become once it has been written as JSON and read back. *)
(***************************************************************************)
JSON(v) == IF v.kind = "string" /\ v.n \in InvalidUTF8 THEN [v EXCEPT !.n = Replaced] ELSE v

\* float64 of an integer: beyond ExactInteger only every other integer is
\* there, and odd ones go to the neighbour with the even mantissa.
float64(n) ==
    CASE n <= ExactInteger \/ n % 2 = 0 -> n
      [] n > ExactInteger /\ n % 4 = 1 -> n - 1
      [] n > ExactInteger /\ n % 4 = 3 -> n + 1

-----------------------------------------------------------------------------
Sign(a, b) == IF a < b THEN -1 ELSE IF a > b THEN 1 ELSE 0

IsNumber(v) == v.kind \in {"integer", "float"}

\* The value of a number in units of a float.
AsFloat(v) == IF v.kind = "integer" THEN float64(v.n) * FloatUnit ELSE v.n

\* Value.Compare returns an error for the other pairs of kinds.
Comparable(v, other) ==
    \/ v.kind = other.kind
    \/ v = Null \/ other = Null
    \/ IsNumber(v) /\ IsNumber(other)

\* Value.Compare: NULL is the smallest, mixed numbers compare as floats.
Compare(v, other) ==
    CASE v.kind = other.kind -> Sign(v.n, other.n)
      [] v = Null /\ other # Null -> -1
      [] v # Null /\ other = Null -> 1
      [] IsNumber(v) /\ IsNumber(other) /\ v.kind # other.kind -> Sign(AsFloat(v), AsFloat(other))

Holds(operation, comparison) ==
    CASE operation = "=" -> comparison = 0
      [] operation = ">" -> comparison > 0
      [] operation = "<" -> comparison < 0

\* Mutant: NULL is compared like any other value.
evaluateComparison_twoValued(operation, left, right) ==
    IF ~Comparable(left, right) THEN EvaluationError
    ELSE Boolean(Holds(operation, Compare(left, right)))

\* A comparison with NULL is neither true nor false.
evaluateComparison(operation, left, right) ==
    IF left = Null \/ right = Null THEN Null
    ELSE IF ~Comparable(left, right) THEN EvaluationError
    ELSE Boolean(Holds(operation, Compare(left, right)))

(***************************************************************************)
(* evaluateExpression.  An operand is <<"literal", value>>, <<"column",    *)
(* name>> or <<"function", name, argument>>, which has no value in a row;  *)
(* the parser builds no deeper expressions.                                *)
(***************************************************************************)
\* slices.Index: the first column of that name; 0 if there is none.
Index(columns, name) == SelectInSeq(columns, LAMBDA c : c = name)

evaluateOperand(operand, columns, row) ==
    CASE operand[1] = "literal" -> operand[2]
      [] operand[1] = "function" -> EvaluationError
      [] operand[1] = "column" ->
            IF Index(columns, operand[2]) = 0 THEN EvaluationError
            ELSE row[Index(columns, operand[2])]

\* planner.ValueFromExpression: only literals are constants.
ValueFromExpression(operand) ==
    IF operand[1] = "literal" THEN operand[2] ELSE EvaluationError

\* The left operand reads the left row, the right one the right row.
evaluateExpression(p, leftColumns, leftRow, rightColumns, rightRow) ==
    LET left == evaluateOperand(p.left, leftColumns, leftRow)
        right == evaluateOperand(p.right, rightColumns, rightRow)
    IN  IF EvaluationError \in {left, right} THEN EvaluationError
        ELSE evaluateComparison(p.operation, left, right)

\* FilterExecutor.Execute keeps the rows for which the predicate is true...
FilterRows(p, columns, rows) ==
    LET isTrue(row) == evaluateExpression(p, columns, row, columns, row) = Boolean(TRUE)
        kept[n \in 0..Len(rows)] ==
            IF n = 0 THEN <<>>
            ELSE IF isTrue(rows[n]) THEN Append(kept[n - 1], rows[n]) ELSE kept[n - 1]
    IN  kept[Len(rows)]

\* ... and returns an error if it cannot be evaluated for one of them.
FilterFails(p, columns, rows) ==
    \E i \in 1..Len(rows) :
        evaluateExpression(p, columns, rows[i], columns, rows[i]) = EvaluationError

=============================================================================
