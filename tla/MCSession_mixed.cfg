SPECIFICATION Spec
CONSTANTS
    Txn = {t1, t2, t3, t4}
    MaxSessions = 3
    TableName <- Names
    SQLValue <- Integers12
    Statement <- MixedStatements
    ExactInteger = 8
    FloatUnit = 1
    InvalidUTF8 = {9}
    Replaced = 7
    Unset = Unset
    NoRow = NoRow
    NoStatement = NoStatement
    NoFilter = NoFilter
    Nil = Nil
    NoWrite = NoWrite
SYMMETRY TxnSymmetry
INVARIANTS
    TypeOK
    StatementTakesEffectWhole
    ResultsDescribeSnapshot
    RowsFitTheirTable
    RowsUnderTheirKey
PROPERTY SchemasAreFixed
CHECK_DEADLOCK FALSE
