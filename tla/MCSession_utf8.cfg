SPECIFICATION Spec
CONSTANTS
    Txn = {t1, t2}
    MaxSessions = 2
    TableName <- Names
    SQLValue <- Strings
    Statement <- StringStatements
    ExactInteger = 8
    FloatUnit = 1
    InvalidUTF8 = {9}
    Replaced = 7
    Unset = Unset
    NoRow = NoRow
    NoStatement = NoStatement
    NoFilter = NoFilter
    Nil = Nil
    NoWrite = NoWrite
INVARIANT RowsUnderTheirKey
CHECK_DEADLOCK FALSE
