SPECIFICATION Spec
CONSTANTS
    MaxByte = 7
    WordBytes = 2
    Namespace <- ShortNamespace
    None = None
    RawByte <- RawBytes
    MaxRawKey = 3
    Versions <- SomeVersions
    Name <- Names
    Texts <- SomeTexts
INVARIANTS
    DecodeInvertsEncode
    VersionsSortByKey
    ScansAreExact
    RowsAreKeptApart
    KeysSortByValue
CHECK_DEADLOCK FALSE
