SPECIFICATION Spec
CONSTANTS
    Key = {k1, k2}
    Value = {a, b}
    Tombstone = Tombstone
    NoEntry = NoEntry
    Nil = Nil
    MaxVersion = 3
INVARIANTS
    TypeOK
    NoDirtyRead
    FirstUpdaterWins
    ScanAgreesWithGet
    IndInv
    GetReadsSnapshot
PROPERTIES
    SnapshotStability
    ImplementsSnapshotIsolation
