SPECIFICATION Spec
CONSTANTS
    Key = {k1}
    Value = {a}
    Tombstone = Tombstone
    NoEntry = NoEntry
    Nil = Nil
    MaxVersion = 2
PROPERTY ConflictsAreWithActive
