SPECIFICATION Spec
CONSTANTS
    Proc = {p1, p2}
    Key <- TwoKeys
    Value <- Values
    Ranges <- SomeRanges
    Nil = Nil
    Missing = Missing
    NoProc = NoProc
    NoScan = NoScan
    ReadError = ReadError
    Word = 8
    Faults = {}
    MaxLog = 10
INVARIANTS
    TypeOK
    IndexMatchesLog
    DurableIsStore
    ScanIsSnapshot

SYMMETRY ProcSymmetry
