SPECIFICATION Spec
CONSTANTS
    Proc = {p1}
    Key <- OneKey
    Value <- OneValue
    Ranges <- NoRanges
    Nil = Nil
    Missing = Missing
    NoProc = NoProc
    NoScan = NoScan
    ReadError = ReadError
    Word = 8
    Faults = {"swap_crash"}
    MaxLog = 10
INVARIANT DurableIsStore
