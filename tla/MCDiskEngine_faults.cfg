SPECIFICATION Spec
CONSTANTS
    Proc = {p1}
    Key <- TwoKeys
    Value <- TwoValues
    Ranges <- NoRanges
    Nil = Nil
    Missing = Missing
    NoProc = NoProc
    NoScan = NoScan
    ReadError = ReadError
    Word = 8
    Faults = {"short_write", "swap_crash", "restore_fails"}
    MaxLog = 10
PROPERTY ReadsLastWrite
CHECK_DEADLOCK FALSE
