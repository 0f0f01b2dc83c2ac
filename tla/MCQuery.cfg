SPECIFICATION Spec
CONSTANTS
    ExactInteger = 100
    FloatUnit = 60
    InvalidUTF8 = {}
    Replaced = 0
    Unset = Unset
    NoRow = NoRow
    PlanError = PlanError
    Statement <- Statements
    Database <- Databases
INVARIANTS
    ReadsWhatItSays
    OrderIsRight
    PagesAreWindows
    SensibleQueriesRun
    NothingPanics
    TreeIsTheText
    NoPrefixRuns
CHECK_DEADLOCK FALSE
