SPECIFICATION FairSpec
CONSTANTS
    a = a
    b = b
    Client = {a, b}
    Scripts <- Inputs
    SocketBuffer = 1
INVARIANTS
    TypeOK
    
    AnswersAreTrue
    CommitsWhatWasSent
    OneStatementAfterClose
    EndsWithAllAnswers
PROPERTIES
    ShutdownCompletes
    ClientsEnd
CHECK_DEADLOCK FALSE
