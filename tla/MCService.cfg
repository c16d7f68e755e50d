\* Every call on its own, and clients with different kinds of answers against a
\* service that is started twice, may fail and may be killed.
CONSTANTS
    Daemon <- MCDaemon
    NoDaemon = "none"
    Client <- MCClient
    Scenarios <- MCScenarios
    Environment = "none"
    MaxKeep = 1
    MayFail = TRUE
    MayCrash = TRUE
SPECIFICATION FairSpec
CHECK_DEADLOCK FALSE
INVARIANTS
    TypeOK
    OneJobPerId
    SuccessIsReal
    CallsArrive
    ToldTheTruth
    PidFileNamesDaemon
PROPERTIES
    AnswersArrive
