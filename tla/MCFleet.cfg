\* All programs, on up to three derivations or four targets, with failing processes.
CONSTANTS
    References <- MCReferences
    Outputs <- MCOutputs
    Scenarios <- MCScenarios
    Coordinator = "coordinator"
    Unlimited = 5
    MaxItems = 4
    Output = 2
    Capacity = 1
    MayFail = TRUE
    MayNotFork = TRUE
SPECIFICATION FairSpec
CHECK_DEADLOCK FALSE
INVARIANTS
    TypeOK
    EachCompletedOnce
    StoresClosed
    SuccessIsComplete
PROPERTIES
    Iterates
    Terminates
