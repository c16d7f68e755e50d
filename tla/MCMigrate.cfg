\* All commands, with failing operations and more than one core.
CONSTANTS
    Mapping <- MCMapping
    Machine <- MCMachine
    Component <- MCComponent
    TargetOf <- MCTargetOf
    ComponentOf <- MCComponentOf
    Value <- MCValue
    Requests <- MCRequests
    Histories <- MCHistories
    Include <- Typical
    Keep = 1
    ForkMayFail = TRUE
SPECIFICATION FairSpec
INVARIANTS
    TypeOK
    OneAtATime
    NothingLeftBehind
    RestoredIsMoved
    DeletedIsSaved
PROPERTIES
    NewestArrives
    Terminates
