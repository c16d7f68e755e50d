\* State that moves between machines which are not addressed by their names.
CONSTANTS
    Mapping <- MCMapping
    Machine <- MCMachine
    Component <- MCComponent
    TargetOf <- MCTargetOf
    ComponentOf <- MCComponentOf
    Value <- MCValue
    Requests <- MCRequests
    Histories <- MCHistories
    Include <- Moving
    Keep = 1
    ForkMayFail = FALSE
SPECIFICATION Spec
INVARIANT
    StateArrives
