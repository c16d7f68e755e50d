\* Deployments, dry runs included, where fork() may fail and a failed
\* operation may have changed the service.
CONSTANTS
    Mapping <- MCMapping
    Machine <- MCMachine
    Deps <- MCDeps
    TargetOf <- MCTargetOf
    Cores <- MCCores
    UpWalk <- MCUpWalk
    DownWalk <- MCDownWalk
    Requests <- MCRequests
    Include <- All
    CoresOfA = 2
    ForkMayFail = TRUE
    PartialEffects = TRUE
SPECIFICATION Spec
INVARIANTS
    KeptUntouched
    SuccessIsReal
PROPERTIES
    NoOrphan
