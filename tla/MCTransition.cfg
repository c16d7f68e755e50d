\* Deployments without dry runs; processes fork, and fail or succeed cleanly.
CONSTANTS
    Mapping <- MCMapping
    Machine <- MCMachine
    Deps <- MCDeps
    TargetOf <- MCTargetOf
    Cores <- MCCores
    UpWalk <- MCUpWalk
    DownWalk <- MCDownWalk
    Requests <- MCRequests
    Include <- Real
    CoresOfA = 1
    ForkMayFail = FALSE
    PartialEffects = FALSE
SPECIFICATION FairSpec
INVARIANTS
    TypeOK
    DependenciesUp
    CoresAccounted
    FailureRestoresOld
PROPERTIES
    Terminates
