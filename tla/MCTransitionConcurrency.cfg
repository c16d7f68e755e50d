\* Two cores on machine a do not make two activations concurrent.
CONSTANTS
    Mapping <- MCMapping
    Machine <- MCMachine
    Deps <- MCDeps
    TargetOf <- MCTargetOf
    Cores <- MCCores
    UpWalk <- MCUpWalk
    DownWalk <- MCDownWalk
    Requests <- MCRequests
    Include <- Upgrades
    CoresOfA = 2
    ForkMayFail = FALSE
    PartialEffects = FALSE
SPECIFICATION Spec
INVARIANT
    AsManyAsPossible
