\* Two users, two machines, and every kind of request.
CONSTANTS
    None = None
    Missing = Missing
    Link = Link
    Rollback = Rollback
    t1 = t1
    t2 = t2
    A = A
    B = B
    C = C
    Bad = Bad
    Empty = Empty
    V1 = V1
    Model = Model
    u1 = u1
    u2 = u2
    User = {u1, u2}
    Target = {t1, t2}
    Built <- MCBuilt
    Requests <- MCRequests
    Infrastructure <- MCInfrastructure
    InitialFiles = {None, V1, A}
    MaxRequests = 2
    MayFail = TRUE
    MayCrash = TRUE
SYMMETRY Users
SPECIFICATION Spec
CHECK_DEADLOCK FALSE
INVARIANTS TypeOK LeavesNoLocks OptionsArrive
PROPERTIES SuccessIsComplete Undisturbed DescribesSystem AdviceRestores
