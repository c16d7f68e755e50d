\* SIGINT may hit a; connections do not break.
CONSTANTS
    a = a
    b = b
    t = t
    u = u
    s = s
    a1 = a1
    a2 = a2
    b1 = b1
    Coordinator <- MCCoordinator
    Target <- MCTarget
    Service <- MCService
    TargetsOf <- MCTargetsOf
    Profiles <- MCProfiles
    Job <- MCJob
    JobsOf <- MCJobsOf
    Unreliable <- Nobody
    Interruptible <- OnlyA
SPECIFICATION FairSpec
INVARIANTS
    TypeOK
PROPERTIES
    Excludes
    CommandsReturn
