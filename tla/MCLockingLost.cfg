\* Connections to t break, the profile of u may be unusable, SIGINT may hit a.
CONSTANTS
    a = a
    b = b
    t = t
    u = u
    s = s
    a1 = a1
    a2 = a2
    b1 = b1
    Coordinator <- MCCoordinator
    Target <- MCTarget
    Service <- MCService
    TargetsOf <- MCTargetsOf
    Profiles <- UnusableProfiles
    Job <- MCJob
    JobsOf <- MCJobsOf
    Unreliable <- OnlyT
    Interruptible <- OnlyA
SPECIFICATION Spec
INVARIANTS
    LocksHeld
    NothingLeftLocked
