----------------------------- MODULE MCLocking -----------------------------
(***************************************************************************)
(* Instances of Locking for TLC: two coordinators that both deploy to      *)
(* target t; a also deploys to target u.  Either a service runs on t, or   *)
(* no service runs and the profile of u may be unusable.                   *)
(***************************************************************************)
EXTENDS Locking

CONSTANTS a, b, t, u, s, a1, a2, b1

MCCoordinator == {a, b}
MCTarget == {t, u}
MCService == {s}
MCTargetsOf == [c \in MCCoordinator |-> IF c = a THEN {t, u} ELSE {t}]
Having(services) == [services |-> services, state |-> "valid"]
MCProfiles ==
    [x \in MCTarget |->
        {Having(IF x = t THEN <<s>> ELSE << >>)}]
UnusableProfiles ==
    [x \in MCTarget |->
        IF x = t THEN {Having(<< >>)}
        ELSE {[services |-> << >>, state |-> unusable] : unusable \in States}]
Nobody == {}
OnlyA == {a}
OnlyT == {t}
MCJob == {a1, a2, b1}
MCJobsOf == [c \in MCCoordinator |-> IF c = a THEN {a1, a2} ELSE {b1}]
=============================================================================
