----------------------------- MODULE Exclusion -----------------------------
(***************************************************************************)
(* What locking promises to the users of Disnix: two deployments that have *)
(* a target machine in common are never both inside their transition.      *)
(***************************************************************************)
CONSTANTS
    Coordinator,    \* users or machines that deploy
    TargetsOf       \* TargetsOf[c]: the target machines c deploys to

VARIABLE inside     \* the coordinators between lock() and the release

Compete(c, d) == c # d /\ TargetsOf[c] \cap TargetsOf[d] # {}

Init == inside = {}

Enter(c) ==
    /\ c \notin inside
    /\ \A d \in inside : ~Compete(c, d)
    /\ inside' = inside \cup {c}

Leave(c) ==
    /\ c \in inside
    /\ inside' = inside \ {c}

Next == \E c \in Coordinator : Enter(c) \/ Leave(c)

Spec == Init /\ [][Next]_inside
=============================================================================
