------------------------------ MODULE Iteration ------------------------------
(***************************************************************************)
(* What the process iterators promise to the programs that use them:       *)
(* every item of an iteration gets one process, in the order of the items  *)
(* and within a bound; each is waited for once; an iteration follows       *)
(* another over the items that succeeded; and the verdict is about every   *)
(* process of the last one.                                                *)
(***************************************************************************)
EXTENDS Naturals, FiniteSets

VARIABLES
    waiting,    \* the items no process was started for
    active,     \* the items with a process nobody waited for
    good,       \* the items whose process succeeded
    bad,        \* those whose process failed
    left,       \* the iterations that follow this one
    verdict,    \* the exit status, or "none"
    bound,      \* the most processes at a time, as the program says
    tolerant    \* whether it ignores failures of this iteration

items == <<waiting, active, good, bad>>
promised == <<items, left, verdict>>

Init ==
    /\ waiting \subseteq Nat /\ active = {} /\ good = {} /\ bad = {}
    /\ left \in Nat /\ verdict = "none"

MayStart == verdict = "none" /\ waiting # {} /\ Cardinality(active) < bound

Start(i) ==
    /\ MayStart /\ i \in waiting /\ \A j \in waiting : i <= j
    /\ waiting' = waiting \ {i} /\ active' = active \cup {i}
    /\ UNCHANGED <<good, bad, left, verdict>>

\* No process is started for an item: the program dies.
Crash == MayStart /\ verdict' = "crashed" /\ UNCHANGED <<items, left>>

Finish(i) ==
    /\ verdict = "none" /\ i \in active
    /\ active' = active \ {i}
    /\ \/ good' = good \cup {i} /\ UNCHANGED bad
       \/ bad' = bad \cup {i} /\ UNCHANGED good
    /\ UNCHANGED <<waiting, left, verdict>>

Over == verdict = "none" /\ waiting = {} /\ active = {}
GoesOn == left > 0 /\ (bad = {} \/ tolerant)

Again ==
    /\ Over /\ GoesOn
    /\ waiting' \subseteq Nat /\ Cardinality(waiting') = Cardinality(good)
    /\ active' = {} /\ good' = {} /\ bad' = {}
    /\ left' = left - 1
    /\ UNCHANGED verdict

Stop ==
    /\ Over /\ ~GoesOn
    /\ verdict' = IF bad = {} THEN "0" ELSE "1"
    /\ UNCHANGED <<items, left>>

Next ==
    \/ \E i \in waiting : Start(i)
    \/ \E i \in active : Finish(i)
    \/ Crash \/ Again \/ Stop

Spec == Init /\ [][Next]_promised
=============================================================================
