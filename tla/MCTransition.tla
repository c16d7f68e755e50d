---------------------------- MODULE MCTransition ----------------------------
(***************************************************************************)
(* Instances of Transition for TLC: four mappings on two machines.  1 needs*)
(* 2 and 4, 3 needs 4.  The requests are all pairs of complete manifests   *)
(* that Include admits, with every flag; a machine without new mappings    *)
(* may be missing from the new targets table.                              *)
(***************************************************************************)
EXTENDS Transition, DependencyWalk

CONSTANTS Include(_), CoresOfA

MCMapping == 1 .. 4
MCMachine == {"a", "b"}
MCDeps == <<{2, 4}, {}, {4}, {}>>
MCTargetOf == <<"a", "b", "a", "a">>
MCCores == [t \in MCMachine |-> IF t = "a" THEN CoresOfA ELSE 1]
MCUpWalk == InterDependencyWalk(MCDeps)
MCDownWalk == InterdependentWalk(MCDeps)

Manifests == {S \in SUBSET MCMapping : \A m \in S : MCDeps[m] \subseteq S}

MCRequests ==
    {q \in [old : Manifests, new : Manifests, machines : SUBSET MCMachine,
            upgrade : BOOLEAN, rollback : BOOLEAN, dryRun : BOOLEAN] :
        /\ \A m \in q.new : MCTargetOf[m] \in q.machines
        /\ ~q.upgrade => q.old = {}
        /\ Include(q)}

\* On every acyclic inter-dependency graph of four mappings, whatever their
\* order in the arrays, the recursions settle mappings as the coordinator needs,
\* and go nowhere a closed set of mappings does not allow.
Graphs == [MCMapping -> SUBSET MCMapping]

ASSUME WalksSettleInOrder ==
    \A deps \in Graphs :
        Acyclic(deps) => /\ SettlesNeedsFirst(InterDependencyWalk(deps), deps)
                         /\ SettlesUsersFirst(InterdependentWalk(deps), deps)

\* Every deployment on machines that are all there, or with one missing.
All(q) == TRUE
Real(q) == ~q.dryRun
Upgrades(q) == q.upgrade /\ q.rollback /\ ~q.dryRun
=============================================================================
