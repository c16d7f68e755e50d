--------------------------- MODULE DependencyWalk ---------------------------
(***************************************************************************)
(* The recursions of src/libmanifest/servicemapping-traverse.c, as the     *)
(* order in which they settle mappings when none of them stops the visit:  *)
(* a mapping follows everything the recursion visits from it, and a        *)
(* mapping met again is settled already.                                   *)
(***************************************************************************)
EXTENDS Naturals, Sequences, FiniteSets, SequencesExt

\* The mappings a set contains, in array order.
Sorted(S) == CHOOSE s \in [1 .. Cardinality(S) -> S] : \A i, j \in DOMAIN s : i < j => s[i] < s[j]

\* The order in which a recursion over neighbours settles mappings.
Settling(neighbours) ==
    LET walk[m \in DOMAIN neighbours] ==
            LET before == Sorted(neighbours[m]) IN
            Append(FlattenSeq([i \in DOMAIN before |-> walk[before[i]]]), m)
    IN walk

\* find_interdependent_service_mappings, for every mapping
Dependents(deps) == [m \in DOMAIN deps |-> {x \in DOMAIN deps : m \in deps[x]}]

\* traverse_inter_dependency_mappings visits depends_on first
InterDependencyWalk(deps) == Settling(deps)

\* traverse_interdependent_mappings visits the mappings depending on it first
InterdependentWalk(deps) == Settling(Dependents(deps))

-----------------------------------------------------------------------------
(* What a traversal needs of the walks. *)

\* Every non-empty set of mappings has one that needs none of the others.
Acyclic(deps) ==
    \A S \in SUBSET DOMAIN deps : S # {} => \E m \in S : deps[m] \cap S = {}

\* A walk comes to its root, settles what a mapping needs before the mapping, and
\* stays within what the root needs.
SettlesNeedsFirst(up, deps) ==
    /\ up \in [DOMAIN deps -> Seq(DOMAIN deps)]
    /\ \A r \in DOMAIN deps :
        /\ \E k \in DOMAIN up[r] : up[r][k] = r
        /\ \A k \in DOMAIN up[r] : \A d \in deps[up[r][k]] : \E j \in 1 .. k - 1 : up[r][j] = d
        /\ \A S \in SUBSET DOMAIN deps :
             (r \in S /\ \A m \in S : deps[m] \subseteq S) => \A k \in DOMAIN up[r] : up[r][k] \in S

\* The reverse walk settles what needs a mapping before the mapping, and stays
\* outside what does not need the root.
SettlesUsersFirst(down, deps) ==
    /\ down \in [DOMAIN deps -> Seq(DOMAIN deps)]
    /\ \A r \in DOMAIN deps :
        /\ \E k \in DOMAIN down[r] : down[r][k] = r
        /\ \A k \in DOMAIN down[r] : \A m \in DOMAIN deps :
             down[r][k] \in deps[m] => \E j \in 1 .. k - 1 : down[r][j] = m
        /\ \A S \in SUBSET DOMAIN deps :
             (r \notin S /\ \A m \in S : deps[m] \subseteq S) => \A k \in DOMAIN down[r] : down[r][k] \notin S
=============================================================================
