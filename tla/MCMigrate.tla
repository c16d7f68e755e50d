----------------------------- MODULE MCMigrate -----------------------------
(***************************************************************************)
(* Instances of Migrate for TLC: two stateful components on two machines,  *)
(* each component on at most one machine of a manifest.                    *)
(***************************************************************************)
EXTENDS Migrate

CONSTANTS Include(_)

MCMapping == 1 .. 4
MCMachine == {"a", "b"}
MCComponent == {"c", "d"}
MCTargetOf == <<"a", "a", "b", "b">>
MCComponentOf == <<"c", "d", "c", "d">>
MCValue == <<"v1", "v2", "v3", "v4">>
\* No snapshots, an older one on the coordinator, or one everywhere.
MCHistories ==
    {[h \in MCMachine \cup {"coordinator"} |-> IF h \in H THEN <<"v0">> ELSE <<>>] :
        H \in {{}, {"coordinator"}, MCMachine \cup {"coordinator"}}}

Manifests == {S \in SUBSET MCMapping :
    \A m, n \in S : m # n => MCComponentOf[m] # MCComponentOf[n]}

\* A machine is addressed by its name, or otherwise.
Address == [a |-> "a.example.org", b |-> "b.example.org"]
KeyTables ==
    {[t \in S |-> IF t \in named THEN t ELSE Address[t]] : S \in {{"b"}, {"a", "b"}}, named \in SUBSET MCMachine}

CoreTables == {[t \in S |-> n[t]] : S \in {{"b"}, {"a", "b"}}, n \in [MCMachine -> 1 .. 2]}

MCRequests ==
    {q \in [command : {"snapshot", "restore", "delete", "migrate"},
            old : Manifests, new : Manifests, cores : CoreTables, keys : KeyTables,
            known : BOOLEAN, upgrade : BOOLEAN, depthFirst : BOOLEAN,
            transferOnly : BOOLEAN, deleteState : BOOLEAN, all : BOOLEAN,
            limit : 1 .. 2] :
        /\ DOMAIN q.keys = DOMAIN q.cores
        /\ \A m \in q.new : MCTargetOf[m] \in DOMAIN q.cores
        /\ ~q.known => q.old = {}
        /\ ~q.upgrade => ~q.known
        /\ q.deleteState => q.command = "migrate"
        /\ q.command = "delete" => ~q.known /\ ~q.all /\ ~q.depthFirst /\ ~q.transferOnly
        /\ Include(q)}

ByName(q) == \A t \in DOMAIN q.keys : q.keys[t] = t
OneCore(q) == \A t \in DOMAIN q.cores : q.cores[t] = 1

\* One component moves from a to b, another one stays, appears or disappears;
\* the other commands work on everything.  Addresses matter to the transfers.
Typical(q) ==
    /\ q.command = "migrate" /\ q.known => 1 \in q.old /\ 3 \in q.new
    /\ q.command # "migrate" => ~q.depthFirst /\ ~q.transferOnly
    /\ q.all => q.command = "migrate" /\ OneCore(q)
    /\ q.limit = 2 => q.command = "migrate" /\ q.depthFirst
    /\ ~ByName(q) => q.command = "migrate" /\ q.known /\ OneCore(q) /\ ~q.all /\ q.limit = 1

\* The state of one component moves, and is then deleted on its old machine.
Moving(q) ==
    /\ q.command = "migrate" /\ q.known /\ q.old = {1} /\ q.new = {3}
    /\ q.deleteState /\ OneCore(q) /\ ~q.all /\ ~q.transferOnly
=============================================================================
