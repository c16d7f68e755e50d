------------------------------ MODULE MCFleet ------------------------------
(***************************************************************************)
(* Instances of Fleet for TLC.  The derivations d1 and d2 share a source,  *)
(* their results and the profile a library; d3 depends on d1.              *)
(***************************************************************************)
EXTENDS Fleet, TLC

MCReferences ==
    "d1" :> {"src"} @@ "d2" :> {"src"} @@ "d3" :> {"d1"} @@ "src" :> {}
    @@ "o1" :> {"lib"} @@ "o2" :> {"lib"} @@ "o3" :> {"o1"} @@ "lib" :> {} @@ "prof" :> {"lib"}

MCOutputs == "d1" :> "o1" @@ "d2" :> "o2" @@ "d3" :> "o3"

OnCoordinator(paths, targets) == "coordinator" :> paths @@ [t \in targets |-> {}]
On(path, target) == [path |-> path, target |-> target]

Builds(is, n) ==
    [program |-> "build", items |-> is, limit |-> n,
     store |-> OnCoordinator({"d1", "d2", "d3", "src"}, {"t1", "t2"})]
Distributes(n) ==
    [program |-> "distribute", items |-> <<On("prof", "t1"), On("o1", "t1"), On("prof", "t2")>>,
     limit |-> n, store |-> OnCoordinator({"prof", "o1", "lib"}, {"t1", "t2"})]
OnTargets(p, n, targets) ==
    [program |-> p, items |-> [i \in DOMAIN targets |-> On("prof", targets[i])], limit |-> n,
     store |-> "coordinator" :> {} @@ [t \in Range(targets) |-> {"prof", "lib"}]]

\* Two or three derivations, one target or two; three or four targets otherwise.
MCScenarios ==
    {Builds(<<On("d1", "t1"), On("d2", t)>>, n) : t \in {"t1", "t2"}, n \in 0 .. 2}
    \cup {Builds(<<On("d1", "t1"), On("d2", "t2"), On("d3", "t1")>>, n) : n \in {1, 2}}
    \cup {Distributes(n) : n \in {1, 2}}
    \cup {OnTargets("capture_manifest", n, <<"t1", "t2", "t3">>) : n \in {1, 2}}
    \cup {OnTargets(p, 1, <<"t1", "t2", "t3", "t4">>) : p \in {"query", "command"}}
=============================================================================
