------------------------------ MODULE MCDeploy ------------------------------
(* Small instances of Deploy: two users, two machines, four manifests. *)
EXTENDS Deploy

CONSTANTS u1, u2, t1, t2, A, B, C, Bad, Empty, V1, Model

Machine(name) ==
    [properties |-> ("hostname" :> name), containers |-> NoTable, system |-> "linux",
     client_interface |-> "disnix-ssh-client", target_property |-> "hostname", num_of_cores |-> 1]
Machines(targets) == [t \in targets |-> Machine(t)]

On(service, target) == Mapping(service, "c", target, Missing)
State(component, target, provider) ==
    [component |-> component, container |-> "c", target |-> target, service |-> component,
     provider |-> provider]
Service(name, connects_to) ==
    [name |-> name, pkg |-> name, type |-> "process", depends_on |-> {},
     connects_to |-> connects_to, containers |-> NoTable]

Manifestation(name, targets, services, mappings, states) ==
    [version |-> 2, profiles |-> [t \in targets |-> <<name, t>>], services |-> services,
     serviceMappings |-> mappings, snapshotMappings |-> states,
     infrastructure |-> Machines(targets)]

\* A provider p of a container on t1, a component e in it, and w on t2 that
\* connects to both.
DocumentA ==
    Manifestation(A, {t1, t2},
      ("p" :> Service("p", {})) @@ ("e" :> Service("e", {On("p", t1)}))
        @@ ("w" :> Service("w", {On("p", t1), On("e", t1)})),
      {On("p", t1), On("e", t1), On("w", t2)}, {State("e", t1, "p")})
\* Without e, and w on t1.
DocumentB ==
    Manifestation(B, {t1, t2},
      ("p" :> Service("p", {})) @@ ("w" :> Service("w", {On("p", t1)})),
      {On("p", t1), On("w", t1)}, {})
\* Only one machine is left, and nothing that e could be restored to.
DocumentC == Manifestation(C, {t2}, "w" :> Service("w", {}), {On("w", t2)}, {})
\* A mapping refers to a service that is not there.
DocumentBad == Manifestation(Bad, {t1}, NoTable, {On("w", t1)}, {})
\* Nothing, nowhere.
DocumentEmpty == Manifestation(Empty, {}, NoTable, {}, {})
\* A document of the version before: machines by address, no table of services.
DocumentV1 ==
    [version |-> 1, distribution |-> {[profile |-> <<V1, t1>>, target |-> <<"at", t1>>]},
     activation |-> {[key |-> "p", target |-> <<"at", t1>>, container |-> "c", service |-> "p",
                      name |-> "p", type |-> "process", dependsOn |-> {}, connectsTo |-> {}]},
     snapshots |-> {}]
DocumentModel == Manifestation(Model, {t1, t2}, NoTable, {}, {})

MCBuilt ==
    (A :> DocumentA) @@ (B :> DocumentB) @@ (C :> DocumentC) @@ (Bad :> DocumentBad) @@ (Empty :> DocumentEmpty)
      @@ (V1 :> DocumentV1) @@ (Model :> DocumentModel)

\* The machines of the old manifest have their addresses as a property.
MCInfrastructure ==
    [t \in {t1, t2} |-> [Machine(t) EXCEPT !.properties = "hostname" :> <<"at", t>>]]

Ask(script, asked, file) == [script |-> script, asked |-> asked, file |-> file, env |-> NoTable]
AskIn(env, script, asked, file) == [Ask(script, asked, file) EXCEPT !.env = env]

\* No request, and no file, is about a user.
Users == Permutations({u1, u2})

yes(options) == [option \in options |-> "yes"]

MCRequests ==
    {Ask("disnix-env", yes({"no-lock"}) @@ ("keep" :> "2"), A),
     AskIn("DISNIX_PROFILE" :> "default", "disnix-env", ("p" :> "prod") @@ ("m" :> "4"), A),
     AskIn("DISNIX_DELETE_STATE" :> "1", "disnix-env", yes({"depth-first"}), B),
     Ask("disnix-env", yes({"no-upgrade"}), B),
     Ask("disnix-env", NoTable, C),
     Ask("disnix-env", yes({"no-migration"}), C),
     Ask("disnix-env", yes({"no-target-profiles"}), B),
     Ask("disnix-env", NoTable, Bad),
     Ask("disnix-env", NoTable, Empty),
     Ask("disnix-env", NoTable, Rollback),
     Ask("disnix-delegate", "m" :> "1", Model),
     Ask("disnix-reconstruct", "interface" :> "disnix-ssh-client", Model),
     Ask("disnix-convert", "i" :> Model, None),
     Ask("activate", yes({"dry-run"}), A),
     Ask("lock", yes({"u"}), None),
     Ask("collect_garbage", yes({"d"}), Model)}
=============================================================================
