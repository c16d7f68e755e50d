----------------------------- MODULE Manifests -----------------------------
(***************************************************************************)
(* Manifests and profile manifests: how they are parsed, checked, compared *)
(* and put together again from the targets (src/libmanifest,               *)
(* src/libprofilemanifest, src/capture-manifest, src/libnixxml-glib).      *)
(*                                                                         *)
(* A document is a record of tables (functions) and arrays of mappings.    *)
(* Arrays are sorted by key when they are parsed and searched by key, so a *)
(* set of mappings stands for one.  Missing is an attribute that a         *)
(* document lacks.                                                         *)
(***************************************************************************)
EXTENDS Naturals, FiniteSets, Functions

CONSTANT Missing

NoTable == [x \in {} |-> x]

-----------------------------------------------------------------------------
(* Mappings. *)

\* Where a service is deployed; with the service of a dependency, what it needs.
ServiceKey(mapping) == <<mapping.target, mapping.container, mapping.service>>
SnapshotKey(mapping) == <<mapping.target, mapping.container, mapping.component>>

find_service_mapping(array, key) == \E other \in array : ServiceKey(other) = ServiceKey(key)
find_snapshot_mapping(array, key) == \E other \in array : SnapshotKey(other) = SnapshotKey(key)

subtract_service_mapping_array(left, right) == {mapping \in left : ~find_service_mapping(right, mapping)}

SameCount(left, right) == Cardinality(left) = Cardinality(right)

compare_service_mapping_arrays(left, right) ==
    SameCount(left, right) /\ \A mapping \in left : find_service_mapping(right, mapping)

compare_snapshot_mapping_arrays(left, right) ==
    SameCount(left, right) /\ \A mapping \in left : find_snapshot_mapping(right, mapping)

\* A mapping without a target is one of the machine the document is about.
Local(mapping, default_target) ==
    IF mapping.target = Missing THEN [mapping EXCEPT !.target = default_target] ELSE mapping

parse_mapping_array(array, default_target) == {Local(mapping, default_target) : mapping \in array}

check_service_mapping(mapping) == Missing \notin {mapping.service, mapping.container, mapping.target}

check_snapshot_mapping(mapping) ==
    Missing \notin {mapping.component, mapping.container, mapping.service, mapping.target}

mapping_is_selected(mapping, container, component) ==
    container \in {Missing, mapping.container} /\ component \in {Missing, mapping.component}

-----------------------------------------------------------------------------
(* Services and tables. *)

parse_manifest_service(service, default_target) ==
    [service EXCEPT !.depends_on = parse_mapping_array(@, default_target),
                    !.connects_to = parse_mapping_array(@, default_target)]

check_manifest_service(service) ==
    /\ Missing \notin {service.name, service.pkg, service.type}
    /\ \A mapping \in service.depends_on \cup service.connects_to : check_service_mapping(mapping)

compare_manifest_services(left, right) ==
    /\ left.name = right.name /\ left.pkg = right.pkg /\ left.type = right.type
    /\ compare_service_mapping_arrays(left.depends_on, right.depends_on)
    /\ compare_service_mapping_arrays(left.connects_to, right.connects_to)
    /\ left.containers = right.containers

compare_tables(left, right, Same(_, _)) ==
    /\ SameCount(DOMAIN left, DOMAIN right)
    /\ \A key \in DOMAIN left : key \in DOMAIN right /\ Same(left[key], right[key])

SameValue(left, right) == left = right

parse_services_table(table, default_target) ==
    [key \in DOMAIN table |-> parse_manifest_service(table[key], default_target)]

check_services_table(table) == \A key \in DOMAIN table : check_manifest_service(table[key])

-----------------------------------------------------------------------------
(* Targets: records of properties, containers, a system, an interface, the *)
(* property by which they are reached and a number of cores.               *)

find_target_key(target) == target.properties[target.target_property]

\* Nix writes the number of cores of every machine; available_cores, which would stay 0
\* without it, is that of Transition.
parse_target(target) == [target EXCEPT !.num_of_cores = IF @ = Missing THEN 1 ELSE @]

\* What is missing in a target is filled in from the command line.
augment_default_properties(targets, default_target_property, default_client_interface) ==
    [name \in DOMAIN targets |->
       [targets[name] EXCEPT
          !.target_property = IF @ = Missing THEN default_target_property ELSE @,
          !.client_interface = IF @ = Missing THEN default_client_interface ELSE @]]

create_targets_table(targets, default_target_property, default_client_interface) ==
    augment_default_properties([name \in DOMAIN targets |-> parse_target(targets[name])],
                               default_target_property, default_client_interface)

check_target(target) ==
    /\ Missing \notin {target.target_property, target.client_interface}
    /\ target.num_of_cores # 0
    /\ target.target_property \in DOMAIN target.properties

check_targets_table(targets) == \A name \in DOMAIN targets : check_target(targets[name])

compare_targets(left, right) ==
    \A field \in {"properties", "containers", "system", "client_interface", "target_property", "num_of_cores"} :
      left[field] = right[field]

-----------------------------------------------------------------------------
(* Manifests. *)

\* The parts of a manifest that a command asks for.
AllParts == {"profiles", "services", "serviceMappings", "snapshotMappings", "infrastructure"}

Manifest(profiles, services, service_mappings, snapshot_mappings, targets) ==
    [correct_version |-> TRUE, profiles |-> profiles, services |-> services,
     service_mappings |-> service_mappings, snapshot_mappings |-> snapshot_mappings,
     targets |-> targets]

EmptyManifest == Manifest(NoTable, NoTable, {}, {}, NoTable)

\* A document of an older version is reported and read as an empty manifest.
parse_manifest(doc, parts, container, component, hostname) ==
    IF doc.version # 2
    THEN [EmptyManifest EXCEPT !.correct_version = FALSE]
    ELSE Manifest(
           IF "profiles" \in parts THEN doc.profiles ELSE NoTable,
           IF parts \cap {"serviceMappings", "snapshotMappings"} # {}
           THEN parse_services_table(doc.services, hostname) ELSE NoTable,
           IF "serviceMappings" \in parts
           THEN parse_mapping_array(doc.serviceMappings, hostname) ELSE {},
           IF "snapshotMappings" \in parts
           THEN {mapping \in parse_mapping_array(doc.snapshotMappings, hostname) :
                   mapping_is_selected(mapping, container, component)} ELSE {},
           IF "infrastructure" \in parts
           THEN [name \in DOMAIN doc.infrastructure |-> parse_target(doc.infrastructure[name])] ELSE NoTable)

\* Every mapping refers to a service and to a target that the manifest has.
check_mapping_references(array, services, targets) ==
    \A mapping \in array : mapping.service \in DOMAIN services /\ mapping.target \in DOMAIN targets

check_manifest(manifest) ==
    /\ manifest.correct_version
    /\ Missing \notin Range(manifest.profiles)
    /\ check_services_table(manifest.services)
    /\ \A mapping \in manifest.service_mappings : check_service_mapping(mapping)
    /\ \A mapping \in manifest.snapshot_mappings : check_snapshot_mapping(mapping)
    /\ check_targets_table(manifest.targets)
    /\ check_mapping_references(manifest.service_mappings, manifest.services, manifest.targets)
    /\ check_mapping_references(manifest.snapshot_mappings, manifest.services, manifest.targets)

compare_manifests(left, right) ==
    /\ compare_tables(left.profiles, right.profiles, SameValue)
    /\ compare_tables(left.services, right.services, compare_manifest_services)
    /\ compare_service_mapping_arrays(left.service_mappings, right.service_mappings)
    /\ compare_snapshot_mapping_arrays(left.snapshot_mappings, right.snapshot_mappings)
    /\ compare_tables(left.targets, right.targets, compare_targets)

\* State in a container that a service provides can only be moved while that
\* service is part of the system.
check_safe_data_migration(old, new, no_migration) ==
    \/ no_migration
    \/ \A mapping \in old.snapshot_mappings : mapping.provider \in {Missing} \cup DOMAIN new.services

-----------------------------------------------------------------------------
(* Profile manifests: the part of a manifest that a target's profile holds. *)

\* nix/generate-profiles.nix leaves out the target's own name.
filterLocalTargets(array, target) ==
    {IF mapping.target = target THEN [mapping EXCEPT !.target = Missing] ELSE mapping : mapping \in array}

generateProfileManifest(doc, target) ==
    LET services == {mapping \in doc.serviceMappings : mapping.target = target}
        snapshots == {mapping \in doc.snapshotMappings : mapping.target = target}
        keys == {mapping.service : mapping \in services} \cap DOMAIN doc.services
    IN  [services |->
           [key \in keys |-> [doc.services[key] EXCEPT
              !.depends_on = filterLocalTargets(@, target),
              !.connects_to = filterLocalTargets(@, target)]],
         serviceMappings |-> filterLocalTargets(services, target),
         snapshotMappings |-> filterLocalTargets(snapshots, target)]

parse_profile_manifest(doc, default_target) ==
    [services |-> parse_services_table(doc.services, default_target),
     service_mappings |-> parse_mapping_array(doc.serviceMappings, default_target),
     snapshot_mappings |-> parse_mapping_array(doc.snapshotMappings, default_target)]

check_profile_manifest(profile_manifest) ==
    /\ check_services_table(profile_manifest.services)
    /\ \A mapping \in profile_manifest.service_mappings : check_service_mapping(mapping)
    /\ \A mapping \in profile_manifest.snapshot_mappings : check_snapshot_mapping(mapping)

-----------------------------------------------------------------------------
(* The manifest that the profiles on the targets describe together. *)

\* Of a service on several targets the one that is met first is taken.
aggregate_service_tables(tables) ==
    [key \in UNION {DOMAIN table : table \in tables} |->
       (CHOOSE table \in tables : key \in DOMAIN table)[key]]

\* parts: target |-> its profile and its parsed profile manifest.
aggregate_manifest(parts, targets) ==
    LET All(field) == UNION {parts[target].manifest[field] : target \in DOMAIN parts}
    IN  Manifest(
          [target \in DOMAIN parts |-> parts[target].profile],
          aggregate_service_tables({parts[target].manifest.services : target \in DOMAIN parts}),
          All("service_mappings"), All("snapshot_mappings"), targets)

\* disnix-capture-manifest prints the manifest as a deployment model, of which
\* disnix-manifest makes a document again.
Document(manifest) ==
    [version |-> 2, profiles |-> manifest.profiles, services |-> manifest.services,
     serviceMappings |-> manifest.service_mappings, snapshotMappings |-> manifest.snapshot_mappings,
     infrastructure |-> manifest.targets]
=============================================================================
