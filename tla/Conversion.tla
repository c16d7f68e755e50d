----------------------------- MODULE Conversion -----------------------------
(***************************************************************************)
(* disnix-convert-manifest: a manifest of the version before, which names  *)
(* machines by their addresses and has no table of services, is made one   *)
(* of today's with the help of an infrastructure model                     *)
(* (src/convert-manifest).                                                 *)
(*                                                                         *)
(* An old document has a version and three sets: distribution, activation  *)
(* and snapshots.                                                          *)
(***************************************************************************)
EXTENDS Manifests

check_distribution_array(array) == \A item \in array : Missing \notin {item.profile, item.target}

check_activation_array(array) ==
    \A item \in array :
      Missing \notin {item.key, item.target, item.container, item.service, item.name, item.type}

check_old_snapshots_array(array) ==
    \A item \in array :
      Missing \notin {item.component, item.container, item.target, item.service, item.type}

check_old_manifest(doc) ==
    /\ doc.version = 1
    /\ check_distribution_array(doc.distribution)
    /\ check_activation_array(doc.activation)
    /\ check_old_snapshots_array(doc.snapshots)

-----------------------------------------------------------------------------

\* The machine that an address stands for; Missing if the model has none.
TargetName(targets, address) ==
    LET names == {name \in DOMAIN targets : find_target_key(targets[name]) = address}
    IN  IF names = {} THEN Missing ELSE CHOOSE name \in names : TRUE

Mapping(service, container, target, provider) ==
    [service |-> service, container |-> container, target |-> target, provider |-> provider]

convert_dependencies(array, targets) ==
    {Mapping(item.key, item.container, TargetName(targets, item.target), Missing) : item \in array}

find_service_key(services, pkg) ==
    LET keys == {key \in DOMAIN services : services[key].pkg = pkg}
    IN  IF keys = {} THEN Missing ELSE CHOOSE key \in keys : TRUE

\* Every machine that the old manifest names, those of dependencies too.
Addresses(doc) ==
    UNION {{item.target : item \in array} :
             array \in {doc.distribution, doc.activation, doc.snapshots}
                         \cup {item.dependsOn : item \in doc.activation}
                         \cup {item.connectsTo : item \in doc.activation}}

\* An address that is not in the infrastructure model is reported, and the
\* conversion has nothing to print.
Convertible(doc, targets) == \A address \in Addresses(doc) : TargetName(targets, address) # Missing

\* Of a service that is activated on several machines the first mapping counts.
ConvertedServices(doc, targets) ==
    [key \in {item.key : item \in doc.activation} |->
       LET item == CHOOSE i \in doc.activation : i.key = key
       IN  [name |-> item.name, pkg |-> item.service, type |-> item.type,
            depends_on |-> convert_dependencies(item.dependsOn, targets),
            connects_to |-> convert_dependencies(item.connectsTo, targets),
            containers |-> NoTable]]

\* The providers of containers are not assigned: here they are what a fresh
\* allocation holds.
convert_manifest(doc, targets) ==
    LET services == ConvertedServices(doc, targets)
    IN  Manifest(
          [name \in {TargetName(targets, item.target) : item \in doc.distribution} |->
             (CHOOSE item \in doc.distribution : TargetName(targets, item.target) = name).profile],
          services,
          {Mapping(item.key, item.container, TargetName(targets, item.target), Missing) :
             item \in doc.activation},
          {[component |-> item.component, container |-> item.container,
            target |-> TargetName(targets, item.target),
            service |-> find_service_key(services, item.service), provider |-> Missing] :
             item \in doc.snapshots},
          targets)
=============================================================================
