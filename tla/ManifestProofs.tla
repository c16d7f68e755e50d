--------------------------- MODULE ManifestProofs ---------------------------
(***************************************************************************)
(* Proofs about manifests: that the profiles on the machines describe what *)
(* was deployed, so that a manifest that is captured from them is the one  *)
(* that was deployed, and that the manifest an old one is converted to is  *)
(* complete.                                                               *)
(***************************************************************************)
EXTENDS Deploy, TLAPS

-----------------------------------------------------------------------------
(* What a document says is what is read of it. *)

\* A mapping that says where it is is read as it was written, and that a profile
\* leaves the name of its own machine out makes no difference there.
LEMMA MappingsKept ==
  ASSUME NEW array, Addressed(array), NEW t
  PROVE  /\ parse_mapping_array(array, t) = array
         /\ parse_mapping_array(filterLocalTargets(array, t), t) = array
<1>1. ASSUME NEW m \in array
      PROVE  /\ Local(m, t) = m
             /\ Local(IF m.target = t THEN [m EXCEPT !.target = Missing] ELSE m, t) = m
  <2>1. m = [field \in DOMAIN m |-> m[field]] /\ "target" \in DOMAIN m /\ m.target # Missing
    BY DEF Addressed
  <2>2. Local(m, t) = m
    BY <2>1 DEF Local
  <2>3. CASE m.target = t
    <3>1. PICK n : n = [m EXCEPT !.target = Missing]
      OBVIOUS
    <3>2. n.target = Missing /\ DOMAIN n = DOMAIN m /\ \A field \in DOMAIN m \ {"target"} : n[field] = m[field]
      BY <2>1, <3>1
    <3>3. Local(n, t) = [n EXCEPT !.target = t]
      BY <3>2 DEF Local
    <3>4. [n EXCEPT !.target = t] = [field \in DOMAIN m |-> m[field]]
      BY <2>1, <2>3, <3>2
    <3> QED BY <2>1, <2>2, <2>3, <3>1, <3>3, <3>4
  <2>4. CASE m.target # t
    BY <2>2, <2>4
  <2> QED BY <2>3, <2>4
<1>2. parse_mapping_array(array, t) = array
  BY <1>1 DEF parse_mapping_array
<1>3. parse_mapping_array(filterLocalTargets(array, t), t)
        = {Local(IF m.target = t THEN [m EXCEPT !.target = Missing] ELSE m, t) : m \in array}
  BY DEF parse_mapping_array, filterLocalTargets
<1> QED BY <1>1, <1>2, <1>3

\* So is a service whose dependencies say where they are.
LEMMA ServiceKept ==
  ASSUME NEW service, Depends(service), NEW t
  PROVE  /\ parse_manifest_service(service, t) = service
         /\ parse_manifest_service([service EXCEPT !.depends_on = filterLocalTargets(@, t),
                                                   !.connects_to = filterLocalTargets(@, t)], t) = service
<1>1. PICK d, c : d = service.depends_on /\ c = service.connects_to
  OBVIOUS
<1>2. /\ Addressed(d) /\ Addressed(c)
      /\ service = [field \in DOMAIN service |-> service[field]]
      /\ "depends_on" \in DOMAIN service /\ "connects_to" \in DOMAIN service
  BY <1>1 DEF Depends
<1>3. /\ parse_mapping_array(d, t) = d /\ parse_mapping_array(filterLocalTargets(d, t), t) = d
      /\ parse_mapping_array(c, t) = c /\ parse_mapping_array(filterLocalTargets(c, t), t) = c
  BY <1>2, MappingsKept
<1>4. ASSUME NEW a, NEW b
      PROVE  LET s == [service EXCEPT !.depends_on = a, !.connects_to = b]
             IN  /\ DOMAIN s = DOMAIN service /\ s.depends_on = a /\ s.connects_to = b
                 /\ \A field \in DOMAIN service \ {"depends_on", "connects_to"} : s[field] = service[field]
  BY <1>2
<1>5. ASSUME NEW s, DOMAIN s = DOMAIN service,
             parse_mapping_array(s.depends_on, t) = d, parse_mapping_array(s.connects_to, t) = c,
             \A field \in DOMAIN service \ {"depends_on", "connects_to"} : s[field] = service[field]
      PROVE  parse_manifest_service(s, t) = service
  <2>1. parse_manifest_service(s, t) = [s EXCEPT !.depends_on = d, !.connects_to = c]
    BY <1>5 DEF parse_manifest_service
  <2>2. [s EXCEPT !.depends_on = d, !.connects_to = c] = [field \in DOMAIN service |-> service[field]]
    BY <1>1, <1>2, <1>5
  <2> QED BY <1>2, <2>1, <2>2
<1>6. parse_manifest_service(service, t) = service
  BY <1>1, <1>3, <1>5
<1>7. PICK s : s = [service EXCEPT !.depends_on = filterLocalTargets(@, t),
                                   !.connects_to = filterLocalTargets(@, t)]
  OBVIOUS
<1>8. /\ DOMAIN s = DOMAIN service
      /\ s.depends_on = filterLocalTargets(d, t) /\ s.connects_to = filterLocalTargets(c, t)
      /\ \A field \in DOMAIN service \ {"depends_on", "connects_to"} : s[field] = service[field]
  BY <1>1, <1>2, <1>7
<1>9. parse_manifest_service(s, t) = service
  BY <1>3, <1>5, <1>8
<1> QED BY <1>6, <1>7, <1>9, Zenon

\* What is at a target is what a document says of it.
LEMMA TargetKept ==
  ASSUME NEW doc, GeneratedDeploymentModel(doc), NEW t
  PROVE  LET m == parse_profile_manifest(generateProfileManifest(doc, t), t)
         IN  /\ m.service_mappings = {mapping \in doc.serviceMappings : mapping.target = t}
             /\ m.snapshot_mappings = {mapping \in doc.snapshotMappings : mapping.target = t}
             /\ DOMAIN m.services = {mapping.service : mapping \in m.service_mappings} \cap DOMAIN doc.services
             /\ \A key \in DOMAIN m.services : m.services[key] = doc.services[key]
<1>1. PICK g, m : g = generateProfileManifest(doc, t) /\ m = parse_profile_manifest(g, t)
  OBVIOUS
<1>2. PICK services, snapshots :
        /\ services = {mapping \in doc.serviceMappings : mapping.target = t}
        /\ snapshots = {mapping \in doc.snapshotMappings : mapping.target = t}
  OBVIOUS
<1>3. Addressed(services) /\ Addressed(snapshots)
  BY <1>2 DEF GeneratedDeploymentModel, Addressed
<1>4. /\ g.serviceMappings = filterLocalTargets(services, t)
      /\ g.snapshotMappings = filterLocalTargets(snapshots, t)
      /\ g.services = [key \in {mapping.service : mapping \in services} \cap DOMAIN doc.services |->
                         [doc.services[key] EXCEPT !.depends_on = filterLocalTargets(@, t),
                                                   !.connects_to = filterLocalTargets(@, t)]]
  BY <1>1, <1>2 DEF generateProfileManifest
<1>5. /\ m.service_mappings = parse_mapping_array(g.serviceMappings, t)
      /\ m.snapshot_mappings = parse_mapping_array(g.snapshotMappings, t)
      /\ m.services = [key \in DOMAIN g.services |-> parse_manifest_service(g.services[key], t)]
  BY <1>1 DEF parse_profile_manifest, parse_services_table
<1>6. m.service_mappings = services /\ m.snapshot_mappings = snapshots
  <2>1. /\ parse_mapping_array(filterLocalTargets(services, t), t) = services
        /\ parse_mapping_array(filterLocalTargets(snapshots, t), t) = snapshots
    BY <1>3, MappingsKept
  <2> QED BY <1>4, <1>5, <2>1, Zenon
<1>7. DOMAIN m.services = {mapping.service : mapping \in services} \cap DOMAIN doc.services
  BY <1>4, <1>5
<1>8. ASSUME NEW key \in DOMAIN m.services
      PROVE  m.services[key] = doc.services[key]
  <2>1. key \in DOMAIN doc.services /\ Depends(doc.services[key])
    BY <1>7 DEF GeneratedDeploymentModel
  <2>2. PICK service : service = doc.services[key]
    OBVIOUS
  <2>3. m.services[key] = parse_manifest_service(
          [service EXCEPT !.depends_on = filterLocalTargets(@, t), !.connects_to = filterLocalTargets(@, t)], t)
    BY <1>4, <1>5, <1>7, <2>2
  <2> QED BY <2>1, <2>2, <2>3, ServiceKept
<1> QED BY <1>1, <1>2, <1>6, <1>7, <1>8

\* What is captured when the profiles are at their targets, and read again.
Capture(profiles) == [t \in DOMAIN profiles |-> profile_manifest_target(profiles[t])]

Again(profiles) ==
    parse_manifest(Document(aggregate_manifest(Capture(profiles), NoTable)), AllParts, Missing, Missing, "localhost")

\* A manifest that lacks no more of another than services that are not mapped.
SameAs(n, m) ==
    /\ n.service_mappings = m.service_mappings /\ n.snapshot_mappings = m.snapshot_mappings
    /\ \A key \in DOMAIN n.services : key \in DOMAIN m.services /\ n.services[key] = m.services[key]
    /\ {mapping.service : mapping \in m.service_mappings} \cap DOMAIN m.services \subseteq DOMAIN n.services

\* What can be captured of a manifest is that manifest.
AsCaptured(doc) ==
    LET m == Manifested(doc)
    IN  (\A t \in DOMAIN m.profiles : Contents(m.profiles[t][1]).version = 2) => SameAs(Again(m.profiles), m)

\* The profiles of a generated model describe it together.
LEMMA ModelAggregated ==
  ASSUME NEW doc, GeneratedDeploymentModel(doc), \A t \in DOMAIN doc.profiles : doc.profiles[t][2] = t, NEW targets
  PROVE  LET a == aggregate_manifest(Capture(doc.profiles), targets)
         IN  /\ a.service_mappings = doc.serviceMappings /\ a.snapshot_mappings = doc.snapshotMappings
             /\ DOMAIN a.services = {mapping.service : mapping \in doc.serviceMappings} \cap DOMAIN doc.services
             /\ \A key \in DOMAIN a.services : a.services[key] = doc.services[key]
<1>1. PICK T, parts, a :
        T = DOMAIN doc.profiles /\ parts = Capture(doc.profiles) /\ a = aggregate_manifest(parts, targets)
  OBVIOUS
<1>2. PICK M : M = [t \in T |-> parts[t].manifest]
  OBVIOUS
<1>3. ASSUME NEW t \in T
      PROVE  /\ M[t].service_mappings = {mapping \in doc.serviceMappings : mapping.target = t}
             /\ M[t].snapshot_mappings = {mapping \in doc.snapshotMappings : mapping.target = t}
             /\ DOMAIN M[t].services = {mapping.service : mapping \in M[t].service_mappings} \cap DOMAIN doc.services
             /\ \A key \in DOMAIN M[t].services : M[t].services[key] = doc.services[key]
  <2>1. PICK path : path = doc.profiles[t] /\ path[2] = t
    BY <1>1
  <2>2. /\ path[1] \in DOMAIN Built
        /\ generateProfileManifest(Built[path[1]], t) = generateProfileManifest(doc, t)
    BY <1>1, <2>1 DEF GeneratedDeploymentModel
  <2>3. Contents(path[1]) = Built[path[1]]
    BY <2>2 DEF Contents
  <2>4. M[t] = parse_profile_manifest(generateProfileManifest(Contents(path[1]), path[2]), path[2])
    BY <1>1, <1>2, <2>1 DEF Capture, profile_manifest_target
  <2>5. M[t] = parse_profile_manifest(generateProfileManifest(doc, t), t)
    BY <2>1, <2>2, <2>3, <2>4
  <2> QED BY <2>5, TargetKept
<1>4. DOMAIN parts = T
  BY <1>1 DEF Capture
<1>5. PICK tables : tables = {M[t].services : t \in T}
  OBVIOUS
<1>6. /\ a.service_mappings = UNION {M[t].service_mappings : t \in T}
      /\ a.snapshot_mappings = UNION {M[t].snapshot_mappings : t \in T}
      /\ a.services = [key \in UNION {DOMAIN table : table \in tables} |->
                         (CHOOSE table \in tables : key \in DOMAIN table)[key]]
  <2>1. /\ a.service_mappings = UNION {parts[t].manifest.service_mappings : t \in T}
        /\ a.snapshot_mappings = UNION {parts[t].manifest.snapshot_mappings : t \in T}
        /\ a.services = aggregate_service_tables({parts[t].manifest.services : t \in T})
    BY <1>1, <1>4 DEF aggregate_manifest, Manifest
  <2>2. \A t \in T : parts[t].manifest = M[t]
    BY <1>2
  <2>3. /\ {parts[t].manifest.service_mappings : t \in T} = {M[t].service_mappings : t \in T}
        /\ {parts[t].manifest.snapshot_mappings : t \in T} = {M[t].snapshot_mappings : t \in T}
        /\ {parts[t].manifest.services : t \in T} = tables
    BY <1>5, <2>2
  <2>4. a.services = aggregate_service_tables(tables)
    BY <2>1, <2>3, Zenon
  <2>5. /\ a.service_mappings = UNION {M[t].service_mappings : t \in T}
        /\ a.snapshot_mappings = UNION {M[t].snapshot_mappings : t \in T}
    BY <2>1, <2>3, Zenon
  <2> QED BY <2>4, <2>5 DEF aggregate_service_tables
<1>7. /\ \A mapping \in doc.serviceMappings \cup doc.snapshotMappings : mapping.target \in T
      /\ \A key \in DOMAIN doc.services : Depends(doc.services[key])
  BY <1>1 DEF GeneratedDeploymentModel
<1>8. a.service_mappings = doc.serviceMappings /\ a.snapshot_mappings = doc.snapshotMappings
  BY <1>3, <1>6, <1>7
<1>9. ASSUME NEW key
      PROVE  key \in DOMAIN a.services <=>
               key \in {mapping.service : mapping \in doc.serviceMappings} \cap DOMAIN doc.services
  <2>1. key \in DOMAIN a.services <=> \E t \in T : key \in DOMAIN M[t].services
    BY <1>5, <1>6
  <2>2. \A t \in T : key \in DOMAIN M[t].services <=>
                       /\ key \in DOMAIN doc.services
                       /\ \E mapping \in doc.serviceMappings : mapping.target = t /\ mapping.service = key
    BY <1>3
  <2> QED BY <1>7, <2>1, <2>2
<1>10. ASSUME NEW key \in DOMAIN a.services
       PROVE  a.services[key] = doc.services[key]
  <2>1. \E table \in tables : key \in DOMAIN table
    BY <1>6
  <2>2. PICK table : table = CHOOSE other \in tables : key \in DOMAIN other
    OBVIOUS
  <2>3. table \in tables /\ key \in DOMAIN table
    BY <2>1, <2>2
  <2>4. table[key] = doc.services[key]
    BY <1>3, <1>5, <2>3
  <2> QED BY <1>6, <2>2, <2>4
<1> QED BY <1>1, <1>8, <1>9, <1>10

\* Tables with the same entries.
SameTable(one, other) == DOMAIN one = DOMAIN other /\ \A key \in DOMAIN one : one[key] = other[key]

\* A document whose mappings say where they are is read as it was written.
Explicit(doc) ==
    /\ doc.version = 2 /\ Addressed(doc.serviceMappings) /\ Addressed(doc.snapshotMappings)
    /\ \A key \in DOMAIN doc.services : Depends(doc.services[key])

LEMMA ReadAsWritten ==
  ASSUME NEW doc, Explicit(doc), NEW m, m = parse_manifest(doc, AllParts, Missing, Missing, "localhost")
  PROVE  /\ m.correct_version /\ m.profiles = doc.profiles
         /\ m.service_mappings = doc.serviceMappings /\ m.snapshot_mappings = doc.snapshotMappings
         /\ SameTable(m.services, doc.services)
         /\ m.targets = [name \in DOMAIN doc.infrastructure |-> parse_target(doc.infrastructure[name])]
<1>2. /\ m.correct_version /\ m.profiles = doc.profiles
      /\ m.service_mappings = parse_mapping_array(doc.serviceMappings, "localhost")
      /\ m.snapshot_mappings = {mapping \in parse_mapping_array(doc.snapshotMappings, "localhost") :
                                 mapping_is_selected(mapping, Missing, Missing)}
      /\ m.services = parse_services_table(doc.services, "localhost")
      /\ m.targets = [name \in DOMAIN doc.infrastructure |-> parse_target(doc.infrastructure[name])]
  <2>1. doc.version = 2
    BY DEF Explicit
  <2> QED BY <2>1 DEF parse_manifest, Manifest, AllParts
<1>3. \A mapping : mapping_is_selected(mapping, Missing, Missing)
  BY DEF mapping_is_selected
<1>4. /\ parse_mapping_array(doc.serviceMappings, "localhost") = doc.serviceMappings
      /\ parse_mapping_array(doc.snapshotMappings, "localhost") = doc.snapshotMappings
  BY MappingsKept DEF Explicit
<1>5. \A key \in DOMAIN doc.services : parse_manifest_service(doc.services[key], "localhost") = doc.services[key]
  BY ServiceKept DEF Explicit
<1>6. SameTable(m.services, doc.services)
  BY <1>2, <1>5 DEF parse_services_table, SameTable
<1>7. m.service_mappings = doc.serviceMappings
  BY <1>2, <1>4
<1>8. m.snapshot_mappings = doc.snapshotMappings
  BY <1>2, <1>3, <1>4
<1> QED BY <1>2, <1>6, <1>7, <1>8

\* A generated model is captured as it was generated, if its profiles are in place.
LEMMA ModelCaptured ==
  ASSUME NEW doc, doc.version = 2, GeneratedDeploymentModel(doc), OnTargets(Manifested(doc))
  PROVE  AsCaptured(doc)
<1>1. PICK m : m = parse_manifest(doc, AllParts, Missing, Missing, "localhost") /\ m = Manifested(doc)
  BY DEF Manifested
<1>2. Explicit(doc)
  BY DEF GeneratedDeploymentModel, Explicit
<1>3. /\ m.profiles = doc.profiles
      /\ m.service_mappings = doc.serviceMappings /\ m.snapshot_mappings = doc.snapshotMappings
      /\ SameTable(m.services, doc.services)
  BY <1>1, <1>2, ReadAsWritten
<1>4. \A t \in DOMAIN doc.profiles : doc.profiles[t][2] = t
  BY <1>1, <1>3 DEF OnTargets
<1>5. PICK a : a = aggregate_manifest(Capture(doc.profiles), NoTable)
  OBVIOUS
<1>6. /\ a.service_mappings = doc.serviceMappings /\ a.snapshot_mappings = doc.snapshotMappings
      /\ DOMAIN a.services = {mapping.service : mapping \in doc.serviceMappings} \cap DOMAIN doc.services
      /\ \A key \in DOMAIN a.services : a.services[key] = doc.services[key]
  BY <1>4, <1>5, ModelAggregated
<1>7. PICK d, n : d = Document(a) /\ n = parse_manifest(d, AllParts, Missing, Missing, "localhost")
  OBVIOUS
<1>8. /\ d.version = 2 /\ d.services = a.services /\ d.serviceMappings = a.service_mappings
      /\ d.snapshotMappings = a.snapshot_mappings
  BY <1>7 DEF Document
<1>9. Explicit(d)
  BY <1>2, <1>6, <1>8 DEF Explicit
<1>10. /\ n.service_mappings = d.serviceMappings /\ n.snapshot_mappings = d.snapshotMappings
       /\ SameTable(n.services, d.services)
  BY <1>7, <1>9, ReadAsWritten
<1>11. n = Again(m.profiles)
  BY <1>3, <1>5, <1>7 DEF Again
<1>12. SameAs(n, m)
  BY <1>3, <1>6, <1>8, <1>10 DEF SameAs, SameTable
<1> QED BY <1>1, <1>11, <1>12 DEF AsCaptured

\* An empty manifest is captured from no profiles.
LEMMA NothingCaptured ==
  ASSUME NEW m, DOMAIN m.profiles = {}, DOMAIN m.services = {}, m.service_mappings = {}, m.snapshot_mappings = {}
  PROVE  SameAs(Again(m.profiles), m)
<1>1. PICK parts, a : parts = Capture(m.profiles) /\ a = aggregate_manifest(parts, NoTable)
  OBVIOUS
<1>2. DOMAIN parts = {}
  BY <1>1 DEF Capture
<1>3. a.service_mappings = {} /\ a.snapshot_mappings = {} /\ DOMAIN a.services = {}
  BY <1>1, <1>2 DEF aggregate_manifest, Manifest, aggregate_service_tables
<1>4. PICK d, n : d = Document(a) /\ n = parse_manifest(d, AllParts, Missing, Missing, "localhost")
  OBVIOUS
<1>5. /\ d.version = 2 /\ d.services = a.services /\ d.serviceMappings = a.service_mappings
      /\ d.snapshotMappings = a.snapshot_mappings
  BY <1>4 DEF Document
<1>6. Explicit(d)
  BY <1>3, <1>5 DEF Explicit, Addressed
<1>7. /\ n.service_mappings = d.serviceMappings /\ n.snapshot_mappings = d.snapshotMappings
      /\ SameTable(n.services, d.services)
  BY <1>4, <1>6, ReadAsWritten
<1>8. n = Again(m.profiles)
  BY <1>1, <1>4 DEF Again
<1> QED BY <1>3, <1>5, <1>7, <1>8 DEF SameAs, SameTable

\* The profiles of a converted manifest cannot be captured, or it has nothing.
LEMMA OldProfiles ==
  ASSUME NEW doc, OldModel(doc), NEW c, c = convert_manifest(doc, Infrastructure)
  PROVE  \/ \E t \in DOMAIN c.profiles : Contents(c.profiles[t][1]).version # 2
         \/ DOMAIN c.profiles = {} /\ DOMAIN c.services = {} /\ c.service_mappings = {} /\ c.snapshot_mappings = {}
<1>1. c.profiles = [name \in {TargetName(Infrastructure, item.target) : item \in doc.distribution} |->
                     (CHOOSE item \in doc.distribution : TargetName(Infrastructure, item.target) = name).profile]
  BY DEF convert_manifest, Manifest
<1>2. CASE doc.distribution = {}
  <2>1. doc.activation = {} /\ doc.snapshots = {}
    BY <1>2 DEF OldModel
  <2>2. c.service_mappings = {} /\ c.snapshot_mappings = {} /\ DOMAIN c.services = {}
    BY <2>1 DEF convert_manifest, Manifest, ConvertedServices
  <2> QED BY <1>1, <1>2, <2>2
<1>3. CASE doc.distribution # {}
  <2>1. PICK other \in doc.distribution : TRUE
    BY <1>3
  <2>2. PICK t : t = TargetName(Infrastructure, other.target)
    OBVIOUS
  <2>3. PICK item : item = CHOOSE i \in doc.distribution : TargetName(Infrastructure, i.target) = t
    OBVIOUS
  <2>4. item \in doc.distribution
    BY <2>1, <2>2, <2>3
  <2>5. t \in DOMAIN c.profiles /\ c.profiles[t] = item.profile
    BY <1>1, <2>1, <2>2, <2>3
  <2>6. Contents(item.profile[1]).version # 2
    BY <2>4 DEF OldModel, Contents
  <2> QED BY <2>5, <2>6
<1> QED BY <1>2, <1>3

\* So what is captured of a converted manifest is that manifest.
LEMMA OldCaptured ==
  ASSUME NEW doc, OldModel(doc), NEW m, NEW c, c = convert_manifest(doc, Infrastructure),
         m = c \/ m = parse_manifest(Document(c), AllParts, Missing, Missing, "localhost"),
         \A t \in DOMAIN m.profiles : Contents(m.profiles[t][1]).version = 2
  PROVE  SameAs(Again(m.profiles), m)
<1>1. CASE m = c
  BY <1>1, OldProfiles, NothingCaptured
<1>2. CASE m = parse_manifest(Document(c), AllParts, Missing, Missing, "localhost")
  <2>1. PICK d : d = Document(c)
    OBVIOUS
  <2>2. /\ d.version = 2 /\ d.profiles = c.profiles /\ d.services = c.services
        /\ d.serviceMappings = c.service_mappings /\ d.snapshotMappings = c.snapshot_mappings
    BY <2>1 DEF Document
  <2>3. m.profiles = c.profiles
    BY <1>2, <2>1, <2>2 DEF parse_manifest, Manifest, AllParts
  <2>4. /\ DOMAIN c.profiles = {} /\ DOMAIN c.services = {}
        /\ c.service_mappings = {} /\ c.snapshot_mappings = {}
    BY <2>3, OldProfiles
  <2>5. Explicit(d)
    BY <2>2, <2>4 DEF Explicit, Addressed
  <2>6. /\ m.service_mappings = d.serviceMappings /\ m.snapshot_mappings = d.snapshotMappings
        /\ SameTable(m.services, d.services)
    BY <1>2, <2>1, <2>5, ReadAsWritten
  <2> QED BY <2>2, <2>3, <2>4, <2>6, NothingCaptured DEF SameTable
<1> QED BY <1>1, <1>2

\* Whatever Nix built is captured as it was built.
LEMMA BuiltCaptured ==
  ASSUME NEW doc \in Range(Built), doc.version = 2 => OnTargets(Manifested(doc))
  PROVE  AsCaptured(doc)
<1>1. PICK m : m = Manifested(doc)
  OBVIOUS
<1>2. Written(doc)
  BY ModelsOK
<1>3. CASE doc.version = 2
  BY <1>2, <1>3, ModelCaptured DEF Written
<1>4. CASE doc.version = 1
  <2>1. OldModel(doc) /\ m = convert_manifest(doc, Infrastructure)
    BY <1>1, <1>2, <1>4 DEF Written, Manifested
  <2> QED BY <1>1, <2>1, OldCaptured DEF AsCaptured
<1>5. CASE doc.version \notin {1, 2}
  <2>1. m = [EmptyManifest EXCEPT !.correct_version = FALSE]
    BY <1>1, <1>5 DEF Manifested, parse_manifest
  <2>2. m.profiles = NoTable /\ m.services = NoTable /\ m.service_mappings = {} /\ m.snapshot_mappings = {}
    BY <2>1 DEF EmptyManifest, Manifest
  <2>3. DOMAIN NoTable = {}
    BY DEF NoTable
  <2> QED BY <1>1, <2>2, <2>3, NothingCaptured DEF AsCaptured
<1> QED BY <1>3, <1>4, <1>5

\* Profile manifests that were captured are what their profiles hold.
Gathered(profiles) == profiles = [t \in DOMAIN profiles |-> profile_manifest_target(profiles[t].profile)]

\* Manifests of the same services and mappings.
Alike(n, m) ==
    /\ n.services = m.services /\ n.service_mappings = m.service_mappings
    /\ n.snapshot_mappings = m.snapshot_mappings

\* What disnix-manifest makes of a manifest that is captured.
LEMMA CapturedReread ==
  ASSUME NEW profiles, Gathered(profiles),
         NEW targets, NEW n,
         n = parse_manifest(Document(aggregate_manifest(profiles, targets)), AllParts, Missing, Missing, "localhost")
  PROVE  /\ n.profiles = [t \in DOMAIN profiles |-> profiles[t].profile]
         /\ n.targets = [name \in DOMAIN targets |-> parse_target(targets[name])]
         /\ Alike(Again(n.profiles), n)
<1>1. PICK a, b : a = aggregate_manifest(profiles, targets) /\ b = aggregate_manifest(profiles, NoTable)
  OBVIOUS
<1>2. PICK d, e : d = Document(a) /\ e = Document(b)
  OBVIOUS
<1>3. /\ a.profiles = [t \in DOMAIN profiles |-> profiles[t].profile] /\ a.targets = targets
      /\ a.services = b.services /\ a.service_mappings = b.service_mappings
      /\ a.snapshot_mappings = b.snapshot_mappings
  BY <1>1 DEF aggregate_manifest, Manifest
<1>4. /\ d.version = 2 /\ e.version = 2 /\ d.profiles = a.profiles /\ d.infrastructure = targets
      /\ d.services = e.services /\ d.serviceMappings = e.serviceMappings /\ d.snapshotMappings = e.snapshotMappings
  BY <1>2, <1>3 DEF Document
<1>5. PICK again : again = parse_manifest(e, AllParts, Missing, Missing, "localhost")
  OBVIOUS
<1>6. n = parse_manifest(d, AllParts, Missing, Missing, "localhost")
  BY <1>1, <1>2
<1>7. /\ n.profiles = d.profiles /\ n.services = again.services
      /\ n.service_mappings = again.service_mappings /\ n.snapshot_mappings = again.snapshot_mappings
      /\ n.targets = [name \in DOMAIN targets |-> parse_target(targets[name])]
  BY <1>4, <1>5, <1>6 DEF parse_manifest, Manifest, AllParts
<1>8. Capture(n.profiles) = profiles
  <2>1. Capture(n.profiles) = [t \in DOMAIN profiles |-> profile_manifest_target(profiles[t].profile)]
    BY <1>3, <1>4, <1>7 DEF Capture
  <2> QED BY <2>1 DEF Gathered
<1>9. again = Again(n.profiles)
  BY <1>1, <1>2, <1>5, <1>8 DEF Again
<1>10. Alike(again, n)
  BY <1>7 DEF Alike
<1> QED BY <1>3, <1>4, <1>7, <1>9, <1>10

\* A captured manifest can be captured again.
LEMMA CapturedAgain ==
  ASSUME NEW profiles, Gathered(profiles),
         NEW targets
  PROVE  AsCaptured(Document(aggregate_manifest(profiles, targets)))
<1>1. PICK d, m : /\ d = Document(aggregate_manifest(profiles, targets))
                  /\ m = parse_manifest(d, AllParts, Missing, Missing, "localhost")
  OBVIOUS
<1>2. Alike(Again(m.profiles), m)
  BY <1>1, CapturedReread, Zenon
<1>3. m = Manifested(d)
  BY <1>1 DEF Manifested, Document
<1>4. SameAs(Again(m.profiles), m)
  BY <1>2 DEF Alike, SameAs
<1> QED BY <1>1, <1>3, <1>4 DEF AsCaptured

-----------------------------------------------------------------------------
(* Manifests that are compared. *)

\* A service compares equal to itself.
LEMMA ComparedService == \A service : compare_manifest_services(service, service)
  BY DEF compare_manifest_services, compare_service_mapping_arrays, SameCount, find_service_mapping

\* Targets that were parsed before do not change when they are parsed again.
LEMMA TargetsReread ==
  ASSUME NEW table, NEW again, again = [name \in DOMAIN table |-> parse_target(table[name])],
         \A name \in DOMAIN table : parse_target(table[name]) = table[name]
  PROVE  compare_tables(again, table, compare_targets)
<1>1. DOMAIN again = DOMAIN table /\ \A name \in DOMAIN table : again[name] = table[name]
  OBVIOUS
<1> QED BY <1>1 DEF compare_tables, compare_targets, SameCount

\* A target that was parsed was given its number of cores.
LEMMA ParsedOnce == \A target : parse_target(parse_target(target)) = parse_target(target)
<1>1. ASSUME NEW target
      PROVE  parse_target(parse_target(target)) = parse_target(target)
  <2>1. PICK once : once = parse_target(target)
    OBVIOUS
  <2>2. once = [target EXCEPT !.num_of_cores = IF @ = Missing THEN 1 ELSE @]
    BY <2>1 DEF parse_target
  <2>3. /\ once = [field \in DOMAIN once |-> once[field]]
        /\ "num_of_cores" \in DOMAIN once => once.num_of_cores = IF target.num_of_cores = Missing THEN 1 ELSE target.num_of_cores
    BY <2>2
  <2>4. parse_target(once) = [field \in DOMAIN once |-> once[field]]
    BY <2>3 DEF parse_target
  <2> QED BY <2>1, <2>3, <2>4
<1> QED BY <1>1

\* The targets of a manifest were parsed, or there are none.
LEMMA TargetsParsed ==
  ASSUME NEW doc, NEW m, m = Manifested(doc), NEW name \in DOMAIN m.targets
  PROVE  parse_target(m.targets[name]) = m.targets[name]
<1>1. CASE doc.version = 1
  <2>1. m.targets = Infrastructure
    BY <1>1 DEF Manifested, convert_manifest, Manifest
  <2> QED BY <2>1, InfrastructureOK DEF Range
<1>2. CASE doc.version = 2
  <2>1. m.targets = [n \in DOMAIN doc.infrastructure |-> parse_target(doc.infrastructure[n])]
    BY <1>2 DEF Manifested, parse_manifest, Manifest, AllParts
  <2> QED BY <2>1, ParsedOnce
<1>3. CASE doc.version \notin {1, 2}
  <2>1. m = [EmptyManifest EXCEPT !.correct_version = FALSE]
    BY <1>3 DEF Manifested, parse_manifest
  <2>2. m.targets = NoTable
    BY <2>1 DEF EmptyManifest, Manifest
  <2> QED BY <2>2 DEF NoTable
<1> QED BY <1>1, <1>2, <1>3

\* A manifest like another, read from its own document.
LEMMA ComparedWithLast ==
  ASSUME NEW n, NEW m, SameAs(n, m), OnlyMapped(m), n.profiles = m.profiles,
         compare_tables(n.targets, m.targets, compare_targets)
  PROVE  compare_manifests(n, m)
<1>1. DOMAIN n.services = DOMAIN m.services /\ \A key \in DOMAIN n.services : n.services[key] = m.services[key]
  BY DEF SameAs, OnlyMapped
<1>2. compare_tables(n.services, m.services, compare_manifest_services)
  BY <1>1, ComparedService DEF compare_tables, SameCount
<1>3. compare_tables(n.profiles, m.profiles, SameValue)
  BY DEF compare_tables, SameCount, SameValue
<1>4. /\ compare_service_mapping_arrays(n.service_mappings, m.service_mappings)
      /\ compare_snapshot_mapping_arrays(n.snapshot_mappings, m.snapshot_mappings)
  BY DEF SameAs, compare_service_mapping_arrays, compare_snapshot_mapping_arrays, SameCount, find_service_mapping,
         find_snapshot_mapping
<1> QED BY <1>2, <1>3, <1>4 DEF compare_manifests

-----------------------------------------------------------------------------
(* Manifests that are converted. *)

\* The machines of an old manifest are found in the infrastructure model.
LEMMA AddressFound ==
  ASSUME NEW doc, Convertible(doc, Infrastructure)
  PROVE  /\ \A address \in Addresses(doc) : TargetName(Infrastructure, address) \in DOMAIN Infrastructure \ {Missing}
         /\ \A item \in doc.distribution \cup doc.activation \cup doc.snapshots : item.target \in Addresses(doc)
         /\ \A item \in doc.activation : \A key \in item.dependsOn \cup item.connectsTo : key.target \in Addresses(doc)
<1>1. ASSUME NEW address \in Addresses(doc)
      PROVE  TargetName(Infrastructure, address) \in DOMAIN Infrastructure \ {Missing}
  <2>1. TargetName(Infrastructure, address) # Missing
    BY DEF Convertible
  <2> QED BY <2>1 DEF TargetName
<1>2. PICK arrays : arrays = {doc.distribution, doc.activation, doc.snapshots}
                         \cup {item.dependsOn : item \in doc.activation}
                         \cup {item.connectsTo : item \in doc.activation}
  OBVIOUS
<1>3. \A array \in arrays : \A item \in array : item.target \in Addresses(doc)
  BY <1>2 DEF Addresses
<1>4. /\ doc.distribution \in arrays /\ doc.activation \in arrays /\ doc.snapshots \in arrays
      /\ \A item \in doc.activation : item.dependsOn \in arrays /\ item.connectsTo \in arrays
  BY <1>2
<1> QED BY <1>1, <1>3, <1>4

\* The fields of a converted mapping.
LEMMA MappingFields ==
  ASSUME NEW service, NEW container, NEW target, target # Missing
  PROVE  LET m == Mapping(service, container, target, Missing)
         IN  /\ m.service = service /\ m.container = container /\ m.target = target
             /\ "target" \in DOMAIN m /\ m = [field \in DOMAIN m |-> m[field]]
  BY DEF Mapping

\* Dependencies are converted to mappings that are complete.
LEMMA DependenciesConverted ==
  ASSUME NEW array,
         \A key \in array : /\ Missing \notin {key.key, key.container}
                            /\ TargetName(Infrastructure, key.target) # Missing
  PROVE  LET converted == convert_dependencies(array, Infrastructure)
         IN  Addressed(converted) /\ \A mapping \in converted : check_service_mapping(mapping)
<1>1. PICK converted : converted = convert_dependencies(array, Infrastructure)
  OBVIOUS
<1>2. ASSUME NEW mapping \in converted
      PROVE  /\ mapping = [field \in DOMAIN mapping |-> mapping[field]]
             /\ "target" \in DOMAIN mapping /\ mapping.target # Missing /\ check_service_mapping(mapping)
  <2>1. PICK key \in array : mapping = Mapping(key.key, key.container, TargetName(Infrastructure, key.target), Missing)
    BY <1>1 DEF convert_dependencies
  <2>2. PICK target : target = TargetName(Infrastructure, key.target) /\ target # Missing
    OBVIOUS
  <2>3. mapping.service = key.key /\ mapping.container = key.container /\ mapping.target = target
    BY <2>1, <2>2, MappingFields
  <2>4. "target" \in DOMAIN mapping /\ mapping = [field \in DOMAIN mapping |-> mapping[field]]
    BY <2>1, <2>2, MappingFields
  <2> QED BY <2>2, <2>3, <2>4 DEF check_service_mapping
<1> QED BY <1>1, <1>2 DEF Addressed

\* The services of a converted manifest are complete.
LEMMA ServicesConverted ==
  ASSUME NEW doc, check_old_manifest(doc), OldModel(doc), Convertible(doc, Infrastructure),
         NEW services, services = ConvertedServices(doc, Infrastructure)
  PROVE  /\ DOMAIN services = {item.key : item \in doc.activation}
         /\ \A key \in DOMAIN services : Depends(services[key]) /\ check_manifest_service(services[key])
         /\ \A item \in doc.activation : services[item.key].pkg = item.service
<1>1. DOMAIN services = {item.key : item \in doc.activation}
  BY DEF ConvertedServices
<1>2. ASSUME NEW key \in DOMAIN services
      PROVE  /\ Depends(services[key]) /\ check_manifest_service(services[key])
             /\ \E item \in doc.activation : item.key = key /\ services[key].pkg = item.service
  <2>1. PICK item : item = CHOOSE i \in doc.activation : i.key = key
    OBVIOUS
  <2>2. item \in doc.activation /\ item.key = key
    BY <1>1, <2>1
  <2>3. PICK d, c : d = convert_dependencies(item.dependsOn, Infrastructure) /\ c = convert_dependencies(item.connectsTo, Infrastructure)
    OBVIOUS
  <2>4. services[key] = [name |-> item.name, pkg |-> item.service, type |-> item.type,
                         depends_on |-> d, connects_to |-> c, containers |-> NoTable]
    BY <1>1, <2>1, <2>3 DEF ConvertedServices
  <2>5. \A dependency \in item.dependsOn \cup item.connectsTo :
          /\ Missing \notin {dependency.key, dependency.container}
          /\ TargetName(Infrastructure, dependency.target) # Missing
    BY <2>2, AddressFound DEF OldModel
  <2>6. /\ Addressed(d) /\ Addressed(c)
        /\ \A mapping \in d \cup c : check_service_mapping(mapping)
    BY <2>3, <2>5, DependenciesConverted
  <2>7. Missing \notin {item.name, item.service, item.type}
    BY <2>2 DEF check_old_manifest, check_activation_array
  <2>8. PICK service : service = services[key]
    OBVIOUS
  <2>9. /\ service.name = item.name /\ service.pkg = item.service /\ service.type = item.type
        /\ service.depends_on = d /\ service.connects_to = c
        /\ {"depends_on", "connects_to"} \subseteq DOMAIN service
        /\ service = [field \in DOMAIN service |-> service[field]]
    BY <2>4, <2>8
  <2>10. Depends(service)
    BY <2>6, <2>9 DEF Depends
  <2>11. check_manifest_service(service)
    BY <2>6, <2>7, <2>9 DEF check_manifest_service
  <2> QED BY <2>2, <2>8, <2>9, <2>10, <2>11
<1>3. ASSUME NEW item \in doc.activation
      PROVE  services[item.key].pkg = item.service
  <2>1. PICK other \in doc.activation : other.key = item.key /\ services[item.key].pkg = other.service
    BY <1>1, <1>2
  <2> QED BY <2>1 DEF OldModel
<1> QED BY <1>1, <1>2, <1>3

\* A converted manifest has the services that its document has, and is well if
\* the infrastructure is.
LEMMA ConvertedWell ==
  ASSUME NEW doc, check_old_manifest(doc), OldModel(doc), Convertible(doc, Infrastructure),
         NEW c, c = convert_manifest(doc, Infrastructure),
         NEW n, n = parse_manifest(Document(c), AllParts, Missing, Missing, "localhost")
  PROVE  /\ Keys(n) = Keys(c)
         /\ check_targets_table(Infrastructure) => check_manifest(n)
<1>1. PICK services : services = ConvertedServices(doc, Infrastructure)
  OBVIOUS
<1>2. /\ c.profiles = [name \in {TargetName(Infrastructure, item.target) : item \in doc.distribution} |->
                        (CHOOSE item \in doc.distribution : TargetName(Infrastructure, item.target) = name).profile]
      /\ c.services = services
      /\ c.service_mappings = {Mapping(item.key, item.container, TargetName(Infrastructure, item.target), Missing) :
                                 item \in doc.activation}
      /\ c.snapshot_mappings =
           {[component |-> item.component, container |-> item.container,
             target |-> TargetName(Infrastructure, item.target),
             service |-> find_service_key(services, item.service), provider |-> Missing] : item \in doc.snapshots}
      /\ c.targets = Infrastructure
  BY <1>1 DEF convert_manifest, Manifest
<1>3. /\ DOMAIN services = {item.key : item \in doc.activation}
      /\ \A key \in DOMAIN services : Depends(services[key]) /\ check_manifest_service(services[key])
      /\ \A item \in doc.activation : services[item.key].pkg = item.service
  BY <1>1, ServicesConverted
<1>4. \A item \in doc.activation \cup doc.snapshots :
        TargetName(Infrastructure, item.target) \in DOMAIN Infrastructure \ {Missing}
  BY AddressFound
<1>5. ASSUME NEW mapping \in c.service_mappings
      PROVE  /\ mapping = [field \in DOMAIN mapping |-> mapping[field]]
             /\ "target" \in DOMAIN mapping /\ mapping.target # Missing
             /\ check_service_mapping(mapping)
             /\ mapping.service \in DOMAIN services /\ mapping.target \in DOMAIN Infrastructure
  <2>1. PICK item \in doc.activation :
          mapping = Mapping(item.key, item.container, TargetName(Infrastructure, item.target), Missing)
    BY <1>2
  <2>2. PICK target : target = TargetName(Infrastructure, item.target) /\ target \in DOMAIN Infrastructure \ {Missing}
    BY <1>4
  <2>3. mapping.service = item.key /\ mapping.container = item.container /\ mapping.target = target
    BY <2>1, <2>2, MappingFields
  <2>4. "target" \in DOMAIN mapping /\ mapping = [field \in DOMAIN mapping |-> mapping[field]]
    BY <2>1, <2>2, MappingFields
  <2>5. Missing \notin {item.key, item.container}
    BY DEF check_old_manifest, check_activation_array
  <2> QED BY <1>3, <2>2, <2>3, <2>4, <2>5 DEF check_service_mapping
<1>6. ASSUME NEW mapping \in c.snapshot_mappings
      PROVE  /\ mapping = [field \in DOMAIN mapping |-> mapping[field]]
             /\ "target" \in DOMAIN mapping /\ mapping.target # Missing
             /\ mapping.service \in DOMAIN services /\ mapping.target \in DOMAIN Infrastructure
             /\ Missing \notin {mapping.component, mapping.container, mapping.target}
  <2>1. PICK item \in doc.snapshots :
          mapping = [component |-> item.component, container |-> item.container,
                     target |-> TargetName(Infrastructure, item.target),
                     service |-> find_service_key(services, item.service), provider |-> Missing]
    BY <1>2
  <2>2. PICK target : target = TargetName(Infrastructure, item.target) /\ target \in DOMAIN Infrastructure \ {Missing}
    BY <1>4
  <2>3. Missing \notin {item.component, item.container}
    BY DEF check_old_manifest, check_old_snapshots_array
  <2>4. PICK key : key = find_service_key(services, item.service)
    OBVIOUS
  <2>5. key \in DOMAIN services
    <3>1. PICK other \in doc.activation : other.service = item.service
      BY DEF OldModel
    <3>2. other.key \in {k \in DOMAIN services : services[k].pkg = item.service}
      BY <1>3, <3>1
    <3> QED BY <2>4, <3>2 DEF find_service_key
  <2>6. /\ mapping.component = item.component /\ mapping.container = item.container
        /\ mapping.target = target /\ mapping.service = key /\ "target" \in DOMAIN mapping
        /\ mapping = [field \in DOMAIN mapping |-> mapping[field]]
    BY <2>1, <2>2, <2>4
  <2> QED BY <2>2, <2>3, <2>5, <2>6
<1>7. PICK d : d = Document(c)
  OBVIOUS
<1>8. /\ d.version = 2 /\ d.profiles = c.profiles /\ d.services = services
      /\ d.serviceMappings = c.service_mappings /\ d.snapshotMappings = c.snapshot_mappings
      /\ d.infrastructure = Infrastructure
  BY <1>2, <1>7 DEF Document
<1>9. Explicit(d)
  <2>1. Addressed(d.serviceMappings)
    BY <1>5, <1>8 DEF Addressed
  <2>2. Addressed(d.snapshotMappings)
    BY <1>6, <1>8 DEF Addressed
  <2> QED BY <1>3, <1>8, <2>1, <2>2 DEF Explicit
<1>10. /\ n.correct_version /\ n.profiles = c.profiles
       /\ n.service_mappings = c.service_mappings /\ n.snapshot_mappings = c.snapshot_mappings
       /\ SameTable(n.services, services)
       /\ n.targets = [name \in DOMAIN Infrastructure |-> parse_target(Infrastructure[name])]
  <2>1. n = parse_manifest(d, AllParts, Missing, Missing, "localhost")
    BY <1>7
  <2> QED BY <1>8, <1>9, <2>1, ReadAsWritten
<1>11. Keys(n) = Keys(c)
  BY <1>10 DEF Keys
<1>12. ASSUME check_targets_table(Infrastructure)
       PROVE  check_manifest(n)
  <2>1. Missing \notin Range(n.profiles)
    <3>1. ASSUME NEW name \in DOMAIN c.profiles
          PROVE  c.profiles[name] # Missing
      <4>1. PICK item : item = CHOOSE i \in doc.distribution : TargetName(Infrastructure, i.target) = name
        OBVIOUS
      <4>2. item \in doc.distribution
        BY <1>2, <4>1
      <4>3. c.profiles[name] = item.profile
        BY <1>2, <4>1
      <4> QED BY <4>2, <4>3 DEF check_old_manifest, check_distribution_array
    <3> QED BY <1>10, <3>1 DEF Range
  <2>2. check_services_table(n.services)
    BY <1>3, <1>10 DEF SameTable, check_services_table
  <2>3. \A mapping \in n.service_mappings : check_service_mapping(mapping)
    BY <1>5, <1>10
  <2>4. DOMAIN n.targets = DOMAIN Infrastructure /\ \A name \in DOMAIN Infrastructure : n.targets[name] = Infrastructure[name]
    BY <1>10, InfrastructureOK DEF Range
  <2>5. check_targets_table(n.targets)
    BY <1>12, <2>4 DEF check_targets_table
  <2>6. check_mapping_references(n.service_mappings, n.services, n.targets)
    BY <1>5, <1>10, <2>4 DEF SameTable, check_mapping_references
  <2>7. check_mapping_references(n.snapshot_mappings, n.services, n.targets)
    BY <1>6, <1>10, <2>4 DEF SameTable, check_mapping_references
  <2>8. \A mapping \in n.snapshot_mappings : check_snapshot_mapping(mapping)
    <3>1. Missing \notin DOMAIN services
      BY <1>3 DEF check_old_manifest, check_activation_array
    <3> QED BY <1>6, <1>10, <3>1 DEF check_snapshot_mapping
  <2> QED BY <1>10, <2>1, <2>2, <2>3, <2>5, <2>6, <2>7, <2>8 DEF check_manifest
<1> QED BY <1>11, <1>12
=============================================================================
