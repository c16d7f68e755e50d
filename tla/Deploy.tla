------------------------------- MODULE Deploy -------------------------------
(***************************************************************************)
(* Deployments: what users do to a distributed system with disnix-env and  *)
(* the commands below it (scripts/disnix-env.in, src/libdeploy/deploy.c,   *)
(* src/deploy, src/activate, src/lock, src/set, src/distribute,            *)
(* src/migrate, src/collect-garbage, src/capture-manifest,                 *)
(* src/compare-manifest, src/convert-manifest).                            *)
(*                                                                         *)
(* Every user runs one command at a time; a command is a sequence of       *)
(* phases.  What happens within the transition, the distribution, the      *)
(* migration and the locking of a target is in Transition, Fleet, Migrate  *)
(* and Locking; here a phase has the outcomes that those leave.            *)
(***************************************************************************)
EXTENDS FrontEnd, Conversion

CONSTANTS
    User, Target,
    Built,           \* the files that Nix built: name |-> document
    Link,            \* the name of the coordinator's profile, a symbolic link
    Rollback,        \* in the place of a file: that of the generation before the last
    Requests,        \* what users may ask: a script or command, its arguments, a
                     \* file (or Link, Rollback or None) and an environment
    Infrastructure,  \* the infrastructure model that conversions are given
    InitialFiles,    \* what may have been deployed before: a file, or None
    MaxRequests,     \* how many requests users make
    MayFail,         \* TRUE when phases may fail
    MayCrash         \* TRUE when a command may be killed

ASSUME NoneIsNoUser == None \notin User
ASSUME NoneIsNoValue == None \notin {"yes", "default"}

VARIABLES
    running,   \* the keys of the service mappings that are active
    lock,      \* target |-> the user whose command locked it, or None
    late,      \* requests that targets still carry out although nobody waits for
               \* them: "lock" or "unlock", for whom, and the target
    profile,   \* target |-> the generations of its profile
    store,     \* target |-> the profiles that are in its Nix store
    local,     \* the profiles that are in the coordinator's Nix store
    links,     \* the generations of the coordinator's profile
    job,       \* user |-> the command that is running, or that ended last
    ghost,     \* user |-> what others did to its deployment
    advice,    \* user |-> the commands that the last one told to run
    left       \* how many requests may still be made

world == <<running, lock, late, profile, store, local, links>>
vars == <<running, lock, late, profile, store, local, links, job, ghost, advice, left>>

-----------------------------------------------------------------------------
(* Files and manifests. *)

\* A file that was not built by Nix is a document that a command printed.
Contents(file) == IF file \in DOMAIN Built THEN Built[file] ELSE file

\* The manifest that a document describes, whatever its version.
Manifested(doc) ==
    IF doc.version = 1 THEN convert_manifest(doc, Infrastructure)
    ELSE parse_manifest(doc, AllParts, Missing, Missing, "localhost")

\* The machines of a manifest are there, and the profile of each is its own.
OnTargets(manifest) ==
    /\ DOMAIN manifest.targets \cup DOMAIN manifest.profiles \subseteq Target
    /\ \A t \in DOMAIN manifest.profiles : manifest.profiles[t][2] = t

\* What Nix builds.  What was deployed before was checked then.
ASSUME BuiltOK ==
    /\ None # Link /\ {None, Link, Rollback} \cap DOMAIN Built = {}
    /\ \A file \in DOMAIN Built :
         (Built[file].version = 1 => Convertible(Built[file], Infrastructure))
         => OnTargets(Manifested(Built[file]))
    /\ \A file \in InitialFiles \ {None} :
         /\ file \in DOMAIN Built
         /\ OnTargets(Manifested(Built[file])) /\ check_manifest(Manifested(Built[file]))

\* Mappings that say where they are.
Addressed(array) ==
    \A mapping \in array :
      /\ mapping = [field \in DOMAIN mapping |-> mapping[field]]
      /\ "target" \in DOMAIN mapping /\ mapping.target # Missing

\* A service whose dependencies say where they are.
Depends(service) ==
    /\ service = [field \in DOMAIN service |-> service[field]]
    /\ {"depends_on", "connects_to"} \subseteq DOMAIN service
    /\ Addressed(service.depends_on) /\ Addressed(service.connects_to)

\* generateDeploymentModel: a mapping is on a machine of the infrastructure, and
\* every machine has a profile.  generateProfiles: a profile holds the profile
\* manifest of a document, be it that one or another that leaves it the same.
GeneratedDeploymentModel(doc) ==
    /\ Addressed(doc.serviceMappings) /\ Addressed(doc.snapshotMappings)
    /\ \A mapping \in doc.serviceMappings \cup doc.snapshotMappings : mapping.target \in DOMAIN doc.profiles
    /\ \A key \in DOMAIN doc.services : Depends(doc.services[key])
    /\ \A t \in DOMAIN doc.profiles :
         LET name == doc.profiles[t][1]
         IN  /\ name \in DOMAIN Built /\ Built[name].version = 2
             /\ generateProfileManifest(Built[name], t) = generateProfileManifest(doc, t)

\* What the expressions of the version before wrote: dependencies are keys of
\* mappings, a key stands for one service, and what has state is activated.
OldModel(doc) ==
    /\ \A item \in doc.distribution :
         item.profile[1] \in DOMAIN Built /\ Built[item.profile[1]].version # 2
    /\ \A item \in doc.activation \cup doc.snapshots :
         \E other \in doc.distribution : other.target = item.target
    /\ \A item \in doc.activation :
         /\ \A key \in item.dependsOn \cup item.connectsTo : Missing \notin {key.key, key.container}
         /\ \A other \in doc.activation : other.key = item.key => other.service = item.service
    /\ \A item \in doc.snapshots : \E other \in doc.activation : other.service = item.service

Written(doc) ==
    (doc.version = 2 => GeneratedDeploymentModel(doc)) /\ (doc.version = 1 => OldModel(doc))

ASSUME ModelsOK == \A doc \in Range(Built) : Written(doc)

\* A table of targets has been through create_targets_table.
ASSUME InfrastructureOK ==
    \A target \in Range(Infrastructure) : parse_target(target) = target

\* An option that is given has a value; --delete-state is a switch.
Valued(args) ==
    \A spelling \in {s \in DOMAIN args : Option(s) # "old-manifest"} :
      args[spelling] # None /\ (Option(spelling) = "delete-state" => args[spelling] = "yes")

\* Users name files that were built.  disnix-reconstruct and what visits the
\* machines that there are take an infrastructure model.
ASSUME RequestsOK ==
    /\ MaxRequests \in Nat
    /\ \A r \in Requests :
         /\ r.file \in DOMAIN Built \cup {None, Link, Rollback}
         /\ Valued(r.asked) /\ Given(r.asked, "old-manifest") \in DOMAIN Built \cup {None, Link}
         /\ r.script \in {"disnix-reconstruct", "capture_manifest", "collect_garbage"} =>
              r.file \in DOMAIN Built /\ Built[r.file].version = 2

\* determine_previous_manifest_file: the link is followed when it is opened.
Resolve(file) ==
    IF file # Link THEN file ELSE IF links = <<>> THEN None ELSE Last(links)

create_manifest(file, parts) ==
    IF Resolve(file) = None THEN None
    ELSE parse_manifest(Contents(Resolve(file)), parts, Missing, Missing, "localhost")

\* The parts of a manifest that a command reads, and of the previous one.
Parts(command) ==
    CASE command \in {"deploy", "compare_manifest"} -> AllParts
      [] command = "activate" -> {"serviceMappings", "infrastructure"}
      [] command \in {"lock", "set", "distribute"} -> {"profiles", "infrastructure"}
      [] command = "migrate" -> {"snapshotMappings", "infrastructure"}
      [] OTHER -> {"infrastructure"}

PreviousParts(command) ==
    CASE command \in {"deploy", "compare_manifest"} -> AllParts
      [] command = "activate" -> {"serviceMappings"}
      [] command = "migrate" -> {"snapshotMappings"}
      [] OTHER -> {}

\* The commands that work on the manifest deployed last when none is given.
OpensPrevious == {"lock", "migrate", "convert_manifest"}

Targets(j) == DOMAIN j.new.targets
Owned(j) == DOMAIN j.new.profiles

\* A profile for every machine of the infrastructure, as Nix makes them.  lock()
\* visits the profiles and transition() the infrastructure: a manifest that
\* disnix-reconstruct captured lacks the profiles of machines nobody deployed to.
Covered(j) == Targets(j) \subseteq Owned(j)

Keys(manifest) == {ServiceKey(mapping) : mapping \in manifest.service_mappings}

\* What a file says is deployed, whatever its version.
Described(file) ==
    IF Contents(file).version = 1 THEN convert_manifest(Contents(file), Infrastructure)
    ELSE create_manifest(file, AllParts)

-----------------------------------------------------------------------------
(* Commands. *)

\* A phase that an option leaves out.
Unless(options, option, phase) == IF Given(options, option) = None THEN <<phase>> ELSE <<>>

Phases(command, options) ==
    CASE command = "deploy" ->
           <<"distribute">> \o Unless(options, "no-lock", "lock") \o <<"deactivate", "activate">>
             \o Unless(options, "no-migration", "migrate") \o <<"targets", "coordinator">>
             \o Unless(options, "no-lock", "unlock")
      [] command = "activate" -> <<"deactivate", "activate">>
      [] command = "set" -> Unless(options, "no-target-profiles", "targets")
                              \o Unless(options, "no-coordinator-profile", "coordinator")
      [] command = "lock" -> IF Given(options, "unlock") = None THEN <<"lock">> ELSE <<"unlock">>
      [] command = "distribute" -> <<"distribute">>
      [] command = "migrate" -> <<"migrate">>
      [] command = "collect_garbage" -> <<"collect">>
      [] command = "capture_manifest" -> <<"capture">>
      [] command = "compare_manifest" -> <<"compare">>
      [] command = "convert_manifest" -> <<"convert">>
      [] OTHER -> <<"elsewhere">>

\* The phases that visit the targets one by one.
Visits(phase, new) ==
    CASE phase \in {"lock", "unlock", "targets"} -> DOMAIN new.profiles
      [] phase \in {"collect", "capture"} -> DOMAIN new.targets
      [] OTHER -> {}

Enter(j, phases) ==
    [j EXCEPT !.phases = phases, !.todo = IF phases = <<>> THEN {} ELSE Visits(Head(phases), j.new)]

Exit(j, status) == [j EXCEPT !.phases = <<>>, !.todo = {}, !.exit = status]

\* The next phase; after the last one the command ends well.
Succeed(j) == IF Len(j.phases) = 1 THEN Exit(j, "0") ELSE Enter(j, Tail(j.phases))

\* Fault: a deployment that cannot migrate the state leaves its locks.
FailLocked(j) == Exit(j, "1")

\* A deployment that fails releases its locks; nothing else is undone.
Fail(j) ==
    IF Last(j.phases) = "unlock" /\ Len(j.phases) > 1 /\ Head(j.phases) \notin {"distribute", "lock"}
    THEN [Enter(j, <<"unlock">>) EXCEPT !.ok = FALSE]
    ELSE Exit(j, "1")

-----------------------------------------------------------------------------
(* Opening. *)

Well(manifest) == manifest # None /\ check_manifest(manifest)

\* The previous manifest is optional; disnix-activate takes it unchecked, and
\* disnix-compare-manifest tells it apart.
PreviousOK(command, old) == old = None \/ command \notin {"deploy", "migrate"} \/ check_manifest(old)

Safe(command, new, old, options) ==
    command = "deploy" /\ old # None =>
      check_safe_data_migration(old, new, Given(options, "no-migration") # None)

\* What a command works on: a manifest, or the targets of an infrastructure model.
Opened(command, file, args, env) ==
    CASE command \in {"capture_manifest", "collect_garbage"} ->
           [EmptyManifest EXCEPT !.targets =
              create_targets_table(Contents(file).infrastructure,
                                   InEffect("target-property", args, env), InEffect("interface", args, env))]
      [] command = "convert_manifest" -> EmptyManifest
      [] OTHER -> create_manifest(file, Parts(command))

\* --no-upgrade of disnix-migrate leaves the previous manifest alone.
OpenedPrevious(command, file, args) ==
    IF command = "migrate" /\ Given(args, "no-upgrade") # None THEN None
    ELSE create_manifest(file, PreviousParts(command))

\* main and the run_ function of a command.
Open(command, args, file, env, asked, calls) ==
    LET operand == IF file = None /\ command \in OpensPrevious THEN Link ELSE file
        given == Given(args, "old-manifest")
        oldFile == IF given # None THEN given ELSE IF links = <<>> THEN None ELSE Link
        parsed == Parse(command, args, IF file = None THEN 0 ELSE 1)
        runs == parsed = "runs"
        new == IF runs THEN Opened(command, operand, args, env) ELSE None
        old == IF runs THEN OpenedPrevious(command, oldFile, args) ELSE None
        fine == runs /\ Well(new) /\ PreviousOK(command, old) /\ Safe(command, new, old, args)
        phases == Phases(command, args)
        status == CASE parsed = "help" -> "0"
                    [] runs /\ command = "compare_manifest" /\ new # None -> "2"
                    [] OTHER -> "1"
        j == [command |-> command, args |-> args, env |-> env, asked |-> asked, calls |-> calls,
              parsed |-> parsed, file |-> Resolve(operand), new |-> new,
              oldFile |-> oldFile, old |-> old, status |-> "ok",
              phases |-> phases, todo |-> {}, acquired |-> {}, ok |-> TRUE,
              profiles |-> NoTable, astray |-> {}, exit |-> "none"]
    IN  IF ~fine THEN Exit(j, status)
        ELSE IF phases = <<>> THEN Exit(j, "0") ELSE Enter(j, phases)

-----------------------------------------------------------------------------
(* What a command tells its user to run next.  The previous manifest is    *)
(* printed as it was given: the link, or a file.                           *)

\* A default profile is not printed, except by print_transition_status.
ProfileArgs(j, always) ==
    LET name == InEffect("profile", j.args, j.env)
    IN  Over(IF always \/ name # "default" THEN Only("p", name) ELSE NoTable,
             Pass(j.args, {"coordinator-profile-path"}))

\* The disnix-activate that brings a configuration back is not to roll back itself.
NoRollback(j, args) == Over(Over(ProfileArgs(j, TRUE), Only("no-rollback", "yes")), args)

Told(command, args, file) == [command |-> command, args |-> args, file |-> file]

\* Fault: the old and the new configuration change places.
AdviceSwapped(j) ==
    IF j.status = "new mappings" /\ j.oldFile # None
    THEN <<Told("activate", NoRollback(j, Only("o", j.oldFile)), j.file)>>
    ELSE <<>>

\* print_deploy_state_fail_message, print_transition_status
Advice(j) ==
    CASE j.status = "state" ->
           <<Told("migrate",
                  Over(Over(ProfileArgs(j, FALSE), Pass(j.args, {"no-upgrade", "delete-state"})),
                       IF j.oldFile = None THEN NoTable ELSE Only("o", j.oldFile)), j.file),
             Told("set", ProfileArgs(j, FALSE), j.file)>>
      [] j.status = "new mappings" /\ j.oldFile # None ->
           <<Told("activate", NoRollback(j, Only("o", j.file)), j.oldFile)>>
      [] j.status = "obsolete mappings" /\ j.oldFile # None ->
           <<Told("activate", NoRollback(j, Only("no-upgrade", "yes")), j.oldFile)>>
      [] OTHER -> <<>>

-----------------------------------------------------------------------------
(* What a command does to the others: it spoils a deployment that does not *)
(* hold the locks of all its machines, and one of any phase if it works    *)
(* without such locks, or sets the coordinator's profile, which nothing    *)
(* locks.  No deployment is alone when another changed machines, be it     *)
(* others than its own, or the coordinator's profile.                      *)

Running(u) == job[u].exit = "none" /\ job[u].phases # <<>>
At(u, phase) == Running(u) /\ Head(job[u].phases) = phase
Holds(u) == Running(u) /\ job[u].acquired = Owned(job[u])

Untouched == UNCHANGED ghost

Spoils(v, spared) ==
    ghost' = [u \in User |-> IF u = v THEN ghost[u]
                             ELSE [ghost[u] EXCEPT !.sound = @ /\ u \in spared, !.alone = FALSE]]

Touches(v) ==
    Spoils(v, {u \in User : /\ Holds(u) /\ Covered(job[u])
                            /\ job[v].acquired # {} /\ Covered(job[v]) /\ ~ghost[v].forced})

NoJob == [command |-> "none", calls |-> <<>>, phases |-> <<>>, exit |-> "0", env |-> NoTable,
          asked |-> NoTable, parsed |-> "help", astray |-> {}]

\* What is left of the last command of a script when it has ended.
Ended(j) ==
    IF j.exit = "none" \/ j.calls # <<>> THEN j
    ELSE [NoJob EXCEPT !.command = j.command, !.exit = j.exit, !.env = j.env, !.astray = j.astray]

Set(u, j) ==
    /\ job' = [job EXCEPT ![u] = Ended(j)]
    /\ advice' = IF j.exit # "none" /\ j.command \in {"deploy", "activate"}
                 THEN [advice EXCEPT ![u] = Advice(j)] ELSE advice
    /\ UNCHANGED left

Succeeds(u) == Set(u, Succeed(job[u]))
Fails(u, status) == Set(u, Fail([job[u] EXCEPT !.status = status]))

\* A phase that visits the targets ends with the last one.
EndVisits(j) == IF j.ok THEN Succeed(j) ELSE Fail(j)

Visited(j, t, ok) ==
    LET k == [j EXCEPT !.todo = @ \ {t}, !.ok = @ /\ ok]
    IN  IF k.todo # {} THEN k ELSE EndVisits(k)

-----------------------------------------------------------------------------
(* The requests of users. *)

Idle(u) == ~Running(u) /\ job[u].calls = <<>>

\* The manifest that a deployment replaces is the one in effect.
Sound(j) ==
    LET current == create_manifest(Link, AllParts)
    IN  /\ j.command = "deploy" /\ j.exit = "none" /\ j.old = current
        /\ running = (IF current = None THEN {} ELSE Keys(current))

\* A command of u locked t, or may still lock it.
Locks(u, t) == lock[t] = u \/ <<"lock", u, t>> \in late

Begins(u, j) ==
    /\ job' = [job EXCEPT ![u] = Ended(j)]
    /\ ghost' = [ghost EXCEPT ![u] =
                   [sound |-> Sound(j), alone |-> TRUE, forced |-> FALSE, before |-> {t \in Target : Locks(u, t)}]]
    /\ advice' = [advice EXCEPT ![u] = <<>>]
    /\ left' = left - 1
    /\ UNCHANGED <<running, lock, late, profile, store, links>>

\* The script of a request: the commands it calls, one after another.
Calls(r) ==
    CASE r.script = "disnix-env" ->
           disnix_env(r.asked, r.env, IF links = <<>> THEN None ELSE Last(links))
      [] r.script = "disnix-reconstruct" -> disnix_reconstruct(r.asked)
      [] r.script = "disnix-convert" -> disnix_convert(r.asked)
      [] r.script = "disnix-delegate" -> disnix_delegate(r.asked)
      [] OTHER -> <<Call(r.script, r.asked)>>

\* disnix-env builds the profiles of a manifest on the coordinator.
ProfilesOf(file) == IF file \in DOMAIN Built THEN Range(Described(file).profiles) ELSE {}

Request(u) ==
    /\ Idle(u) /\ left > 0
    /\ \E r \in Requests :
         /\ r.file = Rollback => Len(links) > 1
         /\ LET calls == Calls(r)
                file == IF r.file = Rollback THEN links[Len(links) - 1] ELSE r.file
            IN  /\ calls # <<>>
                /\ Begins(u, Open(Head(calls).command, Head(calls).args, file, r.env, r.asked, Tail(calls)))
                /\ local' = IF r.script = "disnix-env" THEN local \cup ProfilesOf(file) ELSE local

\* disnix-env --delete-all-generations removes the coordinator's profile, and
\* nix-collect-garbage on the coordinator what only the profile referred to.
ForgetGenerations(u) ==
    /\ Idle(u) /\ left > 0 /\ links # <<>> /\ \A v \in User : ~Running(v)
    /\ links' = <<>> /\ left' = left - 1
    /\ local' \in {local, {}}
    /\ UNCHANGED <<running, lock, late, profile, store, job, ghost, advice>>

\* Run what the last command told to run.
FollowAdvice(u) ==
    /\ Idle(u) /\ left > 0 /\ advice[u] # <<>>
    /\ LET a == Head(advice[u])
       IN  job' = [job EXCEPT ![u] = Ended(Open(a.command, a.args, a.file, @.env, a.args, <<>>))]
    /\ advice' = [advice EXCEPT ![u] = Tail(@)]
    /\ ghost' = [ghost EXCEPT ![u].sound = @ /\ Head(advice[u]).command = "activate", ![u].forced = FALSE]
    /\ left' = left - 1
    /\ UNCHANGED world

\* The document that a command printed is the operand of the next one.
Printed(j) ==
    CASE j.command = "capture_manifest" -> Document(aggregate_manifest(j.profiles, j.new.targets))
      [] j.command = "convert_manifest" -> Document(convert_manifest(Contents(j.file), Infrastructure))
      [] OTHER -> j.file

\* The scripts stop at a command that fails, but for disnix-compare-manifest of
\* disnix-reconstruct, which fails when the coordinator's profile has to be set.
GoesOn(j) == (j.command = "compare_manifest") # (j.exit = "0")

NextCall(u) ==
    /\ ~Running(u) /\ job[u].calls # <<>>
    /\ LET j == job[u]
           next == Head(j.calls)
       IN  Set(u, IF GoesOn(j) THEN Open(next.command, next.args, Printed(j), j.env, j.asked, Tail(j.calls))
                  ELSE [j EXCEPT !.calls = <<>>])
    /\ Untouched /\ UNCHANGED world

-----------------------------------------------------------------------------
(* The phases. *)

\* What is sent to the targets is on the coordinator.
Distribute(u) ==
    /\ At(u, "distribute")
    /\ LET paths == job[u].new.profiles
           sent == {t \in Owned(job[u]) : paths[t] \in local}
       IN  \E received \in IF MayFail THEN SUBSET sent ELSE {sent} :
             /\ store' = [t \in Target |-> IF t \in received THEN store[t] \cup {paths[t]} ELSE store[t]]
             /\ IF received = Owned(job[u]) THEN Succeeds(u) ELSE Fails(u, "fail")
    /\ Untouched /\ UNCHANGED <<running, lock, late, profile, local, links>>

\* A manifest without profiles, or an infrastructure without machines.
VisitNobody(u) ==
    /\ Running(u) /\ Head(job[u].phases) \in {"lock", "unlock", "targets", "collect", "capture"}
    /\ job[u].todo = {}
    /\ Set(u, EndVisits(job[u]))
    /\ Untouched /\ UNCHANGED world

\* Fault: a lock that another user has is taken.
FreeOrNot(t) == TRUE

Free(t) == lock[t] = None

\* When a target cannot be locked, the ones that were are unlocked again.
AfterLocking(j) ==
    IF j.todo # {} THEN j
    ELSE IF j.ok THEN Succeed(j)
    ELSE IF j.acquired = {} THEN Exit(j, "1")
    ELSE [j EXCEPT !.phases = <<"unlock">>, !.todo = j.acquired]

\* The target is locked, for a command that SIGINT may yet make give up; or it is
\* not; or the connection breaks, while the target may still lock.
LockTarget(u, t) ==
    /\ At(u, "lock") /\ t \in job[u].todo
    /\ LET j == [job[u] EXCEPT !.todo = @ \ {t}]
           refused == [j EXCEPT !.ok = FALSE]
       IN  \/ /\ Free(t)
              /\ lock' = [lock EXCEPT ![t] = u]
              /\ \/ Set(u, AfterLocking([j EXCEPT !.acquired = @ \cup {t}]))
                 \/ MayFail /\ Set(u, AfterLocking([refused EXCEPT !.acquired = @ \cup {t}]))
              /\ UNCHANGED late
           \/ /\ ~Free(t) \/ MayFail
              /\ Set(u, AfterLocking(refused))
              /\ UNCHANGED <<lock, late>>
           \/ /\ MayFail
              /\ Set(u, AfterLocking([refused EXCEPT !.astray = @ \cup {t}]))
              /\ late' = late \cup {<<"lock", u, t>>}
              /\ UNCHANGED lock
    /\ Untouched /\ UNCHANGED <<running, profile, store, local, links>>

\* Whoever has the lock, it is released: by force, unless a command gives up
\* its own.
Release(t, own) ==
    /\ lock' = [lock EXCEPT ![t] = None]
    /\ ghost' = [v \in User |->
                   IF v \notin own /\ lock[t] = v THEN [ghost[v] EXCEPT !.sound = FALSE, !.forced = TRUE]
                   ELSE ghost[v]]

\* A target that has no lock reports a failure, and so may one that released its
\* lock although services refused.  If the connection breaks, or the profile is
\* corrupt, the lock stays, for now or for ever.
UnlockTarget(u, t) ==
    /\ At(u, "unlock") /\ t \in job[u].todo
    /\ \/ /\ lock[t] # None /\ Release(t, {u})
          /\ \/ Set(u, Visited(job[u], t, TRUE))
             \/ MayFail /\ Set(u, Visited(job[u], t, FALSE))
          /\ UNCHANGED late
       \/ /\ lock[t] = None
          /\ Set(u, Visited(job[u], t, FALSE))
          /\ UNCHANGED <<lock, late, ghost>>
       \/ /\ MayFail
          /\ Set(u, Visited([job[u] EXCEPT !.astray = @ \cup {t}], t, FALSE))
          /\ late' \in {late, late \cup {<<"unlock", u, t>>}}
          /\ UNCHANGED <<lock, ghost>>
    /\ UNCHANGED <<running, profile, store, local, links>>

\* The job of a request that nobody waits for ends on its target.
LateLock(u, t) ==
    /\ <<"lock", u, t>> \in late
    /\ late' = late \ {<<"lock", u, t>>}
    /\ lock' = IF Free(t) THEN [lock EXCEPT ![t] = u] ELSE lock
    /\ Untouched /\ UNCHANGED <<running, profile, store, local, links, job, advice, left>>

LateUnlock(u, t) ==
    /\ <<"unlock", u, t>> \in late
    /\ late' = late \ {<<"unlock", u, t>>}
    /\ Release(t, {})
    /\ UNCHANGED <<running, profile, store, local, links, job, advice, left>>

\* The mappings to deactivate, on machines that are still there, and to activate.
FromScratch(j) == j.old = None \/ Given(j.args, "no-upgrade") # None

Added(j) ==
    {ServiceKey(mapping) : mapping \in
       IF FromScratch(j) THEN j.new.service_mappings
       ELSE subtract_service_mapping_array(j.new.service_mappings, j.old.service_mappings)}

\* Fault: the mappings are compared the other way around.
ObsoleteSwapped(j) == Added(j)

Obsolete(j) ==
    IF FromScratch(j) THEN {}
    ELSE {ServiceKey(mapping) : mapping \in
            {m \in subtract_service_mapping_array(j.old.service_mappings, j.new.service_mappings) :
               m.target \in Targets(j)}}

RollsBack(j) == Given(j.args, "no-rollback") = None
Dry(j) == Given(j.args, "dry-run") # None

\* What fails to be undone stays as it is; a rollback that was not tried is not
\* told apart from one that succeeded.
Deactivate(u) ==
    /\ At(u, "deactivate")
    /\ LET j == job[u] IN
       \/ /\ running' = IF Dry(j) THEN running ELSE running \ Obsolete(j)
          /\ Succeeds(u)
       \/ /\ MayFail /\ ~Dry(j)
          /\ \E X \in SUBSET Obsolete(j) :
               /\ running' = running \ X
               /\ Fails(u, IF X = {} \/ ~RollsBack(j) THEN "fail" ELSE "obsolete mappings")
    /\ Touches(u) /\ UNCHANGED <<lock, late, profile, store, local, links>>

\* A service can be activated when a profile that holds it is in the store.
Available(key) ==
    \E path \in store[key[1]] :
      key \in Keys(Described(path[1]))

\* A failure leaves what was activated, or what could not be activated again.
Activate(u) ==
    /\ At(u, "activate")
    /\ LET j == job[u]
           can == \A key \in Added(j) : Available(key)
       IN
       \/ /\ can \/ Dry(j)
          /\ running' = IF Dry(j) THEN running ELSE running \cup Added(j)
          /\ Succeeds(u)
       \/ /\ ~Dry(j) /\ (MayFail \/ ~can)
          /\ \E X \in SUBSET Added(j) :
               /\ \A key \in X : Available(key)
               /\ running' = IF X = {} /\ RollsBack(j) THEN running \cup Obsolete(j) ELSE running \cup X
               /\ Fails(u, IF X = {} \/ ~RollsBack(j) THEN "fail" ELSE "new mappings")
       \/ /\ ~Dry(j) /\ RollsBack(j) /\ MayFail
          /\ \E X \in SUBSET Obsolete(j) \ {{}} : running' = running \cup (Obsolete(j) \ X)
          /\ Fails(u, "obsolete mappings")
    /\ Touches(u) /\ UNCHANGED <<lock, late, profile, store, local, links>>

MigrateData(u) ==
    /\ At(u, "migrate")
    /\ \/ Succeeds(u)
       \/ MayFail /\ Fails(u, "state")
    /\ Untouched /\ UNCHANGED world

\* Fault: a generation is made whatever the last one is.
GenerationAlways(generations, path) == Append(generations, path)

\* nix-env --set makes a generation, unless the profile is that of the last one; it runs
\* since the paths are equally long, as Nix names a profile after its machine.
Generation(generations, path) ==
    IF generations # <<>> /\ Last(generations) = path THEN generations ELSE Append(generations, path)

\* pkgmgmt_set_profile; the path must be in the store.
SetTarget(u, t) ==
    /\ At(u, "targets") /\ t \in job[u].todo
    /\ LET path == job[u].new.profiles[t] IN
       \/ /\ path \in store[t]
          /\ profile' = [profile EXCEPT ![t] = Generation(@, path)]
          /\ Set(u, Visited(job[u], t, TRUE))
       \/ /\ MayFail \/ path \notin store[t]
          /\ UNCHANGED profile
          /\ Set(u, Visited(job[u], t, FALSE))
    /\ Touches(u) /\ UNCHANGED <<running, lock, late, store, local, links>>

\* pkgmgmt_set_coordinator_profile
SetCoordinator(u) ==
    /\ At(u, "coordinator")
    /\ \/ links' = Generation(links, job[u].file) /\ Succeeds(u)
       \/ MayFail /\ UNCHANGED links /\ Fails(u, "fail")
    /\ Spoils(u, {}) /\ UNCHANGED <<running, lock, late, profile, store, local>>

\* nix-collect-garbage keeps what the generations of a profile refer to; with -d
\* the last one is left of them.
CollectGarbage(u, t) ==
    /\ At(u, "collect") /\ t \in job[u].todo
    /\ LET kept == IF Given(job[u].args, "delete-old") = None \/ profile[t] = <<>> THEN profile[t]
                   ELSE <<Last(profile[t])>>
       IN  /\ profile' = [profile EXCEPT ![t] = kept]
           /\ store' = [store EXCEPT ![t] = @ \cap Range(kept)]
    /\ Set(u, Visited(job[u], t, TRUE))
    /\ Untouched /\ UNCHANGED <<running, lock, late, local, links>>

\* Fault: the mappings without a target are taken to be the coordinator's.
profile_manifest_here(path) ==
    [profile |-> path,
     manifest |-> parse_profile_manifest(generateProfileManifest(Contents(path[1]), path[2]), "localhost")]

\* The profiles are asked for, and read at once; a target that does not answer,
\* or has no profile, is left out.  Then the profiles are fetched.
profile_manifest_target(path) ==
    [profile |-> path,
     manifest |-> parse_profile_manifest(generateProfileManifest(Contents(path[1]), path[2]), path[2])]

Readable(path) == path \in local /\ Contents(path[1]).version = 2

CaptureTarget(u, t) ==
    /\ At(u, "capture") /\ t \in job[u].todo
    /\ \/ /\ profile[t] # <<>>
          /\ LET path == Last(profile[t])
                 j == IF Readable(path)
                      THEN [job[u] EXCEPT !.profiles = Over(Only(t, profile_manifest_target(path)), @)]
                      ELSE job[u]
             IN  /\ local' = local \cup {path}
                 /\ Set(u, Visited(j, t, Readable(path) /\ check_profile_manifest(j.profiles[t].manifest)))
       \/ /\ MayFail \/ profile[t] = <<>>
          /\ Set(u, Visited(job[u], t, TRUE))
          /\ UNCHANGED local
       \/ /\ MayFail /\ profile[t] # <<>>
          /\ Set(u, Visited(job[u], t, FALSE))
          /\ UNCHANGED local
    /\ Untouched /\ UNCHANGED <<running, lock, late, profile, store, links>>

\* The conversion reads pointers that were not assigned: it may also crash.
ConvertManifest(u) ==
    /\ At(u, "convert")
    /\ LET file == job[u].file
           fine == /\ file # None /\ check_old_manifest(Contents(file))
                   /\ Convertible(Contents(file), Infrastructure)
       IN  \E status \in IF fine THEN {"0", "1"} ELSE {"1"} : Set(u, Exit(job[u], status))
    /\ Untouched /\ UNCHANGED world

\* 0: the same; 1: not, or nothing to compare with; 2: the other is not well.
CompareManifest(u) ==
    /\ At(u, "compare")
    /\ LET j == job[u]
           status == CASE j.old = None -> "1"
                       [] j.old # None /\ ~Well(j.old) -> "2"
                       [] Well(j.old) /\ compare_manifests(j.new, j.old) -> "0"
                       [] OTHER -> "1"
       IN  Set(u, Exit(j, status))
    /\ Untouched /\ UNCHANGED world

\* Commands whose work is not about deployments.
Elsewhere(u) ==
    /\ At(u, "elsewhere")
    /\ \E status \in {"0", "1"} : Set(u, Exit(job[u], status))
    /\ Untouched /\ UNCHANGED world

\* A command that is killed leaves its locks, and targets that it asked to lock or
\* to unlock may still do so.
Crash(u) ==
    /\ MayCrash /\ Running(u)
    /\ \E asked \in SUBSET {t \in job[u].todo : At(u, "lock") \/ At(u, "unlock")} :
         late' = late \cup {<<Head(job[u].phases), u, t>> : t \in asked}
    /\ Set(u, [Exit(job[u], "crashed") EXCEPT !.calls = <<>>])
    /\ Untouched /\ UNCHANGED <<running, lock, profile, store, local, links>>

-----------------------------------------------------------------------------

Init ==
    /\ \E file \in InitialFiles :
         LET deployed == IF file = None THEN EmptyManifest ELSE Manifested(Built[file])
             On(t) == t \in DOMAIN deployed.profiles
         IN  /\ running = Keys(deployed)
             /\ profile = [t \in Target |-> IF On(t) THEN <<deployed.profiles[t]>> ELSE <<>>]
             /\ store = [t \in Target |-> IF On(t) THEN {deployed.profiles[t]} ELSE {}]
             /\ local = Range(deployed.profiles)
             /\ links = IF file = None THEN <<>> ELSE <<file>>
    /\ lock = [t \in Target |-> None] /\ late = {}
    /\ job = [u \in User |-> NoJob]
    /\ ghost = [u \in User |-> [sound |-> FALSE, alone |-> FALSE, forced |-> FALSE, before |-> {}]]
    /\ advice = [u \in User |-> <<>>]
    /\ left = MaxRequests

Step(u) ==
    \/ Request(u) \/ ForgetGenerations(u) \/ FollowAdvice(u) \/ NextCall(u)
    \/ Distribute(u) \/ Deactivate(u) \/ Activate(u) \/ MigrateData(u) \/ SetCoordinator(u)
    \/ ConvertManifest(u) \/ CompareManifest(u) \/ Elsewhere(u) \/ Crash(u) \/ VisitNobody(u)
    \/ \E t \in Target :
         LockTarget(u, t) \/ UnlockTarget(u, t) \/ SetTarget(u, t) \/ CollectGarbage(u, t)
           \/ CaptureTarget(u, t)

Late == \E u \in User, t \in Target : LateLock(u, t) \/ LateUnlock(u, t)

Next == Late \/ \E u \in User : Step(u)

Spec == Init /\ [][Next]_vars

-----------------------------------------------------------------------------

Phase == {"distribute", "lock", "deactivate", "activate", "migrate", "targets", "coordinator",
          "unlock", "collect", "capture", "compare", "convert", "elsewhere"}

\* No generation is like the one before it.
Progresses(generations) == \A n \in 1 .. Len(generations) - 1 : generations[n] # generations[n + 1]

\* Types; and nix-env --set of the profile that is in place makes no generation.
TypeOK ==
    /\ \A key \in running : key[1] \in Target
    /\ lock \in [Target -> User \cup {None}] /\ late \subseteq {"lock", "unlock"} \X User \X Target
    /\ \A t \in Target :
         Progresses(profile[t]) /\ \A path \in Range(profile[t]) \cup store[t] : path[2] = t
    /\ Progresses(links) /\ None \notin Range(links) /\ Link \notin Range(links)
    /\ \A u \in User :
         /\ Range(job[u].phases) \subseteq Phase
         /\ job[u].exit \in {"none", "0", "1", "2", "crashed"}
         /\ Running(u) => job[u].todo \cup job[u].acquired \cup job[u].astray \subseteq Target
    /\ left \in 0 .. MaxRequests

\* The configuration of a deployment is in place: what runs on its machines is
\* what its manifest says (or more, if nothing was to be deactivated), and the
\* profiles, there and on the coordinator, are those of its manifest.
InPlace(j) ==
    LET here == {key \in running : key[1] \in Targets(j)}
    IN  /\ Keys(j.new) \subseteq here
        /\ Given(j.args, "no-upgrade") = None => here = Keys(j.new)
        /\ \A t \in Owned(j) :
             Last(profile[t]) = j.new.profiles[t] /\ j.new.profiles[t] \in store[t]
        /\ Last(links) = j.file

\* All that is left for a deployment to do is to release its locks.
Done(j) == j.command = "deploy" /\ (j.exit = "0" \/ (j.phases = <<"unlock">> /\ j.ok))

\* deploy(): a deployment that reports success has put its configuration in place
\* when it releases its locks, although targets may be garbage collected, and
\* others may deploy, at any moment; provided that it began from the configuration that the
\* coordinator's profile describes, and nobody worked without locks meanwhile.
SuccessIsComplete ==
    [][\A u \in User :
         (ghost[u].sound /\ Running(u) /\ ~Done(job[u]) /\ Done(job'[u])) =>
           \A j \in {job[u]} : InPlace(j)']_vars

ChangedAt(t) == {key \in running' : key[1] = t} # {key \in running : key[1] = t}

\* lock(), deploy(): while a user's command has a target locked, no command of
\* another that takes locks changes what runs there or the target's profile,
\* unless its own lock was removed by force, or its manifest lacks profiles.
Undisturbed ==
    [][\A u, v \in User, t \in Target :
         (/\ u # v /\ lock[t] = u /\ job'[v] # job[v] /\ Running(v)
          /\ job[v].acquired # {} /\ ~ghost[v].forced /\ Covered(job[v])) =>
           /\ ~ChangedAt(t)
           /\ job[v].command = "deploy" => profile'[t] = profile[t]]_vars

\* deploy(): however a deployment ends, short of being killed, it leaves no lock
\* behind but on targets where a request or its answer got lost, and those that
\* were there, or under way, before.
LeavesNoLocks ==
    \A u \in User : \A t \in Target :
      (/\ lock[t] = u /\ ~Running(u) /\ job[u].command = "deploy" /\ job[u].exit # "crashed") =>
        t \in job[u].astray \cup ghost[u].before

\* What a command printed, once disnix-manifest has made a document of it.
Reread(j) == parse_manifest(Printed(j), AllParts, Missing, Missing, "localhost")

\* The command of u has printed, and the script goes on with it.
GoingOn(u, command) ==
    job[u].command = command /\ job[u].calls # <<>> /\ job[u].exit = "0" /\ job'[u] # job[u]

\* The profiles that were captured are those that were deployed last.
CapturedLast(j) ==
    LET last == Described(Last(links))
    IN  /\ links # <<>> /\ last.targets = j.new.targets
        /\ last.profiles = [t \in DOMAIN j.profiles |-> j.profiles[t].profile]

\* The manifest has no services that are on no machine, such as packages.
OnlyMapped(manifest) ==
    DOMAIN manifest.services \subseteq {mapping.service : mapping \in manifest.service_mappings}

\* capture_manifest(), convert_manifest(): the manifest that is captured from
\* targets whose profiles are those deployed last is the one deployed last, if
\* it has no other services than those that are mapped; a converted manifest has
\* the service mappings that are active, and is well if the infrastructure is.
DescribesSystem ==
    [][\A u \in User :
         LET last == Described(Last(links))
         IN  /\ (GoingOn(u, "capture_manifest") /\ CapturedLast(job[u]) /\ OnlyMapped(last)) =>
                   compare_manifests(Reread(job[u]), last)
             /\ (/\ GoingOn(u, "convert_manifest") /\ links # <<>>
                 /\ running = Keys(last) /\ job[u].file = Last(links)) =>
                   /\ Keys(Reread(job[u])) = running
                   /\ check_targets_table(Infrastructure) => check_manifest(Reread(job[u]))]_vars

\* disnix-env, disnix-reconstruct and disnix-convert: an option that the user gave
\* and that the command which runs knows is in effect there.  --target-property
\* never is, and --coordinator-profile-path of disnix-convert is only where the
\* converted manifest goes.
OptionsArrive ==
    \A u \in User :
      LET j == job[u] IN
      j.parsed = "runs" =>
        \A option \in {Option(spelling) : spelling \in DOMAIN j.asked} :
          (/\ option \in {Option(spelling) : spelling \in Commands[j.command].options}
           /\ option \notin {"target-property", "old-manifest"}
           /\ ~(j.command = "convert_manifest" /\ option = "coordinator-profile-path")) =>
            InEffect(option, j.args, j.env) = Given(j.asked, option)

\* print_transition_status: when a rollback failed, running the disnix-activate that
\* the deployment tells its user to run brings the old configuration back on the
\* machines of the old manifest, if it succeeds and nobody else deployed meanwhile.
AdviceRestores ==
    [][\A u \in User :
         LET old == create_manifest(Link, AllParts)
         IN  (/\ ghost[u].sound /\ ghost[u].alone /\ At(u, "activate") /\ job[u].command = "activate"
              /\ ~Dry(job[u]) /\ job'[u].exit = "0" /\ old # None) =>
               {key \in running' : key[1] \in DOMAIN old.targets} = Keys(old)]_vars
=============================================================================
