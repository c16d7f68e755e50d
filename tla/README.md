# Disnix, specified and verified

Disnix deploys service-oriented systems to networks of machines.  From a
manifest, which maps services to containers on target machines, the coordinator
copies the services, locks the targets, deactivates what is obsolete, activates
what is new in the order of the inter-dependencies, migrates state, sets the
profiles and releases the locks.  Each operation on a target is a process that
the coordinator forks; it runs a client that talks to the Disnix service over
there, which runs the operation in a process of its own and answers with a
signal.  This directory holds TLA+ models of the parts where order, concurrency
and failure matter, their TLC instances, and proofs that TLAPS checks.

    tlc -workers 2 -config MCTransition.cfg MCTransition    # check one run
    tlapm TransitionProofs.tla                              # check the proofs

`PROJECT.json` maps every definition to the lines it models and lists the runs,
the theorems, the hazards and the findings.

## The system's parts

Paths are below `src/`.  "Correct when" names what a model of the part has to
show.

| part | state | operations | correct when | model |
|---|---|---|---|---|
| transition (`libdeploy/transition.c`) | status of each service mapping, SIGINT flag | deactivate, activate, two rollbacks | inter-dependencies are up whenever a service runs; a success is real; a failure that says it rolled back did | Transition |
| traversal (`libmanifest/servicemapping-traverse.c`, `libinfrastructure/target.c`) | pid table, available cores, `num_done` | visit, fork, wait | it ends, reaps its children, gives its cores back | Transition, DependencyWalk |
| coordinator locking (`libdeploy/locking.c`, `libmanifest/profilemapping-iterator.c`) | lock table, success and SIGINT flags | lock, unlock on all targets | competing deployments exclude each other; failures leave no locks; it returns | Locking, Exclusion |
| target locking (`libprofilemanifest/profilelocking.c`, `dbus-service/locking.c`) | lock file, what services were told | acquire, release | a lock file is removed for its creator only; services stay locked with it | Locking |
| process iterators (`libprocreact`, `libmodel`) | running processes, buffers, success | spawn, wait, buffer, complete | each item completed once; limits kept; no hang | Iteration, PidIterator, FutureIterator, used by Fleet |
| snapshot traversal (`libmanifest/snapshotmapping-traverse.c`) | transferred flags, cores, pid table | passes over snapshot mappings | one operation at a time per core; all children reaped | Migrate |
| state migration (`libmigrate`, `migrate`, `snapshot`, `restore`, `delete-state`) | state and snapshots on machines and coordinator | snapshot, transfer, restore, delete | state is moved when it says so, and not deleted before | Migrate |
| snapshot copying (`libstatemgmt/copy-snapshots.c`) | generations at both ends | query, copy, resolve | what a success copied is the newest | CopySnapshots |
| closure copying, distribution (`libpkgmgmt/copy-closure.c`, `libdeploy/distribute.c`) | valid paths at both ends | query, export, import | references precede what refers to them | CopyClosure, Fleet |
| distributed build, capture, query, maintenance (`libbuild`, `capture-*`, `query`, `collect-garbage`, `clean-snapshots`) | items, results | one to three iterations over targets or derivations | success means all of them; results only after builds | Fleet |
| Disnix service and client (`dbus-service`) | job ids, log files, threads, signals | method handlers, `disnix-client` | a job per id; answers reach who asked | Service |
| operations on a target (`lib*/remote-*.c`, `*-management.c`, `run-activity`) | none | command lines at three places | what is asked for is what runs | Commands |
| daemonization (`dbus-service/daemonize.c`, `disnix-service.c`) | pid file, handshake pipe, bus name | start, stop | the parent reports what happened; one daemon per pid file | Daemonize |
| deployment (`libdeploy/deploy.c`, `deploy`, `activate`, `set`, `lock`, ...) | what runs, locks, profiles, stores, links | commands as sequences of phases | success means in place; locks respected and released | Deploy |
| manifests (`libmanifest`, `libprofilemanifest`, `libinfrastructure`, `capture-manifest`) | documents | parse, check, compare, subtract, aggregate | dangling references rejected; captured is what is deployed | Manifests |
| old manifests (`convert-manifest`) | documents | check, convert | the converted one names the same mappings | Conversion |
| command lines and scripts (`*/main.c`, `libmain`, `scripts`) | none | options, defaults, calls | options reach the command they are for | FrontEnd |
| XML and Nix syntax, printing, visualisation, Nix expressions | none | pure input and output, or external programs | - | not modelled |

How the parts interact: `deploy` calls locking, transition, migration and profile
setting one after the other; each of those drives the iterators or a traversal,
which fork and `wait()`; a child reaches the Disnix service of one target by a
method call and waits for a signal with its job id.  Ctrl-C sets a flag that each
phase looks at when its children are reaped, and makes `wait()` return early.
What makes this hard: children and SIGINT race with the loop that waits; failures
leave half-done work that a rollback has to take back; targets act for several
coordinators at a time; a connection may break while the work on the target goes
on; coordinators, services and their daemons die and start again; state is read
before it is locked.

## Modules

### Transition, DependencyWalk

`Transition` is one call of `transition()`: the coordinator, its children, and
the services on the machines.

* `status[m]` is `ServiceMapping.status`, the coordinator's view; `running` is
  what really runs.  That they are two things is the point: properties relate
  them.  `cores` is `Target.available_cores`, `child` the pid table with each
  process's state, `settled` the mappings `num_done` counts in this pass, `todo`
  the roots the `for` loop has yet to visit, `success` the traversal's flag,
  `interrupted` the SIGINT flag and `phase` the traversal that runs.
* `VisitDone`, `VisitInProgress`, `VisitError`, `VisitNoCore`, `VisitFork` and
  `VisitForkFails` are the outcomes of a recursive visit of a root: it walks
  from there, passes mappings that are settled, and stops at the first that is
  not.  `WaitReaps` and `WaitNothing` are `wait()` with and without a child;
  `Interrupt` between a visit and the reap lets `wait()` return without one.
  `NextPass` starts a pass over all roots again.
* `DeactivationReturns`, `ActivationReturns`, `NewMappingsRolledBack` and
  `RolledBackToOld` are what `transition()` does with the outcome of a
  traversal: the next one, `mark_erroneous_mappings`, a rollback, or its result.
* `ChildSucceeds` and `ChildFails` are the operations on the targets.

The recursion is in `UpWalk` and `DownWalk`, constants with an assumption: every
walk settles what a mapping needs before the mapping, and visits only what its root
needs (or what needs it), so that it never leaves (or enters) a set of mappings that
holds its inter-dependencies.  `DependencyWalk` computes
the walks as the code does.  That they meet the assumption is checked by TLC for every
acyclic graph on four mappings (`WalksSettleInOrder`) and proved in `WalkProofs` for
every finite one.  So the proofs about `Transition` hold for every walk order, the code's
among them, and the runs use the code's.

Requests are pairs of complete manifests (no dangling inter-dependency, as
`check_manifest` demands), with upgrade, rollback and dry-run flags.  A machine
of the previous manifest may be gone.  The graph is acyclic: on a cyclic one the
code recurses for ever.

### Locking, Exclusion

`Locking` has any number of coordinators and targets.  `stage[c]` says where in
`lock()` and `unlock()` a coordinator is, `unforked` which targets its iterator
has left, `client[c][t]` the forked client's job or outcome, `lockTable` the
targets remembered for the rollback, `success` the iterator's flag.  `job` holds
the processes on the targets, with the services they have left to notify;
`lockFile[t]` remembers who created the file (the code does not: it is a
history of who to blame), `notified` what services were last told.  `astray` is
history too: where a request or its answer was lost.

A client's request is handled at once or never (`ForkRequest`, `ForkRefused`,
`ForkUnreachable`); after that each notification is a step, so that jobs of
several coordinators on the same target interleave.  `ConnectionBreaks` fails a
client while its job goes on.  `Exit` is the end of a job and its signal.
`SetProfile` is the new profile installed between lock and unlock: unlock
notifies the services of the new one.  `Crash` is the end of a coordinator: when
`fork()` fails or SIGINT hits the blocked `wait()`, the completion callback
looks up a target for pid -1 and dereferences NULL; after the post-hook SIGINT
has its default effect (`Killed`).  A coordinator may start again.

`Exclusion` is what locking promises: coordinators enter and leave, and two that
have a target in common are never inside together.  `Locking` implements it
with `inside` as the coordinators in stage `locked`.

### CopySnapshots, Migrate

A snapshot store keeps the generations of a component, the newest last.
`CopySnapshots` gives the outcomes that a copy can have at the receiving store,
as a function of the rounds of the loop of `copy-snapshots.c` that are over; each command of
`dysnomia-snapshots` may fail, and the exit status is that of the last round, as
in the code.

`Migrate` is one of `disnix-snapshot`, `disnix-restore`, `disnix-delete-state`
and `disnix-migrate`.

* `request` holds the manifests and flags; `phase` what `FollowedBy` says comes
  next.  A phase is a traversal (`map_snapshot_items`) or an iteration with a
  limit (one worker per target that does the mappings of its target in order).
* `passes`, `turn`, `done`, `cores`, `lost` and `procs` are `num_processed`, the
  position in a pass, `transferred`, `available_cores`, the pid -1 and the
  children.  `request.keys` is the address of each machine (`find_target_key`), which the
  workers compare with the names of the machines in the mappings (`ItemsOn`).
  `ForkItems` is the `for` loop of a pass, `WaitReapsItem`,
  `WaitForNothing` and `WaitReapsLeftover` what `wait()` returns, where the last
  is a child of an earlier phase, whose mapping is looked up in the wrong table.
* `state` is what the components hold on the machines, `store` the snapshot
  stores; `Perform` is the effect of a remote operation, which may also report
  failure after it was done.  `Delete` passes over what is in use: a Dysnomia
  module only deletes what its deactivation marked as garbage
  (`doc/manual/dysnomia-modules.xml`).

### Commands, Daemonize, Service

`Commands` follows one operation: the argument vector that the coordinator
composes, with its allocated size; the options that `disnix-client` and
`disnix-run-activity` read from it; the method and the command line on the
target.  `Daemonize` is the life of one start of `disnix-service --daemon`: two
forks, the exclusive pid file, the byte in the pipe, the bus name, signals.
`Service` composes them: clients get a job id from the daemon that owns the name
(`GetJobId`), call a method with it (`StartJob` creates the log file exclusively,
`RefuseJob` when there is one), a job is a process with a thread that waits for
it (`ThreadSignals`), and a signal is put into the inbox of every client that is
connected; a client ignores those with another id.  `determine_next_pid` is what
a daemon does when it starts.  The threads of a daemon that ends are gone, the
processes are not.

### Iteration, PidIterator, FutureIterator, CopyClosure, Fleet

`PidIterator` and `FutureIterator` are the two loops of `libprocreact` on top of
`libmodel`: processes under a limit, and processes whose output is read breadth
first.  `futures` is the array in which the last future takes the place of a
finished one, `pos` the loop index, `pipe` and `got` the output under way and
read.  `CopyClosure` is a process that copies a closure: query requisites, print
invalid, export, import.  `Fleet` composes them into the programs of the
coordinator as `Phases`: `disnix-build` sends derivations, realises them and
fetches the results; `disnix-distribute` sends; `disnix-capture-manifest`
resolves profiles and fetches them; the others have one iteration.  A fork that
fails completes pid -1, for which there is no item: `ForkFails` is a crash.
`disnix-capture-manifest` keeps the resolved profiles in a hash table, so
`NextBatch` fetches them in an order of its own.

`Iteration` is what all of them promise: items wait, are active, then good or bad; a
process is started for the first of those that wait, within a bound; when none is
left another iteration begins, over as many items as were good, if none was bad or the
iteration is tolerant; otherwise the program stops, with the verdict 0 if and only if
none was bad.  Fleet implements it: the items that wait are those past `index`, the
active ones the children, zombies included, and good and bad ones those completed, by
how their process really ended and not by `success`.

### FrontEnd, Manifests, Conversion, Deploy

`FrontEnd` has the option table of every command (`getopt_long` and the `switch`
after it), defaults from the environment, and what the scripts pass on.
`Manifests` has parsing with its defaults, checks, comparisons, the subtraction of
arrays, profile manifests as `generate-profiles.nix` makes them, and their
aggregation.  `Conversion` makes a manifest of version 1 one of version 2.

`Deploy` composes them: users ask for commands or scripts (`Request`), a script
calls one command after another (`NextCall`), a command opens manifests (`Open`)
and goes through its phases, targets one by one where the code iterates over
them.  `running`, `lock`, `profile`, `store`, `local` and `links` are the world:
what is active, lock files, generations of the targets' profiles, the Nix stores
there and here, generations of the coordinator's profile.  `job[u]` is the
command of a user with the manifests it has read; that they were read before the
locking is kept.  `Deactivate`, `Activate`, `Distribute` and `MigrateData` have
the outcomes that Transition, Fleet and Migrate leave.  `LockTarget` and
`UnlockTarget` are an operation of Locking on one target at once: it was carried out,
with the answer or with a failure; it was refused; or the request or its answer got lost
(`astray`).  Then the target may still carry it out, at any later time and next to
other commands (`late`, `LateLock`, `LateUnlock`); so may the targets that a killed
command had asked (`Crash`).  `late` is a set, a bound: of two lost
requests of one user that ask the same of one target, and are under way at the same time,
one takes effect.  `advice` is what a failed command tells its user to run next,
`FollowAdvice` runs it.  `ghost` is history: whether somebody
interfered in a way that no lock rules out (see below).

### Proof and instance modules

`TransitionProofs`, `WalkProofs`, `LockingProofs`, `ServiceProofs`, `MigrateProofs`,
`FleetProofs`, `ManifestProofs` and `DeployProofs` (which builds on it) hold the
invariants and theorems, the `MC` modules the instances.  Operators commented "Fault:" are plausible mistakes in an
operator next to them, kept to make sure that each property notices one; no
specification uses them.

## Runs

| run | instance | shows |
|---|---|---|
| transition | 4 mappings (1 needs 2 and 4, 3 needs 4) on machines with one core each, all pairs of complete manifests, rollback or not, clean failures, SIGINT at any time | `TypeOK`; `DependenciesUp`; cores are never lost (`CoresAccounted`); a failure that does not say the rollback failed restored the old configuration (`FailureRestoresOld`); `Terminates` |
| faults | the same with two cores on one machine, failing forks, failed operations that had an effect, dry runs | kept services are not touched (`KeptUntouched`), success is real (`SuccessIsReal`), no traversal leaves a process (`NoOrphan`) |
| locking | coordinators a (targets t, u; may be hit by SIGINT or a failing fork) and b (t), a service on t that may refuse | `TypeOK`; the refinement of Exclusion (`Excludes`); `CommandsReturn` |
| lostrequests | the same without services; connections to t break, the profile of u may be corrupt or unreadable and change | `LocksHeld`; locks are only left where a request went astray (`NothingLeftLocked`) |
| migrate | components c and d, machines a and b with one or two cores, addressed by their names or otherwise, c moves from a to b; all commands and flags, three histories of the stores, failing operations and forks | with one core, one remote operation runs at a time on a machine (`OneAtATime`) and none outlives its phase (`NothingLeftBehind`); if machines are addressed by their names, a success moved the state (`RestoredIsMoved`) and nothing is deleted unsaved (`DeletedIsSaved`); a copy that succeeds brings the newest (`NewestArrives`); `Terminates` |
| service | each of the calls of all operations alone; two clients against two starts of the service that may fail and be killed | `OneJobPerId`; a client's success is its job's (`SuccessIsReal`); what is composed is what runs, in both clients (`CallsArrive`); `AnswersArrive`; `ToldTheTruth` and `PidFileNamesDaemon` of the daemon |
| fleet | builds of two and three derivations, distributions, captures, queries and maintenance on three or four targets, limits 0 to 2, pipes that hold less than is written | `EachCompletedOnce`; `StoresClosed` under concurrent copies; exit status 0 means everything was done (`SuccessIsComplete`); the refinement of Iteration, limits included (`Iterates`); `Terminates` unless the limit is 0 |
| deploy | two users with two requests of sixteen kinds, two machines, manifests A, B, C, a bad one, an empty one and one of version 1; crashes, failures, garbage collection | `SuccessIsComplete`; `Undisturbed` while locked; `LeavesNoLocks`; `OptionsArrive`; captured and converted manifests describe the system (`DescribesSystem`); `AdviceRestores` |

Why the bounds are enough.  Four mappings give a diamond-free graph with a
shared inter-dependency, a mapping with two, and obsolete, added and kept
mappings in one request, across machines.  Two cores are needed for children
that run at the same time after an interrupt.  Two coordinators with one target
in common and one with another target give the races on a lock file and partial
success; two jobs of a let a job of a dead coordinator run next to one of its
successor.  In `migrate` one component moves and another stays, appears or vanishes: with two mappings on a machine
passes, cores and the order within a worker matter; a third would repeat them.
In `fleet` three futures are needed for the last to take the place of another
than its neighbour, two derivations with a common source for copies that overlap,
`Output` above `Capacity` for a writer that has to wait.  In `service` two
daemons and two clients give every reuse of a job id and every signal for
somebody else.  In `deploy` two requests suffice for a deployment against a
deployment, an unlock, a garbage collection or the advice of a failed one; `Built`
has a manifest with a dependency across machines, one that moves a service, one
that drops a machine, one that deploys nothing and one that must be rejected; the two users are interchangeable, so TLC takes their
permutations as a symmetry.  In `migrate` addresses that are not names are met by the
requests of `disnix-migrate` that they matter to, one core and one worker at a time.  The proofs remove the bounds for what they cover.  The assumptions
on the constants are evaluated by TLC in every run.

Violations on purpose: these four runs state what comments or documentation say
and find that the code does otherwise.

| run | statement | what happens |
|---|---|---|
| concurrency | `AsManyAsPossible` (`doc/manual/basicusage.xml:895`) | `wait()` follows every visit, so one activation runs at a time |
| interrupt | `InterruptUnlocks` (`locking.c:110`, `locking.h`) | SIGINT in `wait()` ends `lock()` by a NULL dereference, and a lock that its table holds stays |
| services | `ServicesStayLocked` (`doc/manual/dysnomia-modules.xml:30`) | a lock attempt that one service refuses unlocks all services of a target another coordinator holds |
| addresses | `StateArrives` (`doc/manual/architecture.xml:163`) | where the target property of a machine is not its name, workers find no mapping: nothing is moved, obsolete state is deleted, and the migration succeeds |

## Fairness

`Transition!FairSpec`: the coordinator is not starved, and a remote operation
ends (disnix-client returns when the target signals or the connection drops).
`wait()` reaps a child that has ended even if a signal is pending, so the
coordinator's step of reaping stays enabled.  SIGINT is not assumed to come or
to stay away: it may come any number of times.
`Locking!FairSpec`: coordinators that work proceed, and jobs take their steps
(the activities of the services end).  Nothing is assumed about users, the
network or SIGINT.  `Migrate!FairSpec`: the coordinator and its children proceed,
and the operations on the targets end.  `Service!FairSpec`: clients run, jobs end
and the threads that wait for them go on.  Nothing makes a daemon start or stay
alive, and `AnswersArrive` excepts jobs whose daemon lost the bus name.
`Fleet!FairSpec`: the program and each of its processes proceed; a writer waits
for its reader, which is the program.  `Transition!Spec`, `Locking!Spec` and
`Deploy!Spec`, without fairness, serve safety.  Deadlock is not checked where a
program ends (`fleet`), clients have all they wanted (`service`) or users stop
asking (`deploy`).

## What a deployment is promised

No deployment is safe from everything that users may run next to it, so the
properties of `Deploy` name their exceptions, and `ghost[u]` remembers whether one
of them happened.

* `sound`: the deployment began from the configuration that the coordinator's
  profile describes and that runs.  It is lost when, before the locks are held,
  another command changes machines (the previous manifest is read before the
  locks are taken, `run-deploy.c:128`), and at any time when a command works
  without locks (`disnix-activate` and `disnix-set` by hand, `--no-lock`), when its own
  manifest or that of the other has no profile, hence no lock, for a machine of
  its infrastructure (`Covered`), or when the coordinator's profile is set (two
  deployments to disjoint machines do not exclude each other).
* `alone`: nobody else changed a machine, or the coordinator's profile, since the
  deployment began, not even on machines that the locks leave to others.
* `forced`: a lock was released by somebody else (`disnix-lock -u` asks nobody).
* `before`: locks that the user had when the command began, of a command that
  crashed or of `disnix-lock`.

`SuccessIsComplete` holds for sound deployments, `Undisturbed` for commands
whose own lock was not forced and whose manifest has a profile for every machine
of its infrastructure (`Covered`; see below for those that have not).  `LeavesNoLocks`
excepts the targets to which a request, or from which its answer, got lost
(`astray`: a target that locked although its coordinator could not know is not in the lock
table, `locking.c:85`, and no rollback asks it to unlock), requests that were under way before,
and crashes.  In `AdviceRestores` the advice brings back the machines of the old
manifest; new mappings on machines that the old manifest lacks are not
deactivated by it.  It is about deployments that are `sound` and `alone`: machines
that only the old manifest has are not locked by the deployment that drops them, so
another may deploy there, and then the advice no longer fits.  TLC found this with
three requests, where the property without `alone` fails.

## Theorems

Checked by tlapm, for every value of the constants that meets the named
assumptions: `ConstantsOK`, `UpWalkOK`, `DownWalkOK` and `RequestsOK` of Transition;
`LockingConstants`; `ConstantsOK`, `HistoriesOK` and `RequestsOK` of Migrate (an
address may be the name of its machine, but not that of another, whose mappings a worker would find);
`DaemonsOK` of Daemonize and `ScenariosOK` of Service; `UnlimitedOK`, `PipesOK`,
`ReferencesOK` and `ScenariosOK` of the iterators, of CopyClosure and of Fleet;
`NoneIsNoUser`, `NoneIsNoValue`, `BuiltOK`, `ModelsOK`, `InfrastructureOK` and `RequestsOK` of
Deploy (Nix makes a profile for a machine under that machine's name, what was deployed before
was checked then, users name files that were built, and an option that is given has a value).
`ModelsOK` is what `generate-deployment-model.nix` makes: mappings and dependencies name their
machine, each machine with a mapping has a profile, and that holds the profile manifest of the
model, or of another model that has the same there, since Nix names a profile by what it holds.
Of the old format, which no expression of the repository writes any more, it says that a
service key stands for one service and that what has a snapshot mapping is also activated.
`InfrastructureOK`: the infrastructure was read by `create_targets_table`.  TLC evaluates each of them in the runs.  Every inductive
invariant below was checked by TLC on the instances before it was proved.

Transition (`TransitionProofs`):

* `TypeCorrect`: `[]TypeOK`, which includes that the available cores never become
  negative.
* `DependenciesNeverBroken`: `[]DependenciesUp`.  It is not inductive alone.
  `ViewOK` ties the coordinator's statuses to what runs, but whether a mapping
  may be (de)activated is decided by the walk: `FlightOK` says that each process
  belongs to a mapping at which the visit of some root not yet counted stops, with
  everything before it settled.  `VisitedOK` says that the walks of the counted
  roots are settled as long as nothing failed, so that a successful traversal
  leaves everything it visits at its goal, which the next phase needs;
  `ErrorsOK` keeps errors on the walks of the traversal, since
  `mark_erroneous_mappings` turns them into "activated" or "deactivated" for a
  rollback; `PassOK` keeps the pass's bookkeeping straight.
* `NoProcessOrphaned`: `NoOrphan`.  From `FlightOK`: a process keeps a root from
  being counted.
* `KeptNeverTouched`, `ReportedSuccessIsReal`, `RollbackRestores`: `[]KeptUntouched`,
  `[]SuccessIsReal`, `[]FailureRestoresOld`, from `OutcomeInv`.  A traversal
  visits the inter-dependencies of its roots as well, so what it leaves alone is a
  matter of the walks: they never leave a configuration that is closed under
  inter-dependencies (`WalkReach`).  `ApartOK` says that the new mappings are down
  while old ones are concerned and the other way round; that is why a rollback,
  which begins with the new mappings, finds the old ones where the
  deactivation left them.  `ForwardOK` says that the statuses agree with the
  machines on the way forward, but for operations under way, also when failed operations had an
  effect; on the way back they need not agree, and `FailureRestoresOld` is about
  clean failures.
* `EveryCoreAccounted`: `[]CoresAccounted` if no fork fails (see below
  for what happens if one does).  `CoresLimitProcesses` says what remains true
  then: a machine never has more operations running than it has cores.

DependencyWalk (`WalkProofs`), without any assumption on the graph but that it is
finite and has no cycle:

* `InterDependenciesFirst`, `DependentsFirst`: the recursions of
  `servicemapping-traverse.c` satisfy `SettlesNeedsFirst` and `SettlesUsersFirst`, which
  is what `UpWalkOK` and `DownWalkOK` ask for.  Each induction is a smallest
  counterexample.  `WalkUnfolds`: the recursive function exists on each set of
  mappings that holds its neighbours, since a largest one on which it does not would lack a
  mapping that needs nothing outside it (`NobodyNeeds`).  `WalksOK`: no set of mappings
  has bad walks only, since one of its mappings needs none of the others.  `FlattenJoins`
  says that the walks of the neighbours, one after another, are blocks of the result.

Locking (`LockingProofs`):

* `TypeCorrect`: `[]TypeOK`, which includes that no client waits for a job that is over.
* `LocksAreHeld`: `[]LocksHeld`.  The invariant is about possession: a
  coordinator counts on a target's lock when it is inside, when the target
  confirmed, or when it has yet to ask for the removal.  `Possession`: whoever
  counts on a lock created its file and no job is going to remove it.
  `Removal`: a job that will remove a file works for its creator and is the only
  one.  `Clients` and `Remembered` tie clients to the kind of job they wait for and
  `lock()`'s table to the answers.  This is what rules out that a slow unlock, of a
  client that lost its connection or of a coordinator that died, removes the
  lock of a later holder.
* `LockingExcludes`: `Spec => Excludes`, the refinement of `Exclusion`, from the
  same invariant: two coordinators inside with a common target would both have
  created its lock file.
* `NoLockForgotten`: `[]NothingLeftLocked`.  `Tracked` accounts for each lock file
  of a coordinator by one of: a client that waits for the job that made it, an
  entry of the lock table, an unlock to come, a request or answer that went astray.

Service and Daemonize (`ServiceProofs`):

* `IdsAreUnique`, `ClientsTellTheTruth`: `[]OneJobPerId` and `[]SuccessIsReal` of
  Service.  `JobInv` ties the three: a job has a log file, and the id that its
  client was given and still has; what is in an inbox was said of a job (`Said`), which
  succeeded if it was a success; and what was said stays true, since jobs that
  ended do not change.  The ids themselves are not unique to clients: a daemon
  that starts again hands out those for which no log file was made.
* `TypeCorrect`: `[]TypeOK` of Service.  `StateInv` bounds the ids of the log files, so
  that there is a highest one and `determine_next_pid` is a number (`NextPid`), and
  knows that every method `run_disnix_client` calls has one of four kinds of answers
  (`RepliesKnown`), whatever the options.
* `ParentIsToldTheTruth`, `PidFileIsOfTheDaemon`: `[]ToldTheTruth` and
  `[]PidFileNamesDaemon`.  The file is needed from its creation to its removal, also
  while a daemon stops (`NeedsPidFile`), and only `daemonize()`'s own removal, which
  follows that of `start_disnix_service`, can take it from another.

Migrate (`MigrateProofs`):

* `TypeCorrect`, `OneOperationAtATime`, `TraversalsReapAll`: `[]TypeOK`,
  `[]OneAtATime`, `[]NothingLeftBehind`, from `ProcessInv`.  A traversal makes as many
  passes as there are mappings and then returns, whatever still runs.
  `TraversalOK` is why nothing does with one core per machine: as long as something
  is to be reaped or forked, or waits for a fork that failed to be noticed, the passes so far have each marked a mapping as
  done, so the last pass cannot come too early.  After a failed `fork()` the
  mapping holds its core with no process (`lost`), and `wait()` goes on until there
  are no children.
* `StateIsMoved`, `NoStateIsLost`: `[]RestoredIsMoved`, `[]DeletedIsSaved`, from
  `DataInv`.  It says of each phase what its predecessors have achieved
  (`EarlierOK`) and of each operation and each worker in mid-phase what it has done
  so far (`AchievedOK`, `Underway`): snapshots taken, retrieved, sent,
  restored.  Both are about machines that are addressed by their names (`Named`); the
  `addresses` run shows what happens otherwise.  Needed is that the newest snapshot of a component at the coordinator
  stays the one to be sent: copies of others do not touch it, and cleaning keeps it
  (`CopyLatest`, `CleanFacts`).

* `NewestSnapshotArrives`: the action property `NewestArrives`: a copy to a target that
  succeeds leaves the newest snapshot of the coordinator as the newest there.  All
  stores hold their generations in order, always (`StoresInOrder`), so there is a
  newest; each round of a copy imports one generation or fails (`RoundAdds`), and a copy
  that sends ends with the round of the newest (`CopyAdds`, by the least round after
  which this is wrong).

Fleet, with the iterators and CopyClosure (`FleetProofs`), from
`Inv == IterationInv /\ StoresOK /\ ResultsOK /\ OutcomesOK`:

* `TypeCorrect`: `[]TypeOK`: indices, futures and pipes stay within their bounds.
* `LimitIsKept`: where there is a limit, `running_processes` is within it.  `Counting`
  says that it is the number of children that are not reaped.
* `NoFutureIsLost`: `[]EachCompletedOnce`.  `Buffering` says that the array of futures
  holds each child exactly once, whichever took the place of which, and that the
  output of a process that succeeded is in its pipe or was read.
* `NoReferenceMissing`: `[]StoresClosed`.  For a copy under way it is not enough that the
  store is closed: what it has yet to import must be closed together with what
  is there by now (`Closing`), also after other copies into the same store.
* `ExitStatusIsTrue`: `[]SuccessIsComplete`.  `Bringing` says what a copy in each of
  its steps will have brought, `ResultsOK` that only what was built or resolved is
  fetched, `OutcomesOK` that a success means all items of the iteration.
* `IteratorsKeepTheirPromise`: `Spec => Iterates`, the refinement of `Iteration`, step by
  step: starts, failed forks, completions, next iterations and exits map to one abstract
  step each, and processes, pipes and waits that reap nothing to none
  (`StuttersRefine`).  Besides `Inv` it needs `Accounted`: `success` is FALSE exactly
  when a process that was waited for failed, and the profiles in the table are those of
  the targets that answered.  That the next iteration has as many items as succeeded
  is the cardinality of the batch (`AgainRefines`).
* `ClosureIsLeast`: the recursive `Closure` of CopyClosure, which follows the loop of
  the query for requisites, is the least closed superset, for any finite graph of references.

Deploy (`DeployProofs`), from `DeployInv`, `LostInv`, `PlanInv`, `TypeInv`, `OptionsInv` and `RestoreInv`:

* `NoLockLeft`: `[]LeavesNoLocks`.  `Accounts` says where the locks of a
  deployment are: in `acquired`, where a request or its answer got lost (`astray`), or
  among those its user had before.  `LostInv` accounts for the requests that may still
  lock: they are where the last command of their user lost one or was killed, or from
  before it (`LateKeeps`).  `Proceeds` and `Ordered` say that the phases that are left still
  have the unlock as long as there are locks: from every phase, also when it
  fails, the way out leads through it.
* `LocksKeepOthersOut`: the action property `Undisturbed`.  A command that works on
  machines after it has taken locks holds the locks of all machines that it visits
  (`Holding`), unless somebody removed one by force; a step changes only machines that
  its own manifests name (`ChangesAreOnTargets`); so another holder of a lock is not disturbed.
* `SuccessPutsInPlace`: the action property `SuccessIsComplete`.  `Chained` says which
  phase may follow which, so that only setting the coordinator's profile ends a
  deployment well (`CoordinatorFinishes`).  `Stage` says what a sound deployment has
  achieved when it is in a phase: up to the deactivation its machines run what they
  ran before, then that without the obsolete mappings, and after the activation what
  its manifest says (`TransitionComplete`); the targets that were visited have their
  profiles.  Those who change machines meanwhile and do not spoil the
  deployment hold locks of other machines (`Apart`), and a garbage collection keeps the
  last generation of every profile (`CollectKeeps`).
* `TypeCorrect`: `[]TypeOK`, which includes that no generation of a profile is like the one
  before it and that a machine is only given profiles of its own.  What a command
  works on comes from files that were built, from links, from documents that the
  command before printed, from what the last one told to run and from what was read from the targets, so
  `TypeInv` follows all of them: whatever a file describes, converted or captured, is on
  machines that there are (`FileOK`, `DocumentOK`, `ConvertedOK`, `Captured`), options and
  advice name such files (`CallOK`, `AdviceIsTyped`, `ScriptsTyped`), and a command that
  is to set the coordinator's profile has a manifest to set it to (`Working`).
* `OptionsReachCommands`: `[]OptionsArrive`.  The options that a script and a command it
  calls both know are those that the script passes on (`ScriptOptions`, from their
  lists, letter or word), an option that is passed on under one spelling keeps its value
  whatever is put before or after it (`PassedOn`, `PutOver`), and one that is given
  outweighs the environment (`GivenIsInEffect`).  `OptionsInv` says so of the command
  that runs and of all that its script has yet to call.
* `AdviceRestoresOld`: the action property `AdviceRestores`.  `RestoreInv` follows a
  deployment from its beginning to the transition that its user is told to run.  `Replaces`:
  as long as nothing failed it replaces the manifest in effect by that of its file
  (so the two names in the advice are the right ones, whichever way the previous manifest was
  given).  `Remains`: after a rollback that failed the machines run what both manifests
  have and nothing that neither has (`new mappings`), or a part of the old one
  (`obsolete mappings`).  `Restoring`: from there, a transition from the new manifest to the old one,
  or one from scratch, ends with the old mappings.  The hypothesis `ReadIsNotNull`
  says that what `create_manifest` returns for a file is not the `NULL` that it
  returns for none; it is no assumption of the module because TLC cannot evaluate a
  quantifier over all documents.

* `SystemIsDescribed`: the action property `DescribesSystem`.  The lemmas are in `ManifestProofs`.
  `generateProfileManifest` leaves the name of the own machine out of a mapping and parsing
  puts it back (`MappingsKept`, `ServiceKept`), so the profile manifest of a machine is what the
  model says of it (`TargetKept`), and together they are the model, but for services that
  are on no machine (`ModelAggregated`); the table that has a service first does not
  matter, as all agree.  `AsCaptured` says of a document that what is captured from its profiles is that
  document; it holds of what Nix built (`BuiltCaptured`), of what was captured
  (`CapturedAgain`), and of what was converted since old profiles have no profile manifest to read
  (`OldProfiles`), hence of every file the coordinator's profile ever names (`FileOK`).
  `compare_manifests` then finds no difference (`ComparedWithLast`), in the targets either, because a
  target that was parsed is not changed by parsing it again (`ParsedOnce`).  A converted
  manifest keeps the keys of its mappings and passes every check of `check_manifest`
  (`ConvertedWell`): each address has a machine, each dependency a service key, each
  snapshot a service.

Only model-checked:

* liveness: `Terminates` of Transition, Migrate and Fleet, `CommandsReturn`,
  `AnswersArrive`;
* `CallsArrive` of Service: it is about the argument vectors of the calls, one by
  one, through folds over sequences, and induction over data needs theorems that the
  installed provers cannot instantiate.  Where a recursive function could be given by what it satisfies, as `Closure`, the
  rounds of a copy and the walks, it was proved by a smallest counterexample.

## Not as one would expect

Behaviours of the code that the models follow and their properties step around.
They are listed because a reader of a property will ask why it is not stronger.

* Migrate.  With two cores a mapping whose process still runs is not yet marked, so
  the next pass forks it again (`snapshotmapping-traverse.c:83`); as there are
  as many passes as mappings, processes can be left when the loop ends (`:101`), and
  the next traversal reaps a child that is not its own.  `OneAtATime` and
  `NothingLeftBehind` are therefore about one core per machine.
* Migrate.  A copy of all generations reports the status of its last round
  (`copy-snapshots.c:97`): a transfer that failed is forgotten by one that
  succeeds.  `disnix-migrate --no-upgrade` has nothing to restore and succeeds.  The
  commands that stand alone refuse an old manifest (`run-migrate.c:27`).
* Migrate.  The workers of `disnix-snapshot` and `disnix-restore` look up the mappings of
  their machine by its address (`snapshot.c:74`, `restore.c:54`, and `:152`, `:150` depth first),
  which they compare with its name.  Where a machine's target property is not its
  name, as with the host names of `doc/manual/basicusage.xml:777`, they find none and
  succeed: with `--delete-state` obsolete state is lost.  The `addresses` run shows it.
* Transition.  A visit takes a core before it forks (`servicemapping-traverse.c:46`); when
  the fork fails no process will be reaped that gives it back, so `available_cores`
  is no longer what is available (`target.h:49`), and on a machine with one core every
  later visit of a rollback waits for ever.  `VisitForkFails` follows it in the
  `faults` run; `CoresAccounted` and `Terminates` are about forks that succeed.
* Infrastructure.  A target without `numOfCores` gets one core, but none of them is
  available (`target.c:36` and `:57`, where only a value that is given sets both), so that no
  operation with a limit per core could run there.  `normalize-infrastructure.nix`
  writes the number for every machine; `parse_target` and `Transition` have the cores of such
  manifests.
* Iterators.  A limit of zero (`-m 0`) never forks and never ends.  A failed
  `fork()` completes pid -1, for which there is no item.
* Service.  A job id is used again after a restart if its log file was not yet made;
  the exclusive creation of the log file then refuses the later job.  A client
  whose service dies waits for ever, and so does one that is called without a
  type.  A `tempfile` job that fails signals nothing (`signaling.c:133`).  The
  pid file is removed twice (`daemonize.c:151`), by then it may be the one of
  another daemon.
* Commands.  `disnix-client` does not know `--export-snapshots` and does not support
  `--shell`, although the coordinator composes both for any interface.
* Deploy.  `lock()` visits the machines that have a profile in the manifest
  (`profilemapping-iterator.c`), a transition works on all machines of its
  infrastructure (`deploy.c:36`).  Nix makes a profile for each of them, but a manifest
  that `disnix-reconstruct` captured lacks those of machines that nobody deployed
  to.  A rollback to it deactivates services on machines that it has not locked,
  while another deployment may have; `doc/manual/architecture.xml:85` says that the
  machines are locked so that no other deployment can interfere.
* Deploy.  A service of the type package is in the services of a deployment model, since
  `generateManifestServices` computes the names without packages and does not use them
  (`generate-deployment-model.nix:176`), but in no mapping, hence in no profile manifest
  (`generate-profiles.nix:45`).  A manifest that is captured lacks it, `compare_manifests` compares
  the services too (`manifest.c:245`), and `disnix-reconstruct` makes another
  generation although nothing has changed.  `tests/deployment.nix:488` expects none,
  with services of which none is a package.  `DescribesSystem` is about manifests without such
  services (`OnlyMapped`).
* Deploy.  `pkgmgmt_set_profile` runs `nix-env --set` only if there is no profile yet or the
  path of the new one is as long as that of the old one and differs
  (`package-management.c:240`); otherwise it succeeds without setting.  Nix names a
  machine's profile after the machine (`generate-profiles.nix:112`), so all paths
  in the generations of its profile are equally long, and `SetTarget` takes that for granted.
  It would not set the profile of a machine that a manifest knows by a name of another
  length.
* Deploy.  `check_safe_data_migration` tests that the service that provides a
  container still exists, not that it can be reached.  `run_activate` does not
  check the previous manifest.  `disnix-env` passes `--no-coordinator-profile` and
  `--no-target-profiles` on to `disnix-deploy`, which rejects them;
  `disnix-convert` ends at the latter, where an assignment lacks its `=`, and the
  value of `--target-property` is not looked at.  `disnix-convert` does not pass
  `--coordinator-profile-path` on to `disnix-convert-manifest` (`disnix-convert.in:161`),
  which finds the manifest of the last generation under the default path then; its help
  says that the option is where the generations are stored.  `OptionsArrive` is about the
  others, and about commands that were not rejected.

## What is left out

* Nix and Dysnomia themselves: the outcome of an operation is an input, and what
  a Nix profile or a snapshot store holds is modelled by what it keeps and names.
* Wording, logging, the printing of documents, XML and Nix syntax, and the graph
  that `disnix-visualize` draws: output that nothing acts upon.  Parsing is
  modelled from the parsed element on (`Manifests`, `Conversion`).
* The interactive shell of `disnix-diagnose`, the SSH and other clients, and
  `disnix-manifest` with the Nix functions behind it: external programs, and an
  evaluator.
* The names of profiles and temporary files.  `disnix-env` looks generations up by
  `$profile-*-link`, which another profile's name may match; `Deploy` has one
  profile name.
* Cyclic inter-dependencies: the traversals recurse for ever on them.

## Plan

Every module that was planned is there, and every safety invariant is proved but
`CallsArrive`, and so is every action property.  Left, in order of importance:

1. An abstract specification `Deployment` for Deploy.
2. A second profile name in Deploy.
3. `CallsArrive` of Service, when a prover that instantiates induction theorems is at hand.
