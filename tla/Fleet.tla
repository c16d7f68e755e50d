-------------------------------- MODULE Fleet --------------------------------
(***************************************************************************)
(* The coordinator's programs that do the same on all targets: building,   *)
(* distributing profiles, setting them, capturing manifests and            *)
(* infrastructures, querying services, collecting garbage.  Each is one to *)
(* three iterations over the items of a model, with a process per item.    *)
(***************************************************************************)
EXTENDS CopyClosure, FutureIterator, SequencesExt

CONSTANTS
    Coordinator,   \* the place of the coordinator's store
    Outputs,       \* derivation |-> the store path it builds
    Scenarios,     \* a program, its items, the limit of concurrent transfers,
                   \* and the stores at the start
    MaxItems,      \* the most items a scenario has
    MayNotFork     \* TRUE when a process may fail to start

VARIABLES
    program, items, limit,
    phase,     \* the iterations that are over
    batch,     \* the items of the current one
    result,    \* what an item's future returned, or Missing
    exit       \* the exit status of the program, or "none"

scenarioVars == <<program, items, limit>>
vars == <<copyVars, iteratorVars, futureVars, scenarioVars, phase, batch, result, exit>>

\* A result no process returned.
Missing == {"missing"}

Phases ==
    [build |-> <<"send", "realise", "fetch">>,
     distribute |-> <<"send">>,
     capture_manifest |-> <<"resolve", "fetch">>,
     query |-> <<"query">>,
     command |-> <<"command">>]

\* Items are on places that have a store, and stores are closed at the start.
ScenarioOK(s) ==
    /\ s.program \in DOMAIN Phases /\ s.limit \in Nat
    /\ Coordinator \in DOMAIN s.store
    /\ \A p \in DOMAIN s.store : s.store[p] \subseteq Path /\ Closed(s.store[p])
    /\ s.items \in Seq([path : Path, target : DOMAIN s.store])
    /\ s.program = "build" =>
         \A i \in DOMAIN s.items :
           s.items[i].path \in DOMAIN Outputs /\ Outputs[s.items[i].path] \in Path

ASSUME ScenariosOK == (\A s \in Scenarios : ScenarioOK(s)) /\ Missing \cap Path = {}

Kind == Phases[program][phase + 1]
At(kind) == exit = "none" /\ Kind = kind
Gathers == \E kind \in {"realise", "resolve", "query"} : At(kind)
Ordered == \E kind \in {"send", "fetch", "command"} : At(kind)

\* disnix-set, disnix-collect-garbage and disnix-clean-snapshots set no limit.
Limit == IF At("command") THEN Unlimited ELSE limit

Item(i) == items[batch[i]]

Begin(b) ==
    /\ batch' = b
    /\ InitModel(Len(b)) /\ InitFutures(Len(b))
    /\ worker' = [i \in 1 .. Len(b) |-> NoWorker]

Init ==
    /\ \E s \in Scenarios :
         /\ program = s.program /\ items = s.items /\ limit = s.limit /\ store = s.store
         /\ batch = [i \in 1 .. Len(s.items) |-> i]
         /\ worker = [i \in 1 .. Len(s.items) |-> NoWorker]
         /\ completed = [i \in 1 .. Len(s.items) |-> 0]
         /\ pipe = [i \in 1 .. Len(s.items) |-> 0] /\ got = [i \in 1 .. Len(s.items) |-> 0]
         /\ result = [i \in 1 .. Len(s.items) |-> Missing]
    /\ index = 0 /\ success = TRUE /\ running = 0 /\ waited = FALSE
    /\ futures = <<>> /\ pos = 0
    /\ phase = 0 /\ exit = "none"

-----------------------------------------------------------------------------
(* Starting processes. *)

\* What the process of an item does first.
FirstStep(i) ==
    CASE At("send") -> Copy(Coordinator, Item(i).target, {Item(i).path})
      [] At("fetch") -> Copy(Item(i).target, Coordinator, result[batch[i]])
      [] OTHER -> [at |-> "work", paths |-> {}]

SpawnPid ==
    /\ Ordered /\ SpawnNextPid(Limit)
    /\ worker' = [worker EXCEPT ![index + 1] = FirstStep(index + 1)]
    /\ UNCHANGED <<store, futureVars, scenarioVars, phase, batch, result, exit>>

SpawnFuture ==
    /\ Gathers /\ SpawnNextFuture
    /\ worker' = [worker EXCEPT ![index + 1] = FirstStep(index + 1)]
    /\ UNCHANGED <<store, scenarioVars, phase, batch, result, exit>>

\* There is no entry for pid -1 in the table of processes: the callback gets
\* NULL for the item.
ForkFails ==
    /\ MayNotFork
    /\ \/ Ordered /\ MaySpawn(Limit)
       \/ Gathers /\ pos = 0 /\ HasNext
    /\ exit' = "crashed"
    /\ UNCHANGED <<copyVars, iteratorVars, futureVars, scenarioVars, phase, batch, result>>

-----------------------------------------------------------------------------
(* The processes. *)

\* nix-store -r on the target: the derivation and what it refers to must be
\* there.  nix-store -qR of the profile.
CanWork(i) == Kind = "realise" => Item(i).path \in store[Item(i).target]
Effect(i) ==
    IF Kind = "realise"
    THEN store' = [store EXCEPT ![Item(i).target] = @ \cup Closure[{Outputs[Item(i).path]}]]
    ELSE UNCHANGED store

\* A command on a target: done, or failed.
Work(i) ==
    /\ i \in DOMAIN worker /\ worker[i].at = "work"
    /\ \/ CanWork(i) /\ Effect(i) /\ Goes(i, "ok", {}) /\ (Gathers => got[i] + pipe[i] = Output)
       \/ /\ MayFail \/ ~CanWork(i) \/ exit = "crashed"
          /\ Goes(i, "failed", {}) /\ UNCHANGED store
    /\ UNCHANGED <<iteratorVars, futureVars, scenarioVars, phase, batch, result, exit>>

Writes(i) ==
    /\ Gathers /\ i \in DOMAIN worker /\ worker[i].at = "work" /\ Write(i)
    /\ UNCHANGED <<copyVars, scenarioVars, phase, batch, result, exit>>

Copies(i) ==
    /\ i \in DOMAIN worker /\ CopyStep(i)
    /\ UNCHANGED <<iteratorVars, futureVars, scenarioVars, phase, batch, result, exit>>

-----------------------------------------------------------------------------
(* Waiting for them. *)

\* Processes that ended stay in the table of workers; they are zombies until
\* they are completed.
Zombie(i) == i \in DOMAIN worker /\ Ended(worker[i]) /\ completed[i] = 0

WaitReaps(i) ==
    /\ Ordered /\ Zombie(i)
    /\ WaitForProcess(Limit, i, worker[i].at = "ok")
    /\ UNCHANGED <<copyVars, futureVars, scenarioVars, phase, batch, result, exit>>

WaitReapsNothing ==
    /\ Ordered /\ WaitForNothing(Limit)
    /\ UNCHANGED <<copyVars, futureVars, scenarioVars, phase, batch, result, exit>>

\* With a limit of 0 the loop never ends: there is nothing to wait for.
Spins ==
    /\ Ordered /\ Limit = 0 /\ HasNext
    /\ UNCHANGED vars

Buffer ==
    /\ Gathers
    /\ BufferAgain \/ \E i \in DOMAIN worker : AppendOutput(i)
    /\ UNCHANGED <<copyVars, scenarioVars, phase, batch, result, exit>>

\* The build result, or the store path of the profile.
Answer(i) == IF At("realise") THEN {Outputs[Item(i).path]} ELSE {Item(i).path}

\* procreact_buffer and the callbacks it calls.
FutureFinished(i) ==
    /\ Gathers /\ Zombie(i)
    /\ Finalize(i, worker[i].at = "ok")
    /\ result' = IF worker[i].at = "ok" THEN [result EXCEPT ![batch[i]] = Answer(i)] ELSE result
    /\ UNCHANGED <<copyVars, scenarioVars, phase, batch, exit>>

-----------------------------------------------------------------------------
(* From one iteration to the next. *)

IterationOver == \/ Ordered /\ PidIterationOver
                 \/ Gathers /\ FutureIterationOver

\* resolve_profiles reports failures, but ignores them.
Continues == success \/ At("resolve")

\* The targets that did not return a profile are not in the table, a hash table
\* that has an order of its own.
NextBatch ==
    IF At("resolve") THEN SetToSeq({i \in DOMAIN items : result[i] # Missing})
    ELSE [i \in DOMAIN items |-> i]

PhaseEnds ==
    /\ IterationOver /\ Continues /\ phase + 1 < Len(Phases[program])
    /\ phase' = phase + 1
    /\ Begin(NextBatch)
    /\ UNCHANGED <<store, scenarioVars, result, exit>>

Exits ==
    /\ IterationOver /\ ~(Continues /\ phase + 1 < Len(Phases[program]))
    /\ exit' = IF success THEN "0" ELSE "1"
    /\ UNCHANGED <<copyVars, iteratorVars, futureVars, scenarioVars, phase, batch, result>>

Program ==
    \/ SpawnPid \/ SpawnFuture \/ ForkFails \/ WaitReapsNothing \/ Spins \/ Buffer
    \/ \E i \in DOMAIN worker : WaitReaps(i) \/ FutureFinished(i)
    \/ PhaseEnds \/ Exits

Process(i) == Work(i) \/ Writes(i) \/ Copies(i)

Next ==
    \/ Program
    \/ \E i \in DOMAIN worker : Process(i)

Spec == Init /\ [][Next]_vars

\* The program runs, and so do all of its processes.
FairSpec == Spec /\ WF_vars(Program) /\ \A i \in 1 .. MaxItems : WF_vars(i \in DOMAIN worker /\ Process(i))

-----------------------------------------------------------------------------
(* Properties. *)

\* The type of the state.
TypeOK ==
    /\ program \in DOMAIN Phases /\ limit \in Nat /\ phase \in 0 .. 2
    /\ \A p \in DOMAIN store : store[p] \subseteq Path
    /\ batch \in Seq(1 .. Len(items)) /\ Len(batch) <= Len(items)
    /\ {DOMAIN worker, DOMAIN completed, DOMAIN pipe, DOMAIN got} = {1 .. Len(batch)}
    /\ index \in 0 .. Len(batch) /\ running \in 0 .. Len(batch) /\ pos \in 0 .. Len(batch) + 1
    /\ futures \in Seq(1 .. Len(batch))
    /\ \A i \in DOMAIN pipe : pipe[i] \in 0 .. Capacity
    /\ success \in BOOLEAN /\ waited \in BOOLEAN
    /\ exit \in {"none", "0", "1", "crashed"}

\* The processes nobody waited for yet.
Children == {i \in DOMAIN worker : worker[i] # NoWorker /\ completed[i] = 0}

\* However futures change places while they are read, each is completed once,
\* with all of its output, and the counter of the iterator is the number of its
\* child processes, zombies included.
EachCompletedOnce ==
    /\ running = Cardinality(Children)
    /\ \A i \in DOMAIN completed : completed[i] <= 1
    /\ IterationOver => \A i \in DOMAIN completed : completed[i] = 1
    /\ Gathers => \A i \in DOMAIN worker : completed[i] = 1 /\ worker[i].at = "ok" => got[i] = Output
    /\ Gathers => {futures[k] : k \in DOMAIN futures} = Children

\* Processes that copy to the same store at the same time, or fail halfway,
\* never leave a path there whose references are missing.
StoresClosed == \A p \in DOMAIN store : Closed(store[p])

Has(place, path) == Closure[{path}] \subseteq store[place]

\* Build results are only fetched once every derivation was built, and profiles
\* only from targets that returned one.  A program that exits with 0 did what it
\* is for, on every target; only disnix-capture-manifest leaves out targets that
\* do not answer.
SuccessIsComplete ==
    /\ At("fetch") => \A i \in DOMAIN batch : result[batch[i]] # Missing
    /\ exit = "0" =>
        /\ \A i \in DOMAIN batch : worker[i].at = "ok"
        /\ program # "capture_manifest" => Len(batch) = Len(items)
        /\ program = "build" => \A i \in DOMAIN items : Has(Coordinator, Outputs[items[i].path])
        /\ program = "distribute" => \A i \in DOMAIN items : Has(items[i].target, items[i].path)
        /\ program = "capture_manifest" =>
             \A i \in DOMAIN items : result[i] # Missing => Has(Coordinator, items[i].path)

\* What the programs see of the iterations they are made of.
Abstract == INSTANCE Iteration WITH
    waiting <- {i \in DOMAIN completed : i > index},
    active <- Children,
    good <- {i \in DOMAIN completed : completed[i] > 0 /\ worker[i].at = "ok"},
    bad <- {i \in DOMAIN completed : completed[i] > 0 /\ worker[i].at # "ok"},
    left <- Len(Phases[program]) - (phase + 1),
    verdict <- exit,
    bound <- IF Ordered THEN Limit ELSE Len(batch),
    tolerant <- Kind = "resolve"

\* However processes end, are waited for and read from, every item has its one
\* process in turn, with no more of them at a time than the limit of concurrent
\* transfers; an iteration follows only when the processes of the one before it
\* succeeded or may fail, over the items that succeeded; and the exit status is
\* 0 exactly when no process of the last iteration failed.
Iterates == Abstract!Spec

\* Every program ends, unless it is told to transfer nothing at a time.
Terminates == limit > 0 => <>(exit # "none")
=============================================================================
