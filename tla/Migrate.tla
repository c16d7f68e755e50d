------------------------------ MODULE Migrate ------------------------------
(***************************************************************************)
(* Data migration: disnix-snapshot, disnix-restore, disnix-delete-state    *)
(* and disnix-migrate, which runs the three of them.                       *)
(*                                                                         *)
(*   src/libmigrate/*.c                        the phases                  *)
(*   src/libmanifest/snapshotmapping-traverse.c  map_snapshot_items        *)
(*   src/libmanifest/snapshotmappingarray.c    the arrays                  *)
(*   src/libprocreact/procreact_pid_iterator.c the transfers, with a limit *)
(*                                                                         *)
(* A phase is either a traversal, which forks one remote operation per     *)
(* mapping as cores permit, or an iteration, which forks one worker per    *)
(* target that handles the mappings of its target one after another.  All  *)
(* of them are children of the coordinator: its wait() may return a child  *)
(* of an earlier phase, and what it then looks up is not there.            *)
(***************************************************************************)
EXTENDS CopySnapshots, FiniteSets, FiniteSetsExt

CONSTANTS
    Mapping,       \* snapshot mappings, numbered as compare_snapshot_mapping
                   \* sorts them: by target, container, component
    Machine,       \* target machines of all manifests
    Component,     \* stateful components
    TargetOf,      \* TargetOf[m]: the machine of a mapping
    ComponentOf,   \* ComponentOf[m]: its component
    Value,         \* Value[m]: the state the component has there, before
    Requests,      \* the commands to consider, see RequestOK
    Histories,     \* generations the stores may hold of a component before
    Keep,          \* --keep
    ForkMayFail    \* TRUE when fork() may return -1

\* A component is one in its container: a machine has it at most once.
ASSUME ConstantsOK ==
    /\ Mapping \subseteq Nat /\ IsFiniteSet(Mapping)
    /\ TargetOf \in [Mapping -> Machine]
    /\ ComponentOf \in [Mapping -> Component]
    /\ \A m, n \in Mapping : TargetOf[m] = TargetOf[n] /\ ComponentOf[m] = ComponentOf[n] => m = n
    /\ "coordinator" \notin Machine
    /\ \A m \in Mapping : Value[m] # "deleted"
    /\ Keep \in Nat
    /\ ForkMayFail \in BOOLEAN

Host == Machine \cup {"coordinator"}

ASSUME HistoriesOK == \A history \in Histories : \A h \in Host : history[h] \in Seq(Range(history[h]))

\* A command with its flags; limit: --max-concurrent-transfers; known: a previous
\* manifest was found; the targets table of the new manifest: the cores each machine
\* offers, and keys[t], the value of its target property, by which it is addressed.
\* An address may be the name of its machine, but not that of another.
RequestOK(q) ==
    /\ q.command \in {"snapshot", "restore", "delete", "migrate"}
    /\ q.old \subseteq Mapping /\ q.new \subseteq Mapping
    /\ DOMAIN q.cores \subseteq Machine /\ q.cores \in [DOMAIN q.cores -> Nat]
    /\ \A m \in q.new : TargetOf[m] \in DOMAIN q.cores
    /\ DOMAIN q.keys = DOMAIN q.cores
    /\ \A t \in DOMAIN q.keys : q.keys[t] \in Machine => q.keys[t] = t
    /\ \A flag \in {"known", "upgrade", "depthFirst", "transferOnly", "deleteState", "all"} :
         q[flag] \in BOOLEAN
    /\ q.limit \in Nat \ {0}
    /\ ~q.known => q.old = {}
    /\ ~q.upgrade => ~q.known

ASSUME RequestsOK == \A q \in Requests : RequestOK(q)

VARIABLES
    request,  \* the command that runs
    phase,    \* what it is doing
    passes,   \* num_processed of map_snapshot_items
    turn,     \* what a pass does next: "fork" or "wait"
    success,  \* its status variable, or that of the iterator
    done,     \* SnapshotMapping.transferred, of the objects of a manifest
    cores,    \* Target.available_cores
    lost,     \* TRUE when pid_table holds the pid -1
    procs,    \* remote operations of traversals that are not reaped
    worker,   \* the process of each target in an iteration
    result,   \* what the command returns, or that it crashed
    state,    \* the state of the components on the machines
    store     \* the snapshot stores: of the machines and of the coordinator

coordinator == <<phase, passes, turn, success, done, lost, result>>
vars == <<request, coordinator, cores, procs, worker, state, store>>

Traversals == {"snapshot", "restore_all", "delete"}
Iterations == {"retrieve", "send", "snapshot_depth", "restore_depth"}
NoWorker == [st |-> "none", rest |-> {}, step |-> 1]

\* What a worker does for one mapping.
Steps == [p \in Iterations |->
    CASE p = "retrieve" -> <<"retrieve">>
      [] p = "send" -> <<"send">>
      [] p = "snapshot_depth" -> <<"take", "retrieve", "clean">>
      [] p = "restore_depth" -> <<"send", "restore", "clean">>]

-----------------------------------------------------------------------------
(* The arrays and the order of the phases. *)

Present(m) == TargetOf[m] \in DOMAIN request.cores

\* Fault: the arguments of subtract_snapshot_mappings are swapped.
SnapshotAdded == IF request.upgrade THEN request.new \ request.old ELSE request.new

SnapshotItems == IF request.upgrade THEN request.old \ request.new ELSE request.new

RestoreItems ==
    IF request.upgrade /\ request.known THEN request.new \ request.old ELSE request.new

DeleteItems == IF request.command = "delete" THEN request.new ELSE request.old

Items(p) ==
    CASE p \in {"snapshot", "retrieve", "snapshot_depth"} -> SnapshotItems
      [] p \in {"send", "restore_all", "restore_depth"} -> RestoreItems
      [] OTHER -> DeleteItems

\* find_snapshot_mappings_per_target looks for mappings on a machine whose name
\* is the target key: where the address is another, a worker finds none.
ItemsOn(t) == {m \in Items(phase) : TargetOf[m] = request.keys[t]}

\* The manifest whose objects are in the array of a traversal.
Owner(p) ==
    CASE p = "snapshot" /\ request.upgrade -> "old"
      [] p = "delete" /\ request.command = "migrate" -> "old"
      [] OTHER -> "new"

RestoreStarts == IF request.depthFirst THEN "restore_depth" ELSE "send"

SnapshotStarts ==
    IF request.upgrade /\ ~request.known THEN "snapshotted"
    ELSE IF request.depthFirst THEN "snapshot_depth"
    ELSE IF request.transferOnly THEN "retrieve" ELSE "snapshot"

DeleteStarts ==
    IF request.deleteState /\ request.known /\ request.upgrade THEN "delete" ELSE "returned"

\* What follows p when p succeeded: another phase of its function, or its end.
Successor(p) ==
    CASE p = "begin" /\ request.command = "delete" -> "delete"
      [] p = "begin" /\ request.command = "restore" -> RestoreStarts
      [] p = "begin" /\ request.command \notin {"delete", "restore"} -> SnapshotStarts
      [] p = "snapshot" -> "retrieve"
      [] p \in {"retrieve", "snapshot_depth"} -> "snapshotted"
      [] p = "send" /\ ~request.transferOnly -> "restore_all"
      [] p \in {"restore_all", "restore_depth"} -> "restored"
      [] p = "send" /\ request.transferOnly -> "restored"
      [] OTHER -> "returned"

\* disnix-migrate calls one function after the other; disnix-delete-state is the
\* traversal alone.
Continued(q) ==
    CASE q = "snapshotted" /\ request.command = "migrate" -> RestoreStarts
      [] q = "restored" /\ request.command = "migrate" -> DeleteStarts
      [] OTHER -> q

FollowedBy(p) ==
    LET q == Continued(Successor(p))
    IN  IF q \in Traversals \cup Iterations THEN q ELSE "returned"

\* Every phase starts with its counters at zero, but the marks in the mappings
\* stay, except for those delete_obsolete_state resets.
Enter(p) ==
    /\ phase' = p
    /\ passes' = 0
    /\ turn' = "fork"
    /\ success' = TRUE
    /\ done' = IF p = "delete" THEN {d \in done : d[1] # Owner(p)} ELSE done
    /\ lost' = FALSE
    /\ worker' = [t \in Machine |-> NoWorker]
    /\ result' = IF p = "returned" THEN "success" ELSE "none"

\* Fault: a phase that fails does not stop the command.
LeaveAnyway == Enter(FollowedBy(phase))

Leave ==
    \/ success /\ Enter(FollowedBy(phase))
    \/ /\ ~success
       /\ phase' = "returned"
       /\ result' = "failed"
       /\ UNCHANGED <<passes, turn, success, done, lost, worker>>

\* The mappings that hold data when the command starts.
Deployed == IF request.known THEN request.old ELSE request.new

Init ==
    /\ request \in Requests
    /\ phase = "begin" /\ success = TRUE /\ result = "none"
    /\ passes = 0 /\ turn = "fork" /\ done = {} /\ lost = FALSE /\ procs = {}
    /\ cores = request.cores
    /\ worker = [t \in Machine |-> NoWorker]
    /\ state = [m \in Mapping |-> IF m \in Deployed THEN Value[m] ELSE "fresh"]
    /\ store \in {[h \in Host |-> [c \in Component |-> history[h]]] : history \in Histories}

Begin ==
    /\ phase = "begin"
    /\ Enter(FollowedBy("begin"))
    /\ UNCHANGED <<request, cores, procs, state, store>>

Coordinating == result = "none"

Crash ==
    /\ result' = "crashed"
    /\ UNCHANGED <<phase, passes, turn, success, done, lost>>

-----------------------------------------------------------------------------
(* What a remote operation does to the component and the stores.  One that *)
(* reports failure may nevertheless have done its work.                    *)

SetStore(h, c, gens) == store' = [store EXCEPT ![h][c] = gens]

Take(m) ==
    /\ state[m] # "deleted"
    /\ SetStore(TargetOf[m], ComponentOf[m],
                Generation(store[TargetOf[m]][ComponentOf[m]], state[m]))
    /\ UNCHANGED state

\* Without a snapshot there is nothing to restore.
Restore(m) ==
    LET gens == store[TargetOf[m]][ComponentOf[m]]
    IN  /\ state' = IF gens = <<>> THEN state ELSE [state EXCEPT ![m] = Last(gens)]
        /\ UNCHANGED store

\* A Dysnomia module deletes what was deactivated, and passes over what is in use.
Delete(m) ==
    /\ state' = IF m \in request.new THEN state ELSE [state EXCEPT ![m] = "deleted"]
    /\ UNCHANGED store

CleanSnapshots(m) ==
    /\ SetStore(TargetOf[m], ComponentOf[m], Clean(store[TargetOf[m]][ComponentOf[m]], Keep))
    /\ UNCHANGED state

Retrieve(m, ok) ==
    LET c == ComponentOf[m]
    IN  \E o \in CopySnapshotsFrom(store[TargetOf[m]][c], store["coordinator"][c], request.all) :
          /\ o.ok = ok
          /\ SetStore("coordinator", c, o.gens)
          /\ UNCHANGED state

Send(m, ok) ==
    LET c == ComponentOf[m]
    IN  \E o \in CopySnapshotsTo(store["coordinator"][c], store[TargetOf[m]][c], request.all) :
          /\ o.ok = ok
          /\ SetStore(TargetOf[m], c, o.gens)
          /\ UNCHANGED state

Perform(m, op, ok) ==
    \/ op = "retrieve" /\ Retrieve(m, ok)
    \/ op = "send" /\ Send(m, ok)
    \/ op = "take" /\ Take(m)
    \/ op = "restore" /\ Restore(m)
    \/ op = "delete" /\ Delete(m)
    \/ op = "clean" /\ CleanSnapshots(m)
    \/ (~ok /\ UNCHANGED <<state, store>>)

-----------------------------------------------------------------------------
(* A traversal: map_snapshot_items. *)

Operation(p) ==
    CASE p = "snapshot" -> "take" [] p = "restore_all" -> "restore" [] OTHER -> "delete"

Pending == {m \in Items(phase) : Present(m) /\ <<Owner(phase), m>> \notin done}

\* Fault: a traversal does not ask whether a core is available.
GrantedWithoutCore == Pending

\* Fault: one mapping more than there are cores.
GrantedOneMore ==
    {m \in Pending :
        Cardinality({k \in Pending : k < m /\ TargetOf[k] = TargetOf[m]}) <= cores[TargetOf[m]]}

\* The mappings for which this pass finds a core available, in array order.
Granted ==
    {m \in Pending :
        Cardinality({k \in Pending : k < m /\ TargetOf[k] = TargetOf[m]}) < cores[TargetOf[m]]}

Iterating == Coordinating /\ phase \in Iterations
Targets == DOMAIN request.cores
Forked == {t \in Targets : worker[t].st \in {"running", "ok", "failed"}}
MayFork == Cardinality(Forked) < request.limit /\ \E t \in Targets : worker[t].st = "none"

\* Fault: one pass too few.
FewerPasses == IF Items(phase) = {} THEN 0 ELSE Cardinality(Items(phase)) - 1

\* As many passes as there are mappings in the array.
Passes == Cardinality(Items(phase))

Traversing == Coordinating /\ phase \in Traversals

\* One pass over the array; a mapping that is being worked on is not marked yet.
ForkItems ==
    /\ Traversing /\ turn = "fork" /\ passes < Passes
    /\ \E failing \in (IF ForkMayFail THEN SUBSET Granted ELSE {{}}) :
         /\ procs' = procs \cup
              {[phase |-> phase, m |-> m, pass |-> passes, st |-> "running"] : m \in Granted \ failing}
         /\ lost' = (lost \/ failing # {})
    /\ cores' = [t \in DOMAIN cores |->
                    cores[t] - Cardinality({m \in Granted : TargetOf[m] = t})]
    /\ turn' = "wait"
    /\ UNCHANGED <<request, phase, passes, success, done, result, worker, state, store>>

Ended == {p \in procs : p.st # "running"}
TableEmpty == ~lost /\ \A p \in procs : p.phase # phase

\* Fault: a pass counts only as long as nothing has failed.
PassEndsIfOk == turn' = "fork" /\ passes' = IF success' THEN passes + 1 ELSE passes

PassEnds == turn' = "fork" /\ passes' = passes + 1

\* Nothing was forked, or there is no child left for the pid -1 in the table.
WaitForNothing ==
    /\ Traversing /\ turn = "wait"
    /\ TableEmpty \/ procs = {}
    /\ success' = (success /\ TableEmpty)
    /\ PassEnds
    /\ UNCHANGED <<request, phase, done, lost, result, cores, procs, worker, state, store>>

WaitReapsItem ==
    /\ Traversing /\ turn = "wait" /\ ~TableEmpty
    /\ \E p \in Ended :
         /\ p.phase = phase
         /\ procs' = procs \ {p}
         /\ done' = done \cup {<<Owner(phase), p.m>>}
         /\ cores' = [cores EXCEPT ![TargetOf[p.m]] = @ + 1]
         /\ success' = (success /\ p.st = "ok")
    /\ PassEnds
    /\ UNCHANGED <<request, phase, lost, result, worker, state, store>>

\* The child belongs to an earlier phase: its mapping is not in the table.
WaitReapsLeftover ==
    /\ \/ Traversing /\ turn = "wait" /\ ~TableEmpty
       \/ Iterating /\ Forked # {} /\ ~MayFork
    /\ \E p \in Ended : p.phase # phase /\ procs' = procs \ {p}
    /\ Crash
    /\ UNCHANGED <<request, cores, worker, state, store>>

TraversalReturns ==
    /\ Traversing /\ turn = "fork" /\ passes = Passes
    /\ Leave
    /\ UNCHANGED <<request, cores, procs, state, store>>

ProcessEnds ==
    \E p \in procs, ok \in BOOLEAN :
      /\ p.st = "running"
      /\ Perform(p.m, Operation(p.phase), ok)
      /\ procs' = (procs \ {p}) \cup {[p EXCEPT !.st = IF ok THEN "ok" ELSE "failed"]}
      /\ UNCHANGED <<request, coordinator, cores, worker>>

-----------------------------------------------------------------------------
(* An iteration over the targets, with a limit. *)

ForkWorker ==
    /\ Iterating /\ MayFork
    /\ \E t \in Targets :
         /\ worker[t].st = "none"
         /\ worker' = [worker EXCEPT ![t] = [st |-> "running", rest |-> ItemsOn(t), step |-> 1]]
    /\ UNCHANGED <<request, coordinator, cores, procs, state, store>>

\* The target of the failed process is looked up under the pid -1.
ForkWorkerFails ==
    /\ Iterating /\ MayFork /\ ForkMayFail
    /\ Crash
    /\ UNCHANGED <<request, cores, procs, worker, state, store>>

WaitReapsWorker ==
    /\ Iterating /\ ~MayFork
    /\ \E t \in Forked :
         /\ worker[t].st # "running"
         /\ success' = (success /\ worker[t].st = "ok")
         /\ worker' = [worker EXCEPT ![t].st = "reaped"]
    /\ UNCHANGED <<request, phase, passes, turn, done, lost, result, cores, procs, state, store>>

IterationReturns ==
    /\ Iterating /\ Forked = {} /\ ~MayFork
    /\ Leave
    /\ UNCHANGED <<request, cores, procs, state, store>>

\* The next step for the first mapping that is left; the first failure ends it.
WorkerStep ==
    \E t \in Machine, ok \in BOOLEAN :
      LET w == worker[t]
          m == Min(w.rest)
          steps == Steps[phase]
          next == IF w.step < Len(steps) THEN [w EXCEPT !.step = @ + 1]
                  ELSE [w EXCEPT !.rest = @ \ {m}, !.step = 1]
      IN  /\ w.st = "running" /\ w.rest # {}
          /\ Perform(m, steps[w.step], ok)
          /\ worker' = [worker EXCEPT ![t] = IF ok THEN next ELSE [w EXCEPT !.st = "failed"]]
          /\ UNCHANGED <<request, coordinator, cores, procs>>

WorkerExits ==
    \E t \in Machine :
      /\ worker[t].st = "running" /\ worker[t].rest = {}
      /\ worker' = [worker EXCEPT ![t].st = "ok"]
      /\ UNCHANGED <<request, coordinator, cores, procs, state, store>>

Coordinator ==
    \/ Begin
    \/ ForkItems \/ WaitForNothing \/ WaitReapsItem \/ TraversalReturns
    \/ ForkWorker \/ WaitReapsWorker \/ IterationReturns
    \/ WaitReapsLeftover \/ ForkWorkerFails

Returned == result # "none" /\ UNCHANGED vars

Next == Coordinator \/ ProcessEnds \/ WorkerStep \/ WorkerExits \/ Returned

Spec == Init /\ [][Next]_vars

\* The coordinator and its children all make progress; an operation that has
\* started ends.
FairSpec ==
    /\ Spec
    /\ WF_vars(Coordinator)
    /\ WF_vars(ProcessEnds) /\ WF_vars(WorkerStep) /\ WF_vars(WorkerExits)

-----------------------------------------------------------------------------
(* Properties. *)

\* The type of the state.
TypeOK ==
    /\ request \in Requests
    /\ phase \in Traversals \cup Iterations \cup {"begin", "returned"}
    /\ passes \in 0 .. Cardinality(Mapping) /\ turn \in {"fork", "wait"}
    /\ success \in BOOLEAN /\ lost \in BOOLEAN
    /\ done \subseteq {"old", "new"} \X Mapping
    /\ cores \in [Targets -> Nat]
    /\ \A p \in procs : p.phase \in Traversals /\ p.m \in Mapping /\ p.st \in {"running", "ok", "failed"}
    /\ \A t \in Machine : worker[t].st \in {"none", "running", "ok", "failed", "reaped"}
                         /\ worker[t].rest \subseteq Mapping
    /\ result \in {"none", "success", "failed", "crashed"}
    /\ DOMAIN state = Mapping /\ DOMAIN store = Host

OneCoreEach == \A t \in Targets : request.cores[t] = 1

\* On a target that offers one core no two remote operations run at a time,
\* and so a component is never snapshotted, restored or deleted twice at once.
\* (With a second core it is: a running mapping is not marked yet.)
OneAtATime ==
    \A p, q \in {r \in procs : r.st = "running"} :
        p # q /\ TargetOf[p.m] = TargetOf[q.m] => request.cores[TargetOf[p.m]] > 1

\* When every target offers one core, a traversal has reaped all that it forked
\* when it returns, although it makes a fixed number of passes: the next phase
\* never starts beside an unfinished operation or waits for one of the last.
NothingLeftBehind == OneCoreEach => \A p \in procs : p.phase = phase

\* Machines are addressed by their names.
Named == \A t \in Targets : request.keys[t] = t

\* The component of n was on one machine that is still there, and not on n's.
Moves(o, n) ==
    /\ o \in request.old \ request.new /\ n \in request.new \ request.old
    /\ ComponentOf[o] = ComponentOf[n] /\ Present(o)
    /\ \A x \in request.old \ request.new : ComponentOf[x] = ComponentOf[o] /\ Present(x) => x = o

\* disnix-migrate that reports success has brought the state a component had on
\* its old machine, and not that of an older snapshot, to its new machine, if
\* machines are addressed by their names: otherwise the workers copy nothing and
\* succeed, see StateArrives.  --all is excepted: see NewestArrives.
RestoredIsMoved ==
    /\ Named /\ result = "success" /\ OneCoreEach
    /\ request.command = "migrate" /\ request.known
    /\ ~request.transferOnly /\ ~request.all
    => \A o, n \in Mapping : Moves(o, n) => state[n] = Value[o]

\* State of a component that the new configuration no longer has there is only
\* deleted once the coordinator holds a snapshot of it, if machines are addressed
\* by their names.
DeletedIsSaved ==
    /\ Named /\ request.command = "migrate" /\ OneCoreEach
    /\ ~request.transferOnly /\ ~request.all
    => \A m \in request.old \ request.new :
         state[m] = "deleted" => Value[m] \in Range(store["coordinator"][ComponentOf[m]])

\* doc/manual/architecture.xml:163: disnix-migrate moves the state of services
\* that have been moved from one machine to another.  It does not where the target
\* property of a machine is not its name, and yet reports success.
StateArrives ==
    /\ result = "success" /\ OneCoreEach
    /\ request.command = "migrate" /\ request.known
    /\ ~request.transferOnly /\ ~request.all
    => \A o, n \in Mapping : Moves(o, n) => state[n] # "fresh"

\* A copy that reports success made the newest snapshot of the sender the newest
\* of the receiver.  For sending this holds with --all as well, although the
\* exit status is only that of the last round; for retrieving it does not: after
\* a failing round the last one retrieves an older snapshot and succeeds.
NewestArrives ==
    [][\A t \in Machine :
        LET w == worker[t]
            op == Steps[phase][w.step]
            c == ComponentOf[Min(w.rest)]
            from == IF op = "send" THEN "coordinator" ELSE t
            to == IF op = "send" THEN t ELSE "coordinator"
        IN  /\ w.st = "running" /\ w.rest # {}
            /\ op = "send" \/ (op = "retrieve" /\ ~request.all)
            /\ worker'[t] # w /\ worker'[t].st = "running"
            /\ store[from][c] # <<>>
            => Last(store'[to][c]) = Last(store[from][c])]_vars

\* Whatever fails, a migration ends: in a result or in a crash.
Terminates == <>(result # "none")
=============================================================================
