----------------------------- MODULE Transition -----------------------------
(***************************************************************************)
(* The transition phase of a Disnix deployment: the coordinator brings the *)
(* services running on the target machines from the previous manifest to   *)
(* the new one, in an order that never breaks an inter-dependency, and     *)
(* rolls back when something fails or the user presses Ctrl-C.             *)
(*                                                                         *)
(*   src/libdeploy/transition.c              the phases and the rollbacks  *)
(*   src/libmanifest/servicemapping-traverse.c   one traversal             *)
(*   src/libinfrastructure/target.c          the CPU cores of a target     *)
(*   src/libmain/interrupt.c                 the SIGINT flag               *)
(*                                                                         *)
(* A traversal visits its roots in array order, pass after pass.  A visit  *)
(* walks the inter-dependencies of its root (or what depends on it), stops *)
(* at the first mapping that is not yet settled, and forks at most one     *)
(* remote activation or deactivation for it.  After each visit the         *)
(* coordinator waits for one of its children.                              *)
(***************************************************************************)
EXTENDS Naturals, Sequences, FiniteSets

CONSTANTS
    Mapping,        \* service mappings (service, container, target), numbered in
                    \* the order in which compare_service_mappings sorts them
    Machine,        \* target machines of all manifests
    Deps,           \* Deps[m]: the inter-dependencies (depends_on) of m
    TargetOf,       \* TargetOf[m]: the machine m is mapped to
    Cores,          \* Cores[t]: numOfCores of machine t
    UpWalk,         \* UpWalk[r]: the mappings in the order in which
                    \* traverse_inter_dependency_mappings settles them from r
    DownWalk,       \* the same for traverse_interdependent_mappings
    Requests,       \* the deployments to consider, see RequestOK
    ForkMayFail,    \* TRUE when fork() may return -1
    PartialEffects  \* TRUE when a remote operation that reports failure may
                    \* nevertheless have changed the service

ASSUME ConstantsOK ==
    /\ Mapping \subseteq Nat
    /\ Deps \in [Mapping -> SUBSET Mapping]
    /\ TargetOf \in [Mapping -> Machine]
    /\ Cores \in [Machine -> Nat \ {0}]
    /\ ForkMayFail \in BOOLEAN
    /\ PartialEffects \in BOOLEAN

Closed(S) == \A m \in S : Deps[m] \subseteq S

\* A recursive visit settles all inter-dependencies of a mapping before the
\* mapping itself, and the root last; it visits nothing but the root's own
\* inter-dependencies, so it never leaves a closed set that holds the root.
ASSUME UpWalkOK ==
    /\ UpWalk \in [Mapping -> Seq(Mapping)]
    /\ \A r \in Mapping :
        /\ \E k \in DOMAIN UpWalk[r] : UpWalk[r][k] = r
        /\ \A k \in DOMAIN UpWalk[r] : \A d \in Deps[UpWalk[r][k]] :
             \E j \in 1 .. k - 1 : UpWalk[r][j] = d
        /\ \A S \in SUBSET Mapping : (Closed(S) /\ r \in S) =>
             \A k \in DOMAIN UpWalk[r] : UpWalk[r][k] \in S

\* The reverse visit settles everything that depends on a mapping before it; it
\* visits nothing that does not depend on the root, so it never enters a closed
\* set without the root.
ASSUME DownWalkOK ==
    /\ DownWalk \in [Mapping -> Seq(Mapping)]
    /\ \A r \in Mapping :
        /\ \E k \in DOMAIN DownWalk[r] : DownWalk[r][k] = r
        /\ \A k \in DOMAIN DownWalk[r] : \A m \in Mapping :
             DownWalk[r][k] \in Deps[m] => \E j \in 1 .. k - 1 : DownWalk[r][j] = m
        /\ \A S \in SUBSET Mapping : (Closed(S) /\ r \notin S) =>
             \A k \in DOMAIN DownWalk[r] : DownWalk[r][k] \notin S

\* A request: the mappings of the previous manifest (none without an upgrade)
\* and of the new one, the machines in the new manifest's targets table, and
\* the flags.  Manifests hold their inter-dependencies and a target for every
\* mapping; a machine of the previous manifest may be gone from the new one.
RequestOK(q) ==
    /\ q.old \subseteq Mapping /\ Closed(q.old)
    /\ q.new \subseteq Mapping /\ Closed(q.new)
    /\ q.machines \subseteq Machine
    /\ \A m \in q.new : TargetOf[m] \in q.machines
    /\ q.upgrade \in BOOLEAN /\ q.rollback \in BOOLEAN /\ q.dryRun \in BOOLEAN
    /\ ~q.upgrade => q.old = {}

ASSUME RequestsOK == \A q \in Requests : RequestOK(q)

VARIABLES
    request,      \* the deployment asked for
    phase,        \* the traversal that is running, or "done"
    todo,         \* roots this pass of the traversal has yet to visit
    settled,      \* roots counted in num_done in this pass
    success,      \* the traversal's success variable
    waiting,      \* TRUE between a visit and the return of wait()
    status,       \* ServiceMapping.status, the coordinator's view
    cores,        \* Target.available_cores
    child,        \* the forked process of a mapping, as long as it is not reaped
    running,      \* services that really run on the machines
    interrupted,  \* the flag the SIGINT handler sets
    result        \* what transition() returns

traversal == <<phase, todo, settled, success, waiting>>
vars == <<request, traversal, status, cores, child, running, interrupted, result>>

Phases == {"deactivate", "activate", "rollback_new", "rollback_old", "done"}
Statuses == {"deactivated", "in_progress", "activated", "error"}
Children == {"none", "activating", "deactivating", "succeeded", "failed"}
Results == {"none", "success", "failed", "obsolete_rollback_failed", "new_rollback_failed"}

-----------------------------------------------------------------------------
(* The arrays transition() derives from the two manifests. *)

Obsolete == request.old \ request.new     \* deactivation_array
Added == request.new \ request.old        \* activation_array
Present(m) == TargetOf[m] \in request.machines

Activating == phase \in {"activate", "rollback_old"}

\* Fault: the intersection is not subtracted from the deactivation array.
RootsWithKept(p) ==
    CASE p = "deactivate" -> request.old
      [] p = "activate" -> Added
      [] p = "rollback_new" -> Added
      [] p = "rollback_old" -> request.old
      [] OTHER -> {}

Roots(p) ==
    CASE p = "deactivate" -> Obsolete
      [] p = "activate" -> Added
      [] p = "rollback_new" -> Added
      [] p = "rollback_old" -> request.old
      [] OTHER -> {}

\* Fault: the two traversal strategies are swapped.
WalkSwapped(r) == IF Activating THEN DownWalk[r] ELSE UpWalk[r]

Walk(r) == IF Activating THEN UpWalk[r] ELSE DownWalk[r]

\* The status a mapping has before and after the traversal's operation.
From == IF Activating THEN "deactivated" ELSE "activated"
Goal == IF Activating THEN "activated" ELSE "deactivated"

\* A visit declares a mapping of a vanished machine deactivated and goes on.
Skippable(m) == ~Activating /\ status[m] = "activated" /\ ~Present(m)
Passable(m) == status[m] = Goal \/ Skippable(m)

\* Position k of the walk from r is where a visit stops.
StopsAt(r, k) ==
    /\ k \in DOMAIN Walk(r)
    /\ ~Passable(Walk(r)[k])
    /\ \A j \in 1 .. k - 1 : Passable(Walk(r)[j])

\* The status of every mapping after the visit of r went past the positions in P.
PassedOver(r, P) ==
    [m \in Mapping |->
        IF \E j \in P : Walk(r)[j] = m /\ Skippable(m) THEN "deactivated" ELSE status[m]]

InFlight == {m \in Mapping : child[m] # "none"}     \* the pid_table
Ended(m) == child[m] \in {"succeeded", "failed"}

-----------------------------------------------------------------------------
Init ==
    /\ request \in Requests
    /\ phase = IF request.upgrade THEN "deactivate" ELSE "activate"
    /\ todo = Roots(phase)
    /\ settled = {}
    /\ success = TRUE
    /\ waiting = FALSE
    /\ status = [m \in Mapping |-> IF m \in request.old THEN "activated" ELSE "deactivated"]
    /\ cores = Cores
    /\ child = [m \in Mapping |-> "none"]
    /\ running = request.old
    /\ interrupted = FALSE
    /\ result = "none"

(* Visits: one call of the iterate strategy for the next root of the array. *)

Visiting(r) ==
    /\ phase # "done" /\ ~waiting
    /\ r \in todo /\ \A s \in todo : r <= s
    /\ todo' = todo \ {r}
    /\ waiting' = TRUE
    /\ UNCHANGED <<request, phase, running, interrupted, result>>

\* SERVICE_DONE: everything on the walk is settled.
VisitDone(r) ==
    /\ Visiting(r)
    /\ \A k \in DOMAIN Walk(r) : Passable(Walk(r)[k])
    /\ status' = PassedOver(r, DOMAIN Walk(r))
    /\ settled' = settled \cup {r}
    /\ UNCHANGED <<success, cores, child>>

\* Fault: a mapping in progress counts in num_done.
VisitInProgressCounted(r) ==
    /\ Visiting(r)
    /\ \E k \in DOMAIN Walk(r) :
        /\ StopsAt(r, k)
        /\ status[Walk(r)[k]] = "in_progress"
        /\ status' = PassedOver(r, 1 .. k - 1)
    /\ settled' = settled \cup {r}
    /\ UNCHANGED <<success, cores, child>>

\* SERVICE_IN_PROGRESS, relayed from a mapping whose process still runs.
VisitInProgress(r) ==
    /\ Visiting(r)
    /\ \E k \in DOMAIN Walk(r) :
        /\ StopsAt(r, k)
        /\ status[Walk(r)[k]] = "in_progress"
        /\ status' = PassedOver(r, 1 .. k - 1)
    /\ UNCHANGED <<settled, success, cores, child>>

\* Fault: an error does not count in num_done.
VisitErrorNotCounted(r) ==
    /\ Visiting(r)
    /\ \E k \in DOMAIN Walk(r) : LET m == Walk(r)[k] IN
        /\ StopsAt(r, k)
        /\ status[m] = "error" \/ (status[m] = From /\ ~Present(m))
        /\ status' = PassedOver(r, 1 .. k - 1)
    /\ success' = FALSE
    /\ UNCHANGED <<settled, cores, child>>

\* SERVICE_ERROR, relayed from a failed mapping or because the machine of a
\* mapping to activate is not in the targets table.
VisitError(r) ==
    /\ Visiting(r)
    /\ \E k \in DOMAIN Walk(r) : LET m == Walk(r)[k] IN
        /\ StopsAt(r, k)
        /\ status[m] = "error" \/ (status[m] = From /\ ~Present(m))
        /\ status' = PassedOver(r, 1 .. k - 1)
    /\ success' = FALSE
    /\ settled' = settled \cup {r}
    /\ UNCHANGED <<cores, child>>

\* The visit reaches a mapping it can operate on.
Attempts(r, k) ==
    /\ StopsAt(r, k)
    /\ status[Walk(r)[k]] = From
    /\ Present(Walk(r)[k])

\* SERVICE_WAIT: request_available_target_core finds no core.
VisitNoCore(r) ==
    /\ Visiting(r)
    /\ \E k \in DOMAIN Walk(r) :
        /\ Attempts(r, k)
        /\ cores[TargetOf[Walk(r)[k]]] = 0
        /\ status' = PassedOver(r, 1 .. k - 1)
    /\ UNCHANGED <<settled, success, cores, child>>

\* Fault: a core is taken without looking whether one is available.
VisitForkUnlimited(r) ==
    /\ Visiting(r)
    /\ \E k \in DOMAIN Walk(r) : LET m == Walk(r)[k] IN
        /\ Attempts(r, k)
        /\ cores' = [cores EXCEPT ![TargetOf[m]] = @ - 1]
        /\ child' = [child EXCEPT ![m] = IF Activating THEN "activating" ELSE "deactivating"]
        /\ status' = [PassedOver(r, 1 .. k - 1) EXCEPT ![m] = "in_progress"]
    /\ UNCHANGED <<settled, success>>

\* SERVICE_IN_PROGRESS: a core is taken and the operation forked.
VisitFork(r) ==
    /\ Visiting(r)
    /\ \E k \in DOMAIN Walk(r) : LET m == Walk(r)[k] IN
        /\ Attempts(r, k)
        /\ cores[TargetOf[m]] > 0
        /\ cores' = [cores EXCEPT ![TargetOf[m]] = @ - 1]
        /\ child' = [child EXCEPT ![m] = IF Activating THEN "activating" ELSE "deactivating"]
        /\ status' = [PassedOver(r, 1 .. k - 1) EXCEPT ![m] = "in_progress"]
    /\ UNCHANGED <<settled, success>>

\* SERVICE_ERROR: fork() fails.  The core that was taken is not given back.
VisitForkFails(r) ==
    /\ ForkMayFail
    /\ Visiting(r)
    /\ \E k \in DOMAIN Walk(r) : LET m == Walk(r)[k] IN
        /\ Attempts(r, k)
        /\ cores[TargetOf[m]] > 0
        /\ cores' = [cores EXCEPT ![TargetOf[m]] = @ - 1]
        /\ status' = PassedOver(r, 1 .. k - 1)
    /\ success' = FALSE
    /\ settled' = settled \cup {r}
    /\ UNCHANGED child

-----------------------------------------------------------------------------
(* wait_for_service_mapping_to_complete. *)

\* Fault: the result of the process is ignored.
CompletedRegardless(m) == Goal

\* The status complete_activation or complete_deactivation gives a mapping.
Completed(m) == IF child[m] = "succeeded" THEN Goal ELSE "error"

\* Fault: the core is not made available again.
WaitReapsOnly(m) ==
    /\ waiting /\ Ended(m)
    /\ waiting' = FALSE
    /\ status' = [status EXCEPT ![m] = Completed(m)]
    /\ child' = [child EXCEPT ![m] = "none"]
    /\ UNCHANGED <<request, phase, todo, settled, success, cores, running, interrupted,
                   result>>

\* wait() returns an ended child; its core becomes available again.
WaitReaps(m) ==
    /\ waiting /\ Ended(m)
    /\ waiting' = FALSE
    /\ status' = [status EXCEPT ![m] = Completed(m)]
    /\ child' = [child EXCEPT ![m] = "none"]
    /\ cores' = [cores EXCEPT ![TargetOf[m]] = @ + 1]
    /\ UNCHANGED <<request, phase, todo, settled, success, running, interrupted, result>>

\* wait() returns at once when there is no child.
WaitNothing ==
    /\ waiting /\ InFlight = {}
    /\ waiting' = FALSE
    /\ UNCHANGED <<request, phase, todo, settled, success, status, cores, child,
                   running, interrupted, result>>

-----------------------------------------------------------------------------
(* The end of a pass, of a traversal and of the transition. *)

PassEnds == phase # "done" /\ ~waiting /\ todo = {}

NextPass ==
    /\ PassEnds /\ settled # Roots(phase)
    /\ todo' = Roots(phase)
    /\ settled' = {}
    /\ UNCHANGED <<request, phase, success, waiting, status, cores, child, running,
                   interrupted, result>>

Traversed == PassEnds /\ settled = Roots(phase)

StartTraversal(p) ==
    /\ phase' = p
    /\ todo' = Roots(p)
    /\ settled' = {}
    /\ success' = TRUE
    /\ UNCHANGED <<request, waiting, cores, child, running, interrupted, result>>

Finish(outcome) ==
    /\ phase' = "done"
    /\ result' = outcome
    /\ UNCHANGED <<request, todo, settled, success, waiting, status, cores, child,
                   running, interrupted>>

\* mark_erroneous_mappings
ErrorsMarked(s) == [m \in Mapping |-> IF status[m] = "error" THEN s ELSE status[m]]

RollBackToOld ==
    /\ status' = ErrorsMarked("activated")
    /\ StartTraversal("rollback_old")

RollBackNew ==
    /\ status' = ErrorsMarked("deactivated")
    /\ StartTraversal("rollback_new")

\* deactivate_obsolete_mappings
DeactivationReturns ==
    /\ Traversed /\ phase = "deactivate"
    /\ \/ success /\ ~interrupted /\ StartTraversal("activate") /\ UNCHANGED status
       \/ ~(success /\ ~interrupted) /\ ~request.rollback /\ Finish("failed")
       \/ ~(success /\ ~interrupted) /\ request.rollback /\ RollBackToOld

\* activate_new_mappings
ActivationReturns ==
    /\ Traversed /\ phase = "activate"
    /\ \/ success /\ ~interrupted /\ Finish("success")
       \/ ~(success /\ ~interrupted) /\ ~request.rollback /\ Finish("failed")
       \/ ~(success /\ ~interrupted) /\ request.rollback /\ RollBackNew

\* Fault: the old mappings are not activated again.
NewMappingsRolledBackOnly ==
    /\ Traversed /\ phase = "rollback_new"
    /\ Finish(IF success THEN "failed" ELSE "new_rollback_failed")

NewMappingsRolledBack ==
    /\ Traversed /\ phase = "rollback_new"
    /\ \/ ~success /\ Finish("new_rollback_failed")
       \/ success /\ ~request.upgrade /\ Finish("failed")
       \/ success /\ request.upgrade /\ RollBackToOld

RolledBackToOld ==
    /\ Traversed /\ phase = "rollback_old"
    /\ Finish(IF success THEN "failed" ELSE "obsolete_rollback_failed")

-----------------------------------------------------------------------------
(* The remote operations and the user. *)

\* The services that run once the operation of m took effect.
Effect(m) ==
    IF request.dryRun THEN running
    ELSE IF child[m] = "activating" THEN running \cup {m}
    ELSE running \ {m}

ChildSucceeds(m) ==
    /\ child[m] \in {"activating", "deactivating"}
    /\ child' = [child EXCEPT ![m] = "succeeded"]
    /\ running' = Effect(m)
    /\ UNCHANGED <<request, traversal, status, cores, interrupted, result>>

\* A dry run forks "true"; it fails only when it cannot be executed.
ChildFails(m) ==
    /\ child[m] \in {"activating", "deactivating"}
    /\ child' = [child EXCEPT ![m] = "failed"]
    /\ \/ UNCHANGED running
       \/ PartialEffects /\ running' = Effect(m)
    /\ UNCHANGED <<request, traversal, status, cores, interrupted, result>>

\* SIGINT sets the flag, and makes a wait() that blocks return with EINTR: the
\* handler is installed without SA_RESTART.
Interrupt ==
    /\ phase # "done"
    /\ interrupted' = TRUE
    /\ waiting' = (waiting /\ (InFlight = {} \/ \E m \in Mapping : Ended(m)))
    /\ UNCHANGED <<request, phase, todo, settled, success, status, cores, child,
                   running, result>>

Visit == \E r \in Mapping :
    \/ VisitDone(r) \/ VisitInProgress(r) \/ VisitError(r)
    \/ VisitNoCore(r) \/ VisitFork(r) \/ VisitForkFails(r)

Wait == WaitNothing \/ \E m \in Mapping : WaitReaps(m)

PhaseReturns ==
    \/ DeactivationReturns \/ ActivationReturns
    \/ NewMappingsRolledBack \/ RolledBackToOld

Coordinator == Visit \/ Wait \/ NextPass \/ PhaseReturns

Child(m) == ChildSucceeds(m) \/ ChildFails(m)

Returned == phase = "done" /\ UNCHANGED vars

Next == Coordinator \/ (\E m \in Mapping : Child(m)) \/ Interrupt \/ Returned

Spec == Init /\ [][Next]_vars

\* The coordinator is never starved and every remote operation ends; nobody
\* has to press Ctrl-C.
FairSpec == Spec /\ WF_vars(Coordinator) /\ \A m \in Mapping : WF_vars(Child(m))

-----------------------------------------------------------------------------
(* Properties. *)

TypeOK ==
    /\ request \in Requests
    /\ phase \in Phases
    /\ todo \subseteq Mapping
    /\ settled \subseteq Mapping
    /\ success \in BOOLEAN
    /\ waiting \in BOOLEAN
    /\ status \in [Mapping -> Statuses]
    /\ cores \in [Machine -> Nat]
    /\ child \in [Mapping -> Children]
    /\ running \subseteq Mapping
    /\ interrupted \in BOOLEAN
    /\ result \in Results

\* No inter-dependency is ever broken: at every instant, whatever fails, is
\* interrupted or is rolled back, a service that runs on a machine of the new
\* configuration finds all its inter-dependencies running.  (Services left behind
\* on a machine that is gone are out of reach.)  Holds when an operation that
\* reports failure did nothing.
DependenciesUp ==
    ~PartialEffects =>
        \A m \in running : Present(m) => Deps[m] \subseteq running

\* The cores of a machine are either available or in use by a process that
\* the coordinator has yet to reap.
CoresAccounted ==
    \A t \in request.machines :
        cores[t] + Cardinality({m \in InFlight : TargetOf[m] = t}) = Cores[t]

\* A traversal never returns with a process of its own outstanding, however
\* often wait() was interrupted: the next traversal has an empty pid_table
\* and would look up an unknown pid.
NoOrphan == [][phase' # phase => InFlight = {}]_vars

\* Mappings in both configurations are never deactivated, activated or
\* marked as anything but activated, in no phase and no rollback.
KeptUntouched ==
    \A m \in request.old \cap request.new :
        status[m] = "activated" /\ child[m] = "none" /\ m \in running

\* A reported success is real: exactly the new configuration runs, apart from
\* services of the old one on machines that are gone.
SuccessIsReal ==
    (result = "success" /\ ~request.dryRun) =>
        /\ request.new \subseteq running
        /\ \A m \in running \ request.new : m \in request.old /\ ~Present(m)

\* A failure with rollbacks enabled that is not reported as a failed rollback
\* left the system as it was.  Holds when a failed operation did nothing.
FailureRestoresOld ==
    (result = "failed" /\ request.rollback /\ ~PartialEffects) => running = request.old

\* The transition returns, however often it is interrupted.
Terminates == <>(phase = "done")

\* While the coordinator blocks in wait() during the activation phase, there is
\* nothing else it could activate: every other mapping of the new configuration
\* has an inactive inter-dependency or a machine without available cores.
AsManyAsPossible ==
    (phase = "activate" /\ waiting /\ InFlight # {}) =>
        \A m \in Added :
            \/ status[m] # "deactivated"
            \/ \E d \in Deps[m] : status[d] # "activated"
            \/ cores[TargetOf[m]] = 0
=============================================================================
