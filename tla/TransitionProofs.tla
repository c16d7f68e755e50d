-------------------------- MODULE TransitionProofs --------------------------
(***************************************************************************)
(* What the transition phase guarantees for every set of mappings, every   *)
(* acyclic inter-dependency graph, every number of cores and every request:*)
(* first the order in which it acts, then, with a stronger invariant, what *)
(* it leaves behind when it returns and what it never touches on the way.  *)
(***************************************************************************)
EXTENDS Transition, TLAPS, FiniteSetTheorems

-----------------------------------------------------------------------------
(* The operators of the model. *)

\* The walks are sequences of mappings.
LEMMA WalkType ==
    ASSUME NEW r \in Mapping
    PROVE  /\ Walk(r) \in Seq(Mapping)
           /\ \A k \in DOMAIN Walk(r) : Walk(r)[k] \in Mapping
<1>1. UpWalk[r] \in Seq(Mapping) /\ DownWalk[r] \in Seq(Mapping)
  BY UpWalkOK, DownWalkOK
<1>2. Walk(r) \in Seq(Mapping)
  BY <1>1 DEF Walk
<1>3. ASSUME NEW s \in Seq(Mapping) PROVE \A k \in DOMAIN s : s[k] \in Mapping
  OBVIOUS
<1> QED
  BY <1>2, <1>3

\* A position before a position of a walk is a position of that walk.
LEMMA WalkPrefix ==
    ASSUME NEW r \in Mapping, NEW k \in DOMAIN Walk(r), NEW j \in 1 .. k - 1
    PROVE  j \in DOMAIN Walk(r)
BY WalkType

\* Going past mappings keeps the type of the statuses.
LEMMA PassedOverType ==
    ASSUME status \in [Mapping -> Statuses], NEW r, NEW P
    PROVE  PassedOver(r, P) \in [Mapping -> Statuses]
BY DEF PassedOver, Statuses

\* The roots of a traversal are mappings.
LEMMA RootsType ==
    ASSUME request \in Requests, NEW p
    PROVE  Roots(p) \subseteq Mapping
BY RequestsOK DEF Roots, RequestOK, Obsolete, Added

-----------------------------------------------------------------------------
(* Type correctness. *)

LEMMA InitType == Init => TypeOK
<1> SUFFICES ASSUME Init PROVE TypeOK
  OBVIOUS
<1>1. request \in Requests
  BY DEF Init
<1>2. RequestOK(request)
  BY <1>1, RequestsOK
<1>3. todo \subseteq Mapping
  BY <1>1, RootsType DEF Init
<1>4. running \subseteq Mapping
  BY <1>2 DEF Init, RequestOK
<1>5. phase \in Phases
  BY DEF Init, Phases
<1>6. status \in [Mapping -> Statuses] /\ child \in [Mapping -> Children]
  BY DEF Init, Statuses, Children
<1>7. cores \in [Machine -> Nat]
  BY ConstantsOK DEF Init
<1> QED
  BY <1>1, <1>3, <1>4, <1>5, <1>6, <1>7 DEF Init, TypeOK, Results

LEMMA VisitType ==
    ASSUME TypeOK, NEW r \in Mapping,
           \/ VisitDone(r) \/ VisitInProgress(r) \/ VisitError(r)
           \/ VisitNoCore(r) \/ VisitFork(r) \/ VisitForkFails(r)
    PROVE  TypeOK'
<1>1. /\ todo' \subseteq Mapping /\ waiting' \in BOOLEAN
      /\ UNCHANGED <<request, phase, running, interrupted, result>>
  BY DEF TypeOK, Visiting, VisitDone, VisitInProgress, VisitError, VisitNoCore, VisitFork,
         VisitForkFails
<1>2. settled' \subseteq Mapping /\ success' \in BOOLEAN
  BY DEF TypeOK, VisitDone, VisitInProgress, VisitError, VisitNoCore, VisitFork,
         VisitForkFails
<1>3. \A P : PassedOver(r, P) \in [Mapping -> Statuses]
  BY PassedOverType DEF TypeOK
<1>4. status' \in [Mapping -> Statuses]
  <2>1. CASE VisitFork(r)
    <3>1. PICK k \in DOMAIN Walk(r) :
            status' = [PassedOver(r, 1 .. k - 1) EXCEPT ![Walk(r)[k]] = "in_progress"]
      BY <2>1 DEF VisitFork
    <3> QED
      BY <1>3, <3>1 DEF Statuses
  <2>2. CASE ~VisitFork(r)
    BY <1>3, <2>2 DEF VisitDone, VisitInProgress, VisitError, VisitNoCore, VisitForkFails
  <2> QED
    BY <2>1, <2>2
<1>5. cores' \in [Machine -> Nat]
  <2>1. CASE VisitFork(r) \/ VisitForkFails(r)
    <3>1. PICK k \in DOMAIN Walk(r) :
            /\ cores[TargetOf[Walk(r)[k]]] > 0
            /\ cores' = [cores EXCEPT ![TargetOf[Walk(r)[k]]] = @ - 1]
      BY <2>1 DEF VisitFork, VisitForkFails
    <3>2. TargetOf[Walk(r)[k]] \in Machine
      BY WalkType, ConstantsOK
    <3> QED
      BY <3>1, <3>2 DEF TypeOK
  <2>2. CASE ~(VisitFork(r) \/ VisitForkFails(r))
    BY <2>2 DEF VisitDone, VisitInProgress, VisitError, VisitNoCore, TypeOK
  <2> QED
    BY <2>1, <2>2
<1>6. child' \in [Mapping -> Children]
  <2>1. CASE VisitFork(r)
    <3>1. PICK k \in DOMAIN Walk(r) :
            child' = [child EXCEPT ![Walk(r)[k]] =
                        IF Activating THEN "activating" ELSE "deactivating"]
      BY <2>1 DEF VisitFork
    <3> QED
      BY <3>1 DEF TypeOK, Children
  <2>2. CASE ~VisitFork(r)
    BY <2>2 DEF VisitDone, VisitInProgress, VisitError, VisitNoCore, VisitForkFails, TypeOK
  <2> QED
    BY <2>1, <2>2
<1> QED
  BY <1>1, <1>2, <1>4, <1>5, <1>6 DEF TypeOK

LEMMA WaitType == ASSUME TypeOK, Wait PROVE TypeOK'
<1>1. CASE WaitNothing
  BY <1>1 DEF WaitNothing, TypeOK
<1>2. ASSUME NEW m \in Mapping, WaitReaps(m) PROVE TypeOK'
  <2>1. status' \in [Mapping -> Statuses]
    BY <1>2 DEF WaitReaps, Completed, Goal, Statuses, TypeOK
  <2>2. cores' \in [Machine -> Nat]
    <3>1. TargetOf[m] \in Machine
      BY ConstantsOK
    <3> QED
      BY <1>2, <3>1 DEF WaitReaps, TypeOK
  <2>3. child' \in [Mapping -> Children]
    BY <1>2 DEF WaitReaps, Children, TypeOK
  <2> QED
    BY <1>2, <2>1, <2>2, <2>3 DEF WaitReaps, TypeOK
<1> QED
  BY <1>1, <1>2 DEF Wait

LEMMA PhaseType == ASSUME TypeOK, PhaseReturns PROVE TypeOK'
<1>1. \A s \in Statuses : ErrorsMarked(s) \in [Mapping -> Statuses]
  BY DEF ErrorsMarked, TypeOK
<1>2. \A p : Roots(p) \subseteq Mapping
  BY RootsType DEF TypeOK
<1>3. ASSUME NEW p \in Phases, StartTraversal(p), status' \in [Mapping -> Statuses]
      PROVE  TypeOK'
  BY <1>2, <1>3 DEF StartTraversal, TypeOK
<1>4. ASSUME NEW o \in Results, Finish(o) PROVE TypeOK'
  BY <1>4 DEF Finish, TypeOK, Phases
<1>5. RollBackToOld => TypeOK'
  BY <1>1, <1>3 DEF RollBackToOld, Phases, Statuses
<1>6. RollBackNew => TypeOK'
  BY <1>1, <1>3 DEF RollBackNew, Phases, Statuses
<1>7. CASE DeactivationReturns
  BY <1>7, <1>3, <1>4, <1>5 DEF DeactivationReturns, Phases, Results, TypeOK
<1>8. CASE ActivationReturns
  BY <1>8, <1>4, <1>6 DEF ActivationReturns, Results
<1>9. CASE NewMappingsRolledBack
  BY <1>9, <1>4, <1>5 DEF NewMappingsRolledBack, Results
<1>10. CASE RolledBackToOld
  BY <1>10, <1>4 DEF RolledBackToOld, Results
<1> QED
  BY <1>7, <1>8, <1>9, <1>10 DEF PhaseReturns

LEMMA NextType == TypeOK /\ [Next]_vars => TypeOK'
<1> SUFFICES ASSUME TypeOK, [Next]_vars PROVE TypeOK'
  OBVIOUS
<1>1. CASE Visit
  BY <1>1, VisitType DEF Visit
<1>2. CASE Wait
  BY <1>2, WaitType
<1>3. CASE NextPass
  BY <1>3, RootsType DEF NextPass, TypeOK
<1>4. CASE PhaseReturns
  BY <1>4, PhaseType
<1>5. ASSUME NEW m \in Mapping, Child(m) PROVE TypeOK'
  <2>1. running' \subseteq Mapping
    BY <1>5 DEF Child, ChildSucceeds, ChildFails, Effect, TypeOK
  <2>2. child' \in [Mapping -> Children]
    BY <1>5 DEF Child, ChildSucceeds, ChildFails, Children, TypeOK
  <2> QED
    BY <1>5, <2>1, <2>2 DEF Child, ChildSucceeds, ChildFails, traversal, TypeOK
<1>6. CASE Interrupt
  BY <1>6 DEF Interrupt, TypeOK
<1>7. CASE UNCHANGED vars
  BY <1>7 DEF vars, traversal, TypeOK
<1> QED
  BY <1>1, <1>2, <1>3, <1>4, <1>5, <1>6, <1>7 DEF Next, Coordinator, Returned

\* Every variable keeps its type in every execution of the transition phase.
THEOREM TypeCorrect == Spec => []TypeOK
<1>1. Init => TypeOK
  BY InitType
<1>2. TypeOK /\ [Next]_vars => TypeOK'
  BY NextType
<1> QED
  BY <1>1, <1>2, PTL DEF Spec

-----------------------------------------------------------------------------
(* The inductive invariant behind DependenciesUp. *)

\* A root is counted only when this pass has visited it.
PassOK == todo \subseteq Roots(phase) \ settled

\* A process belongs to a mapping in progress on a machine that is there, of the
\* kind the traversal forks, and there is a root, not yet counted in this pass,
\* whose visit stops at that mapping.
FlightOK ==
    \A m \in Mapping :
        /\ child[m] # "none" <=> status[m] = "in_progress"
        /\ child[m] # "none" =>
            /\ phase # "done"
            /\ Present(m)
            /\ child[m] = "activating" => Activating
            /\ child[m] = "deactivating" => ~Activating
            /\ \E r \in Roots(phase) \ settled : \E k \in DOMAIN Walk(r) :
                 /\ Walk(r)[k] = m
                 /\ \A j \in 1 .. k - 1 : status[Walk(r)[j]] = Goal

\* As long as nothing failed, the walks of the counted roots are settled.
VisitedOK ==
    (phase # "done" /\ success) =>
        \A r \in settled : \A k \in DOMAIN Walk(r) : status[Walk(r)[k]] = Goal

\* Errors are only on the walks of the traversal.
ErrorsOK ==
    phase # "done" =>
        \A m \in Mapping : status[m] = "error" =>
            \E r \in Roots(phase) : \E k \in DOMAIN Walk(r) : Walk(r)[k] = m

\* The coordinator's view of the mappings agrees with what runs.
ViewOK ==
    (~PartialEffects /\ ~request.dryRun) =>
        \A m \in Mapping :
            /\ status[m] = "activated" => m \in running
            /\ (status[m] = "deactivated" /\ Present(m)) => m \notin running
            /\ (phase # "done" /\ status[m] = "error") => (m \in running <=> ~Activating)
            /\ child[m] = "activating" => m \notin running
            /\ child[m] = "deactivating" => m \in running
            /\ child[m] = "succeeded" => (m \in running <=> Activating)
            /\ child[m] = "failed" => (m \in running <=> ~Activating)

IInv == TypeOK /\ PassOK /\ FlightOK /\ VisitedOK /\ ErrorsOK /\ ViewOK /\ DependenciesUp

\* What a step that leaves the phase alone leaves alone with it.
LEMMA SamePhase ==
    ASSUME UNCHANGED <<request, phase>>
    PROVE  /\ Activating' = Activating /\ Goal' = Goal
           /\ Roots(phase)' = Roots(phase)
           /\ \A r : Walk(r)' = Walk(r)
           /\ \A m : Present(m)' = Present(m)
BY DEF Activating, Goal, Roots, Walk, Present, Obsolete, Added

\* Going past mappings only turns skippable ones into deactivated ones.
LEMMA PassedOverEffect ==
    ASSUME NEW r \in Mapping, NEW P
    PROVE  \A m \in Mapping :
                 \/ PassedOver(r, P)[m] = status[m]
                 \/ Skippable(m) /\ PassedOver(r, P)[m] = "deactivated"
BY DEF PassedOver, Skippable

\* A visit leaves settled mappings settled.
LEMMA GoalKept ==
    ASSUME NEW r \in Mapping, NEW P, NEW m \in Mapping, status[m] = Goal
    PROVE  PassedOver(r, P)[m] = Goal
BY DEF PassedOver, Skippable, Goal

\* A visit stops at one position of the walk.
LEMMA StopUnique ==
    ASSUME NEW r \in Mapping, NEW k, StopsAt(r, k),
           NEW n \in DOMAIN Walk(r), ~Passable(Walk(r)[n]),
           \A j \in 1 .. n - 1 : status[Walk(r)[j]] = Goal
    PROVE  n = k
<1>1. Walk(r) \in Seq(Mapping) /\ k \in DOMAIN Walk(r)
  BY WalkType DEF StopsAt
<1>2. n \in Nat /\ k \in Nat /\ n >= 1 /\ k >= 1
  BY <1>1
<1>3. ~(n < k)
  BY <1>2 DEF StopsAt
<1>4. ~(k < n)
  BY <1>2 DEF StopsAt, Passable
<1> QED
  BY <1>2, <1>3, <1>4

-----------------------------------------------------------------------------
(* The actions preserve the invariant. *)

LEMMA InitInvariant == Init => IInv
<1> SUFFICES ASSUME Init PROVE IInv
  OBVIOUS
<1>1. TypeOK
  BY InitType
<1>2. RequestOK(request)
  BY <1>1, RequestsOK DEF TypeOK
<1>3. PassOK /\ FlightOK
  BY DEF Init, PassOK, FlightOK
<1>4. VisitedOK /\ ErrorsOK /\ ViewOK
  BY DEF Init, VisitedOK, ErrorsOK, ViewOK
<1>5. DependenciesUp
  BY <1>2 DEF Init, DependenciesUp, RequestOK, Closed
<1> QED
  BY <1>1, <1>3, <1>4, <1>5 DEF IInv

\* A visit that forks nothing.
LEMMA QuietVisitInvariant ==
    ASSUME IInv, NEW r \in Mapping,
           \/ VisitDone(r) \/ VisitInProgress(r) \/ VisitError(r)
           \/ VisitNoCore(r) \/ VisitForkFails(r)
    PROVE  IInv'
<1>1. TypeOK'
  BY VisitType DEF IInv
<1>2. UNCHANGED <<request, phase, running, child>>
  BY DEF Visiting, VisitDone, VisitInProgress, VisitError, VisitNoCore, VisitForkFails
<1>3. /\ Activating' = Activating /\ Goal' = Goal
      /\ Roots(phase)' = Roots(phase)
      /\ \A x : Walk(x)' = Walk(x)
      /\ \A m : Present(m)' = Present(m)
  BY <1>2, SamePhase
<1>4. PICK P : status' = PassedOver(r, P)
  BY DEF VisitDone, VisitInProgress, VisitError, VisitNoCore, VisitForkFails
<1>5. \A m \in Mapping :
        \/ status'[m] = status[m]
        \/ Skippable(m) /\ status'[m] = "deactivated"
  BY <1>4, PassedOverEffect
<1>6. \A m \in Mapping : status[m] = Goal => status'[m] = Goal
  BY <1>4, GoalKept
<1>7. \A x \in Mapping : \A k \in DOMAIN Walk(x) :
        (\A j \in 1 .. k - 1 : status[Walk(x)[j]] = Goal)
            => \A j \in 1 .. k - 1 : status'[Walk(x)[j]] = Goal
  BY <1>6, WalkType, WalkPrefix
<1>8. Roots(phase) \subseteq Mapping
  BY RootsType DEF IInv, TypeOK
<1>0. PassOK'
  BY <1>3 DEF IInv, PassOK, Visiting, VisitDone, VisitInProgress, VisitError, VisitNoCore,
         VisitForkFails
<1>9. CASE settled' = settled /\ success' = success
  <2>1. FlightOK'
    BY <1>2, <1>3, <1>5, <1>7, <1>8, <1>9 DEF IInv, FlightOK, Skippable
  <2>2. VisitedOK'
    BY <1>2, <1>3, <1>6, <1>9, WalkType DEF IInv, TypeOK, VisitedOK
  <2>3. ErrorsOK'
    BY <1>2, <1>3, <1>5 DEF IInv, ErrorsOK
  <2>4. ViewOK'
    BY <1>2, <1>3, <1>5 DEF IInv, ViewOK, Skippable
  <2>5. DependenciesUp'
    BY <1>2, <1>3 DEF IInv, DependenciesUp
  <2> QED
    BY <1>1, <1>0, <2>1, <2>2, <2>3, <2>4, <2>5 DEF IInv
<1>10. CASE VisitDone(r) \/ VisitError(r) \/ VisitForkFails(r)
  <2>1. settled' = settled \cup {r}
    BY <1>10 DEF VisitDone, VisitError, VisitForkFails
  <2>2. ASSUME NEW n \in DOMAIN Walk(r), status[Walk(r)[n]] = "in_progress",
               \A j \in 1 .. n - 1 : status[Walk(r)[j]] = Goal
        PROVE  FALSE
    <3>1. ~Passable(Walk(r)[n])
      BY <2>2 DEF Passable, Skippable, Goal
    <3>2. CASE VisitDone(r)
      BY <3>1, <3>2 DEF VisitDone
    <3>3. CASE VisitError(r) \/ VisitForkFails(r)
      <4>1. PICK k \in DOMAIN Walk(r) :
              StopsAt(r, k) /\ status[Walk(r)[k]] \in {"error", From}
        BY <3>3 DEF VisitError, VisitForkFails, Attempts
      <4>2. n = k
        BY <2>2, <3>1, <4>1, StopUnique
      <4> QED
        BY <2>2, <4>1, <4>2 DEF From
    <3> QED
      BY <1>10, <3>2, <3>3
  <2>3. FlightOK'
    <3> SUFFICES ASSUME NEW m \in Mapping
                 PROVE  /\ child[m] # "none" <=> status'[m] = "in_progress"
                        /\ child[m] # "none" =>
                            /\ phase # "done"
                            /\ Present(m)
                            /\ child[m] = "activating" => Activating
                            /\ child[m] = "deactivating" => ~Activating
                            /\ \E x \in Roots(phase) \ settled' : \E k \in DOMAIN Walk(x) :
                                 /\ Walk(x)[k] = m
                                 /\ \A j \in 1 .. k - 1 : status'[Walk(x)[j]] = Goal
      BY <1>2, <1>3 DEF FlightOK
    <3>1. child[m] # "none" <=> status'[m] = "in_progress"
      BY <1>5 DEF IInv, FlightOK, Skippable
    <3>2. ASSUME child[m] # "none"
          PROVE  \E x \in Roots(phase) \ settled' : \E k \in DOMAIN Walk(x) :
                    /\ Walk(x)[k] = m
                    /\ \A j \in 1 .. k - 1 : status'[Walk(x)[j]] = Goal
      <4>1. PICK x \in Roots(phase) \ settled : \E k \in DOMAIN Walk(x) :
              Walk(x)[k] = m /\ \A j \in 1 .. k - 1 : status[Walk(x)[j]] = Goal
        BY <3>2 DEF IInv, FlightOK
      <4>2. x # r
        BY <2>2, <3>2, <4>1 DEF IInv, FlightOK
      <4> QED
        BY <1>7, <1>8, <2>1, <4>1, <4>2
    <3> QED
      BY <3>1, <3>2 DEF IInv, FlightOK
  <2>4. VisitedOK'
    <3>1. CASE VisitDone(r)
      <4>1. status' = PassedOver(r, DOMAIN Walk(r)) /\ success' = success
        BY <3>1 DEF VisitDone
      <4>2. \A k \in DOMAIN Walk(r) : status'[Walk(r)[k]] = Goal
        <5>1. \A k \in DOMAIN Walk(r) : Walk(r)[k] \in Mapping /\ Passable(Walk(r)[k])
          BY <3>1, WalkType DEF VisitDone
        <5>2. \A k \in DOMAIN Walk(r) :
                PassedOver(r, DOMAIN Walk(r))[Walk(r)[k]] = Goal
          BY <5>1 DEF PassedOver, Passable, Skippable, Goal
        <5> QED
          BY <4>1, <5>2
      <4> QED
        BY <1>2, <1>3, <1>6, <2>1, <4>1, <4>2, WalkType DEF IInv, TypeOK, VisitedOK
    <3>2. CASE VisitError(r) \/ VisitForkFails(r)
      BY <3>2 DEF VisitError, VisitForkFails, VisitedOK
    <3> QED
      BY <1>10, <3>1, <3>2
  <2>5. ErrorsOK'
    BY <1>2, <1>3, <1>5 DEF IInv, ErrorsOK
  <2>6. ViewOK'
    BY <1>2, <1>3, <1>5 DEF IInv, ViewOK, Skippable
  <2>7. DependenciesUp'
    BY <1>2, <1>3 DEF IInv, DependenciesUp
  <2> QED
    BY <1>1, <1>0, <2>3, <2>4, <2>5, <2>6, <2>7 DEF IInv
<1> QED
  BY <1>9, <1>10 DEF VisitInProgress, VisitNoCore

\* A visit that forks an operation: its mapping gets a process, and its root is
\* the witness that the visit stops there.
LEMMA ForkInvariant ==
    ASSUME IInv, NEW r \in Mapping, VisitFork(r)
    PROVE  IInv'
<1>1. TypeOK'
  BY VisitType DEF IInv
<1>2. UNCHANGED <<request, phase, running, settled, success>> /\ phase # "done" /\ r \in todo
  BY DEF Visiting, VisitFork
<1>3. /\ Activating' = Activating /\ Goal' = Goal
      /\ Roots(phase)' = Roots(phase)
      /\ \A x : Walk(x)' = Walk(x)
      /\ \A m : Present(m)' = Present(m)
  BY <1>2, SamePhase
<1>4. PICK k \in DOMAIN Walk(r) :
        /\ Attempts(r, k)
        /\ child' = [child EXCEPT ![Walk(r)[k]] =
                        IF Activating THEN "activating" ELSE "deactivating"]
        /\ status' = [PassedOver(r, 1 .. k - 1) EXCEPT ![Walk(r)[k]] = "in_progress"]
  BY DEF VisitFork
<1> DEFINE f == Walk(r)[k]
<1>5. /\ f \in Mapping /\ status[f] = From /\ Present(f) /\ child[f] = "none"
      /\ \A j \in 1 .. k - 1 : Passable(Walk(r)[j])
  BY <1>4, WalkType DEF Attempts, StopsAt, IInv, FlightOK, From
<1>6. status'[f] = "in_progress" /\ child'[f] # "none"
  BY <1>4, <1>5 DEF PassedOver, IInv, TypeOK
<1>7. \A m \in Mapping \ {f} :
        /\ child'[m] = child[m]
        /\ \/ status'[m] = status[m]
           \/ Skippable(m) /\ status'[m] = "deactivated"
  BY <1>4, <1>5, PassedOverEffect DEF PassedOver, IInv, TypeOK
<1>8. \A m \in Mapping : status[m] = Goal => status'[m] = Goal
  BY <1>5, <1>7 DEF From, Goal, Skippable
<1>9. \A x \in Mapping : \A n \in DOMAIN Walk(x) :
        (\A j \in 1 .. n - 1 : status[Walk(x)[j]] = Goal)
            => \A j \in 1 .. n - 1 : status'[Walk(x)[j]] = Goal
  BY <1>8, WalkType, WalkPrefix
<1>10. Roots(phase) \subseteq Mapping
  BY RootsType DEF IInv, TypeOK
<1>11. PassOK' /\ r \in Roots(phase) \ settled
  BY <1>2, <1>3 DEF IInv, PassOK, Visiting, VisitFork
<1>12. FlightOK'
  <2>1. ASSUME NEW m \in Mapping \ {f}, child[m] # "none"
        PROVE  \E x \in Roots(phase) \ settled : \E n \in DOMAIN Walk(x) :
                  Walk(x)[n] = m /\ \A j \in 1 .. n - 1 : status'[Walk(x)[j]] = Goal
    BY <1>9, <1>10, <2>1 DEF IInv, FlightOK
  <2>2. \A m \in Mapping \ {f} : child'[m] # "none" <=> status'[m] = "in_progress"
    BY <1>7 DEF IInv, FlightOK, Skippable
  <2>3. \A j \in 1 .. k - 1 : status'[Walk(r)[j]] = Goal
    <3> SUFFICES ASSUME NEW j \in 1 .. k - 1 PROVE status'[Walk(r)[j]] = Goal
      OBVIOUS
    <3>1. Walk(r)[j] \in Mapping /\ Passable(Walk(r)[j])
      BY <1>5, WalkType, WalkPrefix
    <3>2. Walk(r)[j] # f
      BY <1>4, <3>1 DEF Attempts, StopsAt
    <3> QED
      BY <1>4, <3>1, <3>2 DEF PassedOver, Passable, Skippable, Goal
  <2>4. child'[f] = IF Activating THEN "activating" ELSE "deactivating"
    BY <1>4, <1>5 DEF IInv, TypeOK
  <2> QED
    BY <1>2, <1>3, <1>5, <1>6, <1>7, <1>11, <2>1, <2>2, <2>3, <2>4 DEF IInv, FlightOK
<1>13. VisitedOK'
  BY <1>2, <1>3, <1>8, WalkType DEF IInv, TypeOK, VisitedOK
<1>14. ErrorsOK'
  BY <1>2, <1>3, <1>6, <1>7 DEF IInv, ErrorsOK
<1>15. ViewOK'
  <2> SUFFICES ASSUME ~PartialEffects, ~request.dryRun PROVE ViewOK'
    BY <1>2 DEF ViewOK
  <2>1. child'[f] = IF Activating THEN "activating" ELSE "deactivating"
    BY <1>4, <1>5 DEF IInv, TypeOK
  <2>2. f \in running <=> ~Activating
    BY <1>5 DEF IInv, ViewOK, From
  <2> QED
    BY <1>2, <1>3, <1>6, <1>7, <2>1, <2>2 DEF IInv, ViewOK, Skippable
<1>16. DependenciesUp'
  BY <1>2, <1>3 DEF IInv, DependenciesUp
<1> QED
  BY <1>1, <1>11, <1>12, <1>13, <1>14, <1>15, <1>16 DEF IInv

\* The return of wait() with an ended process.
LEMMA ReapInvariant ==
    ASSUME IInv, NEW m \in Mapping, WaitReaps(m)
    PROVE  IInv'
<1>1. TypeOK'
  BY WaitType DEF IInv, Wait
<1>2. UNCHANGED <<request, phase, todo, running, settled, success>>
  BY DEF WaitReaps
<1>3. /\ Activating' = Activating /\ Goal' = Goal
      /\ Roots(phase)' = Roots(phase)
      /\ \A x : Walk(x)' = Walk(x)
      /\ \A n : Present(n)' = Present(n)
  BY <1>2, SamePhase
<1>4. /\ child[m] \in {"succeeded", "failed"} /\ status[m] = "in_progress"
      /\ child'[m] = "none" /\ status'[m] = Completed(m)
      /\ \A n \in Mapping \ {m} : child'[n] = child[n] /\ status'[n] = status[n]
  BY DEF WaitReaps, Ended, IInv, TypeOK, FlightOK
<1>5. \A n \in Mapping : status[n] = Goal => status'[n] = Goal
  BY <1>4 DEF Goal
<1>6. \A x \in Mapping : \A k \in DOMAIN Walk(x) :
        (\A j \in 1 .. k - 1 : status[Walk(x)[j]] = Goal)
            => \A j \in 1 .. k - 1 : status'[Walk(x)[j]] = Goal
  BY <1>5, WalkType, WalkPrefix
<1>7. Roots(phase) \subseteq Mapping
  BY RootsType DEF IInv, TypeOK
<1>8. PassOK'
  BY <1>2, <1>3 DEF IInv, PassOK
<1>9. FlightOK'
  <2>1. status'[m] # "in_progress"
    BY <1>4 DEF Completed, Goal
  <2>2. ASSUME NEW n \in Mapping \ {m}, child[n] # "none"
        PROVE  \E x \in Roots(phase) \ settled : \E k \in DOMAIN Walk(x) :
                  Walk(x)[k] = n /\ \A j \in 1 .. k - 1 : status'[Walk(x)[j]] = Goal
    BY <1>6, <1>7, <2>2 DEF IInv, FlightOK
  <2> QED
    BY <1>2, <1>3, <1>4, <2>1, <2>2 DEF IInv, FlightOK
<1>10. VisitedOK'
  BY <1>2, <1>3, <1>5, WalkType DEF IInv, TypeOK, VisitedOK
<1>11. ErrorsOK'
  BY <1>2, <1>3, <1>4 DEF IInv, ErrorsOK, FlightOK
<1>12. ViewOK'
  BY <1>2, <1>3, <1>4 DEF IInv, ViewOK, Completed, Goal
<1>13. DependenciesUp'
  BY <1>2, <1>3 DEF IInv, DependenciesUp
<1> QED
  BY <1>1, <1>8, <1>9, <1>10, <1>11, <1>12, <1>13 DEF IInv

\* While an operation runs, its inter-dependencies are settled if it activates,
\* and everything depending on it is settled if it deactivates.
LEMMA NeighboursSettled ==
    ASSUME IInv, NEW m \in Mapping
    PROVE  /\ child[m] = "activating" => \A d \in Deps[m] : status[d] = "activated"
           /\ child[m] = "deactivating" =>
                \A x \in Mapping : m \in Deps[x] => status[x] = "deactivated"
<1> SUFFICES ASSUME child[m] # "none"
             PROVE  /\ child[m] = "activating" => \A d \in Deps[m] : status[d] = "activated"
                    /\ child[m] = "deactivating" =>
                         \A x \in Mapping : m \in Deps[x] => status[x] = "deactivated"
  OBVIOUS
<1>1. PICK r \in Roots(phase) : \E k \in DOMAIN Walk(r) :
        Walk(r)[k] = m /\ \A j \in 1 .. k - 1 : status[Walk(r)[j]] = Goal
  BY DEF IInv, FlightOK
<1>2. PICK k \in DOMAIN Walk(r) :
        Walk(r)[k] = m /\ \A j \in 1 .. k - 1 : status[Walk(r)[j]] = Goal
  BY <1>1
<1>3. r \in Mapping
  BY <1>1, RootsType DEF IInv, TypeOK
<1>4. CASE Activating
  <2>1. \A d \in Deps[m] : \E j \in 1 .. k - 1 : Walk(r)[j] = d
    <3>1. Walk(r) = UpWalk[r]
      BY <1>4 DEF Walk
    <3>2. k \in DOMAIN UpWalk[r] /\ UpWalk[r][k] = m
      BY <1>2, <3>1
    <3>3. \A n \in DOMAIN UpWalk[r] :
            \A d \in Deps[UpWalk[r][n]] : \E j \in 1 .. n - 1 : UpWalk[r][j] = d
      BY <1>3, UpWalkOK
    <3>4. \A d \in Deps[m] : \E j \in 1 .. k - 1 : UpWalk[r][j] = d
      BY <3>2, <3>3
    <3> QED
      BY <3>1, <3>4
  <2>2. \A d \in Deps[m] : status[d] = "activated"
    BY <1>2, <1>4, <2>1 DEF Goal
  <2>3. child[m] # "deactivating"
    BY <1>4 DEF IInv, FlightOK
  <2> QED
    BY <2>2, <2>3
<1>5. CASE ~Activating
  <2>1. \A x \in Mapping : m \in Deps[x] => \E j \in 1 .. k - 1 : Walk(r)[j] = x
    <3>1. Walk(r) = DownWalk[r]
      BY <1>5 DEF Walk
    <3>2. k \in DOMAIN DownWalk[r] /\ DownWalk[r][k] = m
      BY <1>2, <3>1
    <3>3. \A n \in DOMAIN DownWalk[r] :
            \A x \in Mapping : DownWalk[r][n] \in Deps[x] => \E j \in 1 .. n - 1 : DownWalk[r][j] = x
      BY <1>3, DownWalkOK
    <3>4. \A x \in Mapping : m \in Deps[x] => \E j \in 1 .. k - 1 : DownWalk[r][j] = x
      BY <3>2, <3>3
    <3> QED
      BY <3>1, <3>4
  <2>2. \A x \in Mapping : m \in Deps[x] => status[x] = "deactivated"
    BY <1>2, <1>5, <2>1 DEF Goal
  <2>3. child[m] # "activating"
    BY <1>5 DEF IInv, FlightOK
  <2> QED
    BY <2>2, <2>3
<1> QED
  BY <1>4, <1>5

\* A remote operation ends.
LEMMA ChildInvariant ==
    ASSUME IInv, NEW m \in Mapping, Child(m)
    PROVE  IInv'
<1>1. TypeOK'
  BY NextType DEF IInv, Next
<1>2. UNCHANGED <<request, phase, todo, settled, success, status>>
  BY DEF Child, ChildSucceeds, ChildFails, traversal
<1>3. /\ Activating' = Activating /\ Goal' = Goal
      /\ Roots(phase)' = Roots(phase)
      /\ \A x : Walk(x)' = Walk(x)
      /\ \A n : Present(n)' = Present(n)
  BY <1>2, SamePhase
<1>4. /\ child[m] \in {"activating", "deactivating"}
      /\ child'[m] \in {"succeeded", "failed"}
      /\ \A n \in Mapping \ {m} : child'[n] = child[n]
  BY DEF Child, ChildSucceeds, ChildFails, IInv, TypeOK
<1>5. PassOK' /\ VisitedOK' /\ ErrorsOK'
  BY <1>2, <1>3 DEF IInv, PassOK, VisitedOK, ErrorsOK
<1>6. FlightOK'
  BY <1>2, <1>3, <1>4 DEF IInv, FlightOK
<1>7. CASE request.dryRun \/ PartialEffects \/ running' = running
  <2>1. ViewOK'
    <3> SUFFICES ASSUME ~PartialEffects, ~request.dryRun PROVE ViewOK'
      BY <1>2 DEF ViewOK
    <3>1. CASE child[m] = "activating"
      <4>1. Activating /\ m \notin running
        BY <3>1 DEF IInv, FlightOK, ViewOK
      <4>2. child'[m] = "failed"
        BY <1>7, <3>1, <4>1 DEF Child, ChildSucceeds, ChildFails, Effect, IInv, TypeOK
      <4> QED
        BY <1>2, <1>3, <1>4, <1>7, <4>1, <4>2 DEF IInv, ViewOK
    <3>2. CASE child[m] = "deactivating"
      <4>1. ~Activating /\ m \in running
        BY <3>2 DEF IInv, FlightOK, ViewOK
      <4>2. child'[m] = "failed"
        BY <1>7, <3>2, <4>1 DEF Child, ChildSucceeds, ChildFails, Effect, IInv, TypeOK
      <4> QED
        BY <1>2, <1>3, <1>4, <1>7, <4>1, <4>2 DEF IInv, ViewOK
    <3> QED
      BY <1>4, <3>1, <3>2
  <2>2. DependenciesUp'
    <3>1. PartialEffects \/ running' = running
      BY <1>7 DEF Child, ChildSucceeds, ChildFails, Effect
    <3> QED
      BY <1>2, <1>3, <3>1 DEF IInv, DependenciesUp
  <2> QED
    BY <1>1, <1>5, <1>6, <2>1, <2>2 DEF IInv
<1>8. CASE ~request.dryRun /\ ~PartialEffects /\ running' # running
  <2>1. child'[m] = "succeeded" /\ running' = Effect(m)
    BY <1>8 DEF Child, ChildSucceeds, ChildFails, IInv, TypeOK
  <2>2. CASE child[m] = "activating"
    <3>1. running' = running \cup {m} /\ Activating
      BY <1>8, <2>1, <2>2 DEF Effect, IInv, FlightOK
    <3>2. Deps[m] \subseteq running
      BY <1>8, <2>2, NeighboursSettled, ConstantsOK DEF IInv, ViewOK
    <3>3. DependenciesUp'
      BY <1>2, <1>3, <1>8, <3>1, <3>2 DEF IInv, DependenciesUp
    <3>4. ViewOK'
      BY <1>2, <1>3, <1>4, <2>1, <2>2, <3>1 DEF IInv, ViewOK, FlightOK
    <3> QED
      BY <1>1, <1>5, <1>6, <3>3, <3>4 DEF IInv
  <2>3. CASE child[m] = "deactivating"
    <3>1. running' = running \ {m} /\ ~Activating
      BY <1>8, <2>1, <2>3 DEF Effect, IInv, FlightOK
    <3>2. \A x \in running : Present(x) => m \notin Deps[x]
      BY <1>8, <2>3, NeighboursSettled DEF IInv, TypeOK, ViewOK
    <3>3. DependenciesUp'
      BY <1>2, <1>3, <1>8, <3>1, <3>2 DEF IInv, DependenciesUp
    <3>4. ViewOK'
      BY <1>2, <1>3, <1>4, <2>1, <2>3, <3>1 DEF IInv, ViewOK, FlightOK
    <3> QED
      BY <1>1, <1>5, <1>6, <3>3, <3>4 DEF IInv
  <2> QED
    BY <1>4, <2>2, <2>3
<1> QED
  BY <1>7, <1>8

\* When a traversal returns, no process of it is left, and if it succeeded no
\* mapping is marked erroneous.
LEMMA TraversedClean ==
    ASSUME IInv, Traversed
    PROVE  /\ \A m \in Mapping : child[m] = "none" /\ status[m] # "in_progress"
           /\ success => \A m \in Mapping : status[m] # "error"
<1>1. \A m \in Mapping : child[m] = "none" /\ status[m] # "in_progress"
  BY DEF IInv, FlightOK, Traversed
<1>2. ASSUME success, NEW m \in Mapping, status[m] = "error" PROVE FALSE
  <2>1. PICK r \in Roots(phase) : \E k \in DOMAIN Walk(r) : Walk(r)[k] = m
    BY <1>2 DEF IInv, ErrorsOK, Traversed, PassEnds
  <2>2. status[m] = Goal
    BY <1>2, <2>1 DEF IInv, VisitedOK, Traversed, PassEnds
  <2> QED
    BY <1>2, <2>2 DEF Goal
<1> QED
  BY <1>1, <1>2

\* The next traversal starts, with the errors of the last one marked as it says.
LEMMA StartInvariant ==
    ASSUME IInv, Traversed, NEW p \in Phases \ {"done"}, StartTraversal(p),
           \/ UNCHANGED status /\ success
           \/ status' = ErrorsMarked("activated") /\ ~Activating
           \/ status' = ErrorsMarked("deactivated") /\ Activating
    PROVE  TypeOK' => IInv'
<1> SUFFICES ASSUME TypeOK' PROVE IInv'
  OBVIOUS
<1>1. UNCHANGED <<request, child, running>> /\ phase' = p /\ settled' = {}
  BY DEF StartTraversal
<1>2. \A m : Present(m)' = Present(m)
  BY <1>1 DEF Present
<1>3. \A m \in Mapping :
        /\ child'[m] = "none" /\ status'[m] \notin {"in_progress", "error"}
        /\ status'[m] # status[m] =>
             /\ status[m] = "error"
             /\ status'[m] = IF Activating THEN "deactivated" ELSE "activated"
  BY <1>1, TraversedClean DEF ErrorsMarked
<1>4. PassOK'
  BY <1>1 DEF StartTraversal, PassOK, Roots, Obsolete, Added
<1>5. FlightOK' /\ VisitedOK' /\ ErrorsOK'
  BY <1>1, <1>3 DEF FlightOK, VisitedOK, ErrorsOK
<1>6. ViewOK'
  BY <1>1, <1>2, <1>3 DEF IInv, ViewOK, Traversed, PassEnds
<1>7. DependenciesUp'
  BY <1>1, <1>2 DEF IInv, DependenciesUp
<1> QED
  BY <1>4, <1>5, <1>6, <1>7 DEF IInv

\* The transition returns.
LEMMA FinishInvariant ==
    ASSUME IInv, Traversed, NEW o, Finish(o)
    PROVE  TypeOK' => IInv'
<1> SUFFICES ASSUME TypeOK' PROVE IInv'
  OBVIOUS
<1>1. /\ UNCHANGED <<request, child, running, status>> /\ phase' = "done" /\ todo' = {}
  BY DEF Finish, Traversed, PassEnds
<1>2. \A m : Present(m)' = Present(m)
  BY <1>1 DEF Present
<1>3. \A m \in Mapping : child'[m] = "none" /\ status'[m] # "in_progress"
  BY <1>1, TraversedClean
<1>4. PassOK' /\ FlightOK' /\ VisitedOK' /\ ErrorsOK'
  BY <1>1, <1>3 DEF PassOK, FlightOK, VisitedOK, ErrorsOK
<1>5. ViewOK'
  BY <1>1, <1>2, <1>3 DEF IInv, ViewOK
<1>6. DependenciesUp'
  BY <1>1, <1>2 DEF IInv, DependenciesUp
<1> QED
  BY <1>4, <1>5, <1>6 DEF IInv

LEMMA PhaseInvariant == ASSUME IInv, PhaseReturns PROVE IInv'
<1>1. TypeOK'
  BY PhaseType DEF IInv
<1>2. Traversed
  BY DEF PhaseReturns, DeactivationReturns, ActivationReturns, NewMappingsRolledBack,
         RolledBackToOld
<1>3. ASSUME NEW o, Finish(o) PROVE IInv'
  BY <1>1, <1>2, <1>3, FinishInvariant
<1>4. ASSUME RollBackToOld, ~Activating PROVE IInv'
  BY <1>1, <1>2, <1>4, StartInvariant DEF RollBackToOld, Phases
<1>5. ASSUME RollBackNew, Activating PROVE IInv'
  BY <1>1, <1>2, <1>5, StartInvariant DEF RollBackNew, Phases
<1>6. CASE DeactivationReturns
  <2>1. CASE StartTraversal("activate") /\ UNCHANGED status /\ success
    BY <1>1, <1>2, <2>1, StartInvariant DEF Phases
  <2> QED
    BY <1>3, <1>4, <1>6, <2>1 DEF DeactivationReturns, Activating
<1>7. CASE ActivationReturns
  BY <1>3, <1>5, <1>7 DEF ActivationReturns, Activating
<1>8. CASE NewMappingsRolledBack
  BY <1>3, <1>4, <1>8 DEF NewMappingsRolledBack, Activating
<1>9. CASE RolledBackToOld
  BY <1>3, <1>9 DEF RolledBackToOld
<1> QED
  BY <1>6, <1>7, <1>8, <1>9 DEF PhaseReturns

\* Steps that touch neither the mappings nor the phase.
LEMMA FrameInvariant ==
    ASSUME IInv, UNCHANGED <<request, phase, success, status, child, running>>,
           TypeOK', PassOK', settled' \subseteq settled
    PROVE  IInv'
<1>1. /\ Activating' = Activating /\ Goal' = Goal
      /\ Roots(phase)' = Roots(phase)
      /\ \A x : Walk(x)' = Walk(x)
      /\ \A m : Present(m)' = Present(m)
  BY SamePhase
<1>2. FlightOK'
  <2>1. \A m \in Mapping : child[m] # "none" =>
          \E r \in Roots(phase) \ settled' : \E k \in DOMAIN Walk(r) :
             Walk(r)[k] = m /\ \A j \in 1 .. k - 1 : status[Walk(r)[j]] = Goal
    BY DEF IInv, FlightOK
  <2> QED
    BY <1>1, <2>1 DEF IInv, FlightOK
<1>3. VisitedOK'
  BY <1>1 DEF IInv, VisitedOK
<1>4. ErrorsOK' /\ ViewOK' /\ DependenciesUp'
  BY <1>1 DEF IInv, ErrorsOK, ViewOK, DependenciesUp
<1> QED
  BY <1>2, <1>3, <1>4 DEF IInv

LEMMA NextInvariant == IInv /\ [Next]_vars => IInv'
<1> SUFFICES ASSUME IInv, [Next]_vars PROVE IInv'
  OBVIOUS
<1>1. TypeOK'
  BY NextType DEF IInv
<1>2. CASE Visit
  BY <1>2, QuietVisitInvariant, ForkInvariant DEF Visit
<1>3. ASSUME NEW m \in Mapping, WaitReaps(m) PROVE IInv'
  BY <1>3, ReapInvariant
<1>4. CASE WaitNothing \/ Interrupt
  BY <1>1, <1>4, FrameInvariant
     DEF WaitNothing, Interrupt, IInv, PassOK, Roots, Obsolete, Added
<1>5. CASE NextPass
  BY <1>1, <1>5, FrameInvariant DEF NextPass, PassOK, Roots, Obsolete, Added
<1>6. CASE PhaseReturns
  BY <1>6, PhaseInvariant
<1>7. ASSUME NEW m \in Mapping, Child(m) PROVE IInv'
  BY <1>7, ChildInvariant
<1>8. CASE UNCHANGED vars
  BY <1>1, <1>8, FrameInvariant
     DEF vars, traversal, IInv, PassOK, Roots, Obsolete, Added
<1> QED
  BY <1>2, <1>3, <1>4, <1>5, <1>6, <1>7, <1>8 DEF Next, Coordinator, Wait, Returned

LEMMA Invariance == Spec => []IInv
<1>1. Init => IInv
  BY InitInvariant
<1>2. IInv /\ [Next]_vars => IInv'
  BY NextInvariant
<1> QED
  BY <1>1, <1>2, PTL DEF Spec

\* In every deployment, at every instant, every service running on a machine of
\* the new configuration finds its inter-dependencies running.
THEOREM DependenciesNeverBroken == Spec => []DependenciesUp
<1>1. IInv => DependenciesUp
  BY DEF IInv
<1> QED
  BY <1>1, Invariance, PTL

\* No traversal, of whatever phase, returns with a process outstanding.
THEOREM NoProcessOrphaned == Spec => NoOrphan
<1>1. IInv /\ [Next]_vars => [phase' # phase => InFlight = {}]_vars
  <2> SUFFICES ASSUME IInv, Next, phase' # phase PROVE InFlight = {}
    OBVIOUS
  <2>1. PhaseReturns
    BY DEF Next, Coordinator, Visit, Visiting, VisitDone, VisitInProgress, VisitError,
           VisitNoCore, VisitFork, VisitForkFails, Wait, WaitNothing, WaitReaps, NextPass,
           Child, ChildSucceeds, ChildFails, Interrupt, Returned, traversal, vars
  <2>2. Traversed
    BY <2>1 DEF PhaseReturns, DeactivationReturns, ActivationReturns,
                NewMappingsRolledBack, RolledBackToOld
  <2> QED
    BY <2>2, TraversedClean DEF InFlight
<1> QED
  BY <1>1, Invariance, PTL DEF Spec, NoOrphan

-----------------------------------------------------------------------------
(* The invariant of the outcomes: what each phase may and may not change. *)

\* A mapping nothing was done to, or that was undone completely.
Down(m) == status[m] = "deactivated" /\ child[m] = "none"

\* Only a transition that is over has a result.
ResultOK == result # "none" => phase = "done"

\* A dry run changes nothing on the machines.
DryRunOK == request.dryRun => running = request.old

\* Mappings of neither configuration are left alone.
OutsideOK ==
    \A m \in Mapping \ (request.old \cup request.new) : Down(m) /\ m \notin running

\* The new mappings are down while only old ones are concerned, and the
\* obsolete ones are down while new ones are activated.
ApartOK ==
    /\ phase \in {"deactivate", "rollback_old"} => \A m \in Added : Down(m)
    /\ phase = "activate" => \A m \in Obsolete : Down(m)

\* On the way to the new configuration the coordinator's view is right, even
\* when a failed operation may have changed its service.
ForwardOK ==
    (phase \in {"deactivate", "activate"} /\ ~request.dryRun) =>
        \A m \in Mapping :
            /\ status[m] = "activated" => m \in running
            /\ (status[m] = "deactivated" /\ Present(m)) => m \notin running
            /\ child[m] = "succeeded" => (m \in running <=> Activating)

OutcomeInv ==
    /\ IInv
    /\ KeptUntouched /\ ResultOK /\ DryRunOK /\ OutsideOK /\ ApartOK /\ ForwardOK
    /\ SuccessIsReal /\ FailureRestoresOld

\* What a traversal can visit: deactivations never reach the configuration that
\* stays, activations never leave the one that is to run.
LEMMA WalkReach ==
    ASSUME request \in Requests, NEW r \in Roots(phase), NEW k \in DOMAIN Walk(r)
    PROVE  /\ phase = "deactivate" => Walk(r)[k] \notin request.new
           /\ phase = "activate" => Walk(r)[k] \in request.new
           /\ phase = "rollback_new" => Walk(r)[k] \notin request.old
           /\ phase = "rollback_old" => Walk(r)[k] \in request.old
<1>1. /\ request.old \in SUBSET Mapping /\ Closed(request.old)
      /\ request.new \in SUBSET Mapping /\ Closed(request.new)
  BY RequestsOK DEF RequestOK
<1>2. r \in Mapping
  BY RootsType
<1>3. \A S \in SUBSET Mapping : (Closed(S) /\ r \in S) =>
        \A j \in DOMAIN UpWalk[r] : UpWalk[r][j] \in S
  BY <1>2, UpWalkOK
<1>4. \A S \in SUBSET Mapping : (Closed(S) /\ r \notin S) =>
        \A j \in DOMAIN DownWalk[r] : DownWalk[r][j] \notin S
  BY <1>2, DownWalkOK
<1>5. CASE phase = "deactivate"
  BY <1>1, <1>4, <1>5 DEF Roots, Obsolete, Walk, Activating
<1>6. CASE phase = "activate"
  BY <1>1, <1>3, <1>6 DEF Roots, Added, Walk, Activating
<1>7. CASE phase = "rollback_new"
  BY <1>1, <1>4, <1>7 DEF Roots, Added, Walk, Activating
<1>8. CASE phase = "rollback_old"
  BY <1>1, <1>3, <1>8 DEF Roots, Walk, Activating
<1> QED
  BY <1>5, <1>6, <1>7, <1>8

\* What a visit does to a mapping: nothing, unless it is on the walk and in the
\* status the traversal starts from.
LEMMA VisitTouches ==
    ASSUME IInv, NEW r \in Mapping,
           \/ VisitDone(r) \/ VisitInProgress(r) \/ VisitError(r)
           \/ VisitNoCore(r) \/ VisitFork(r) \/ VisitForkFails(r)
    PROVE  /\ r \in Roots(phase)
           /\ \A m \in Mapping :
                \/ status'[m] = status[m] /\ child'[m] = child[m]
                \/ /\ status[m] = From /\ \E k \in DOMAIN Walk(r) : Walk(r)[k] = m
                   /\ \/ status'[m] = "deactivated" /\ Skippable(m) /\ child'[m] = child[m]
                      \/ /\ status'[m] = "in_progress"
                         /\ child'[m] \in {"activating", "deactivating"}
<1>1. r \in Roots(phase)
  BY DEF IInv, PassOK, Visiting, VisitDone, VisitInProgress, VisitError, VisitNoCore,
         VisitFork, VisitForkFails
<1>2. ASSUME NEW P \in SUBSET DOMAIN Walk(r), NEW m \in Mapping,
             PassedOver(r, P)[m] # status[m]
      PROVE  /\ PassedOver(r, P)[m] = "deactivated" /\ Skippable(m) /\ status[m] = From
             /\ \E k \in DOMAIN Walk(r) : Walk(r)[k] = m
  BY <1>2 DEF PassedOver, Skippable, From
<1>3. \A k \in DOMAIN Walk(r) : 1 .. k - 1 \in SUBSET DOMAIN Walk(r)
  BY WalkPrefix
<1>4. CASE VisitFork(r)
  <2>1. PICK k \in DOMAIN Walk(r) :
          /\ Attempts(r, k)
          /\ child' = [child EXCEPT ![Walk(r)[k]] =
                          IF Activating THEN "activating" ELSE "deactivating"]
          /\ status' = [PassedOver(r, 1 .. k - 1) EXCEPT ![Walk(r)[k]] = "in_progress"]
    BY <1>4 DEF VisitFork
  <2> DEFINE f == Walk(r)[k]
  <2>2. f \in Mapping /\ status[f] = From
    BY <2>1, WalkType DEF Attempts
  <2>3. child'[f] \in {"activating", "deactivating"} /\ status'[f] = "in_progress"
    BY <2>1, <2>2 DEF IInv, TypeOK, PassedOver
  <2>4. \A m \in Mapping \ {f} :
          child'[m] = child[m] /\ status'[m] = PassedOver(r, 1 .. k - 1)[m]
    BY <2>1 DEF IInv, TypeOK, PassedOver
  <2>5. \E j \in DOMAIN Walk(r) : Walk(r)[j] = f
    OBVIOUS
  <2>6. ASSUME NEW m \in Mapping \ {f}, status'[m] # status[m]
        PROVE  /\ status'[m] = "deactivated" /\ Skippable(m) /\ status[m] = From
               /\ \E j \in DOMAIN Walk(r) : Walk(r)[j] = m
    BY <1>2, <1>3, <2>4, <2>6
  <2> HIDE DEF f
  <2> QED
    BY <1>1, <2>2, <2>3, <2>4, <2>5, <2>6
<1>5. CASE ~VisitFork(r)
  <2>1. PICK P \in SUBSET DOMAIN Walk(r) : status' = PassedOver(r, P)
    BY <1>3, <1>5 DEF VisitDone, VisitInProgress, VisitError, VisitNoCore, VisitForkFails
  <2>2. child' = child
    BY <1>5 DEF VisitDone, VisitInProgress, VisitError, VisitNoCore, VisitForkFails
  <2> QED
    BY <1>1, <1>2, <2>1, <2>2
<1> QED
  BY <1>4, <1>5

\* A visit goes past or operates on what its phase is about, and nothing else.
LEMMA VisitOutcome ==
    ASSUME OutcomeInv, NEW r \in Mapping,
           \/ VisitDone(r) \/ VisitInProgress(r) \/ VisitError(r)
           \/ VisitNoCore(r) \/ VisitFork(r) \/ VisitForkFails(r),
           IInv'
    PROVE  OutcomeInv'
<1>1. UNCHANGED <<request, phase, running, result>> /\ phase # "done"
  BY DEF Visiting, VisitDone, VisitInProgress, VisitError, VisitNoCore, VisitFork,
         VisitForkFails
<1>2. /\ Activating' = Activating /\ Added' = Added /\ Obsolete' = Obsolete
      /\ \A m : Present(m)' = Present(m)
  BY <1>1 DEF Activating, Added, Obsolete, Present
<1>3. RequestOK(request) /\ request \in Requests
  BY RequestsOK DEF OutcomeInv, IInv, TypeOK
<1>4. phase \in Phases
  BY DEF OutcomeInv, IInv, TypeOK
<1>5. ASSUME NEW m \in Mapping
      PROVE  \/ status'[m] = status[m] /\ child'[m] = child[m]
             \/ /\ status[m] = From
                /\ \/ phase = "deactivate" /\ m \notin request.new
                   \/ phase = "activate" /\ m \in request.new
                   \/ phase = "rollback_new" /\ m \notin request.old
                   \/ phase = "rollback_old" /\ m \in request.old
                /\ \/ status'[m] = "deactivated" /\ Skippable(m) /\ child'[m] = child[m]
                   \/ /\ status'[m] = "in_progress"
                      /\ child'[m] \in {"activating", "deactivating"}
  BY <1>1, <1>3, <1>4, VisitTouches, WalkReach DEF OutcomeInv, Phases
<1>6. KeptUntouched'
  BY <1>1, <1>3, <1>5 DEF OutcomeInv, KeptUntouched, RequestOK, From, Activating
<1>7. ResultOK' /\ DryRunOK'
  BY <1>1 DEF OutcomeInv, ResultOK, DryRunOK
<1>8. OutsideOK'
  BY <1>1, <1>5 DEF OutcomeInv, OutsideOK, Down, From, Activating
<1>9. ApartOK'
  BY <1>1, <1>2, <1>3, <1>5
     DEF OutcomeInv, ApartOK, Down, From, Activating, Added, Obsolete, RequestOK
<1>10. ForwardOK'
  BY <1>1, <1>2, <1>5 DEF OutcomeInv, ForwardOK, Skippable
<1>11. SuccessIsReal' /\ FailureRestoresOld'
  BY <1>1 DEF OutcomeInv, ResultOK, SuccessIsReal, FailureRestoresOld
<1> QED
  BY <1>6, <1>7, <1>8, <1>9, <1>10, <1>11 DEF OutcomeInv

\* The operations and their completion only concern mappings with a process.
LEMMA ProcessOutcome ==
    ASSUME OutcomeInv, NEW x \in Mapping, WaitReaps(x) \/ Child(x), IInv'
    PROVE  OutcomeInv'
<1>1. UNCHANGED <<request, phase, result>>
  BY DEF WaitReaps, Child, ChildSucceeds, ChildFails, traversal
<1>2. /\ Activating' = Activating /\ Added' = Added /\ Obsolete' = Obsolete
      /\ \A m : Present(m)' = Present(m)
  BY <1>1 DEF Activating, Added, Obsolete, Present
<1>3. child[x] # "none" /\ status[x] = "in_progress" /\ phase # "done"
  BY DEF OutcomeInv, IInv, FlightOK, WaitReaps, Ended, Child, ChildSucceeds, ChildFails
<1>4. \A m \in Mapping \ {x} :
        /\ status'[m] = status[m] /\ child'[m] = child[m]
        /\ m \in running' <=> m \in running
  BY DEF WaitReaps, Child, ChildSucceeds, ChildFails, Effect, OutcomeInv, IInv, TypeOK
<1>5. \A m \in Mapping : Down(m) => m # x
  BY <1>3 DEF Down
<1>6. x \notin request.old \cap request.new
  BY <1>3 DEF OutcomeInv, KeptUntouched
<1>7. KeptUntouched'
  <2>1. request.old \subseteq Mapping
    BY RequestsOK DEF OutcomeInv, IInv, TypeOK, RequestOK
  <2> QED
    BY <1>1, <1>4, <1>6, <2>1 DEF OutcomeInv, KeptUntouched
<1>8. ResultOK'
  BY <1>1 DEF OutcomeInv, ResultOK
<1>9. DryRunOK'
  BY <1>1 DEF OutcomeInv, DryRunOK, WaitReaps, Child, ChildSucceeds, ChildFails, Effect
<1>10. OutsideOK'
  BY <1>1, <1>4, <1>5 DEF OutcomeInv, OutsideOK, Down
<1>11. ApartOK'
  <2>1. Added \subseteq Mapping /\ Obsolete \subseteq Mapping
    BY RequestsOK DEF OutcomeInv, IInv, TypeOK, RequestOK, Added, Obsolete
  <2> QED
    BY <1>1, <1>2, <1>4, <1>5, <2>1 DEF OutcomeInv, ApartOK, Down
<1>12. ForwardOK'
  <2> SUFFICES ASSUME phase \in {"deactivate", "activate"}, ~request.dryRun
               PROVE  /\ status'[x] = "activated" => x \in running'
                      /\ (status'[x] = "deactivated" /\ Present(x)) => x \notin running'
                      /\ child'[x] = "succeeded" => (x \in running' <=> Activating)
    BY <1>1, <1>2, <1>4 DEF OutcomeInv, ForwardOK
  <2>1. CASE WaitReaps(x)
    BY <1>3, <2>1
       DEF WaitReaps, Ended, Completed, Goal, OutcomeInv, IInv, TypeOK, ForwardOK
  <2>2. CASE Child(x)
    <3>1. status'[x] = "in_progress"
      BY <1>3, <2>2 DEF Child, ChildSucceeds, ChildFails
    <3>2. child'[x] = "succeeded" => (x \in running' <=> Activating)
      BY <2>2 DEF Child, ChildSucceeds, ChildFails, Effect, OutcomeInv, IInv, TypeOK, FlightOK
    <3> QED
      BY <3>1, <3>2
  <2> QED
    BY <2>1, <2>2
<1>13. SuccessIsReal' /\ FailureRestoresOld'
  BY <1>1, <1>3 DEF OutcomeInv, ResultOK, SuccessIsReal, FailureRestoresOld
<1> QED
  BY <1>7, <1>8, <1>9, <1>10, <1>11, <1>12, <1>13 DEF OutcomeInv

\* Steps that touch neither mappings, services nor phase.
LEMMA FrameOutcome ==
    ASSUME OutcomeInv, UNCHANGED <<request, phase, status, child, running, result>>, IInv'
    PROVE  OutcomeInv'
<1>1. /\ Activating' = Activating /\ Added' = Added /\ Obsolete' = Obsolete
      /\ \A m : Present(m)' = Present(m)
  BY DEF Activating, Added, Obsolete, Present
<1> QED
  BY <1>1 DEF OutcomeInv, KeptUntouched, ResultOK, DryRunOK, OutsideOK, ApartOK, ForwardOK,
              Down, SuccessIsReal, FailureRestoresOld

\* A traversal that succeeded has settled its roots.
LEMMA RootsSettled ==
    ASSUME IInv, Traversed, success
    PROVE  \A m \in Roots(phase) : status[m] = Goal
<1> SUFFICES ASSUME NEW m \in Roots(phase) PROVE status[m] = Goal
  OBVIOUS
<1>1. m \in Mapping
  BY RootsType DEF IInv, TypeOK
<1>2. PICK k \in DOMAIN Walk(m) : Walk(m)[k] = m
  BY <1>1, UpWalkOK, DownWalkOK DEF Walk
<1> QED
  BY <1>2 DEF IInv, VisitedOK, Traversed, PassEnds

\* The start of the next traversal.
LEMMA StartOutcome ==
    ASSUME OutcomeInv, phase # "done", NEW p \in Phases \ {"done"}, StartTraversal(p),
           \/ status' = status
           \/ \E s \in Statuses : status' = ErrorsMarked(s),
           ApartOK', ForwardOK', IInv'
    PROVE  OutcomeInv'
<1>1. UNCHANGED <<request, child, running, result>> /\ result = "none" /\ phase' # "done"
  BY DEF StartTraversal, OutcomeInv, ResultOK
<1>2. \A m \in Mapping : status[m] # "error" => status'[m] = status[m]
  BY DEF ErrorsMarked
<1>3. request.old \subseteq Mapping
  BY RequestsOK DEF OutcomeInv, IInv, TypeOK, RequestOK
<1>4. KeptUntouched'
  BY <1>1, <1>2, <1>3 DEF OutcomeInv, KeptUntouched
<1>5. OutsideOK'
  BY <1>1, <1>2 DEF OutcomeInv, OutsideOK, Down
<1>6. ResultOK' /\ DryRunOK' /\ SuccessIsReal' /\ FailureRestoresOld'
  BY <1>1 DEF OutcomeInv, ResultOK, DryRunOK, SuccessIsReal, FailureRestoresOld
<1> QED
  BY <1>4, <1>5, <1>6 DEF OutcomeInv

\* The return of the transition.
LEMMA FinishOutcome ==
    ASSUME OutcomeInv, NEW o, Finish(o), SuccessIsReal', FailureRestoresOld', IInv'
    PROVE  OutcomeInv'
<1>1. UNCHANGED <<request, status, child, running>> /\ phase' = "done"
  BY DEF Finish
<1> QED
  BY <1>1 DEF OutcomeInv, KeptUntouched, ResultOK, DryRunOK, OutsideOK, ApartOK, ForwardOK,
              Down

\* The activation of all new mappings leaves the new configuration running.
LEMMA SuccessOutcome ==
    ASSUME OutcomeInv, Traversed, phase = "activate", success, Finish("success")
    PROVE  SuccessIsReal' /\ FailureRestoresOld'
<1> SUFFICES ASSUME ~request.dryRun
             PROVE  /\ request.new \subseteq running
                    /\ \A m \in running \ request.new : m \in request.old /\ ~Present(m)
  BY DEF Finish, SuccessIsReal, FailureRestoresOld, Present
<1>1. RequestOK(request)
  BY RequestsOK DEF OutcomeInv, IInv, TypeOK
<1>2. ASSUME NEW m \in request.new PROVE m \in running
  <2>1. CASE m \in request.old
    BY <2>1 DEF OutcomeInv, KeptUntouched
  <2>2. CASE m \in Added
    BY <1>1, <2>2, RootsSettled
       DEF OutcomeInv, ForwardOK, RequestOK, Roots, Goal, Activating, Added
  <2> QED
    BY <2>1, <2>2 DEF Added
<1>3. ASSUME NEW m \in running \ request.new PROVE m \in request.old /\ ~Present(m)
  <2>1. m \in Mapping
    BY DEF OutcomeInv, IInv, TypeOK
  <2>2. m \in request.old
    BY <2>1 DEF OutcomeInv, OutsideOK
  <2>3. status[m] = "deactivated"
    BY <2>2 DEF OutcomeInv, ApartOK, Obsolete, Down
  <2> QED
    BY <2>1, <2>2, <2>3 DEF OutcomeInv, ForwardOK
<1> QED
  BY <1>2, <1>3

\* A completed rollback leaves the old configuration running.
LEMMA RollbackOutcome ==
    ASSUME OutcomeInv, Traversed, success, Finish("failed"),
           \/ phase = "rollback_old"
           \/ phase = "rollback_new" /\ ~request.upgrade
    PROVE  SuccessIsReal' /\ FailureRestoresOld'
<1> SUFFICES ASSUME ~PartialEffects, ~request.dryRun PROVE running = request.old
  BY DEF Finish, SuccessIsReal, FailureRestoresOld, OutcomeInv, DryRunOK
<1>1. RequestOK(request) /\ running \subseteq Mapping
  BY RequestsOK DEF OutcomeInv, IInv, TypeOK
<1>2. ViewOK
  BY DEF OutcomeInv, IInv
<1>3. ASSUME NEW m \in request.old PROVE m \in running
  <2>1. CASE phase = "rollback_old"
    <3>1. m \in Mapping /\ status[m] = "activated"
      BY <1>1, <2>1, RootsSettled DEF OutcomeInv, RequestOK, Roots, Goal, Activating
    <3> QED
      BY <1>2, <3>1 DEF ViewOK
  <2>2. CASE phase = "rollback_new" /\ ~request.upgrade
    BY <1>1, <2>2 DEF RequestOK
  <2> QED
    BY <2>1, <2>2
<1>4. ASSUME NEW m \in running PROVE m \in request.old
  <2>1. m \in request.old \cup request.new
    BY <1>1 DEF OutcomeInv, OutsideOK
  <2>2. ASSUME m \in Added PROVE FALSE
    <3>1. status[m] = "deactivated"
      <4>1. CASE phase = "rollback_old"
        BY <2>2, <4>1 DEF OutcomeInv, ApartOK, Down
      <4>2. CASE phase = "rollback_new"
        BY <2>2, <4>2, RootsSettled DEF OutcomeInv, Roots, Goal, Activating
      <4> QED
        BY <4>1, <4>2
    <3>2. Present(m)
      BY <1>1, <2>2 DEF RequestOK, Present, Added
    <3> QED
      BY <1>1, <1>2, <3>1, <3>2 DEF ViewOK
  <2> QED
    BY <2>1, <2>2 DEF Added
<1> QED
  BY <1>3, <1>4

LEMMA PhaseOutcome == ASSUME OutcomeInv, PhaseReturns, IInv' PROVE OutcomeInv'
<1>1. Traversed /\ phase # "done"
  BY DEF PhaseReturns, DeactivationReturns, ActivationReturns, NewMappingsRolledBack,
         RolledBackToOld, Traversed, PassEnds
<1>2. \A m \in Mapping : child[m] = "none"
  BY <1>1, TraversedClean DEF OutcomeInv
<1>3. Added \subseteq Mapping /\ Obsolete \subseteq Mapping
  BY RequestsOK DEF OutcomeInv, IInv, TypeOK, RequestOK, Added, Obsolete
<1>4. ASSUME NEW o, Finish(o), ~request.rollback, o # "success" PROVE OutcomeInv'
  BY <1>4, FinishOutcome DEF Finish, SuccessIsReal, FailureRestoresOld
<1>5. ASSUME NEW o \in {"new_rollback_failed", "obsolete_rollback_failed"}, Finish(o)
      PROVE  OutcomeInv'
  BY <1>5, FinishOutcome DEF Finish, SuccessIsReal, FailureRestoresOld
<1>6. ASSUME RollBackToOld, \A m \in Added : Down(m) PROVE OutcomeInv'
  <2>1. ApartOK'
    BY <1>3, <1>6 DEF RollBackToOld, StartTraversal, ErrorsMarked, ApartOK, Down, Added
  <2>2. ForwardOK'
    BY <1>6 DEF RollBackToOld, StartTraversal, ForwardOK
  <2> QED
    BY <1>1, <1>6, <2>1, <2>2, StartOutcome DEF RollBackToOld, Phases, Statuses
<1>7. CASE DeactivationReturns
  <2>1. \A m \in Added : Down(m)
    BY <1>7 DEF DeactivationReturns, OutcomeInv, ApartOK
  <2>2. ASSUME success, StartTraversal("activate"), UNCHANGED status PROVE OutcomeInv'
    <3>1. \A m \in Obsolete : Down(m)
      BY <1>1, <1>2, <1>3, <1>7, <2>2, RootsSettled
         DEF DeactivationReturns, OutcomeInv, Down, Roots, Goal, Activating
    <3>2. ApartOK'
      BY <2>2, <3>1 DEF StartTraversal, ApartOK, Down, Added, Obsolete
    <3>3. ForwardOK'
      BY <1>2, <1>7, <2>2
         DEF DeactivationReturns, StartTraversal, OutcomeInv, ForwardOK, Present
    <3> QED
      BY <1>1, <2>2, <3>2, <3>3, StartOutcome DEF Phases
  <2> QED
    BY <1>4, <1>6, <1>7, <2>1, <2>2 DEF DeactivationReturns
<1>8. CASE ActivationReturns
  <2>1. ASSUME RollBackNew PROVE OutcomeInv'
    <3>1. ApartOK' /\ ForwardOK'
      BY <2>1 DEF RollBackNew, StartTraversal, ApartOK, ForwardOK
    <3> QED
      BY <1>1, <2>1, <3>1, StartOutcome DEF RollBackNew, Phases, Statuses
  <2>2. ASSUME success, Finish("success") PROVE OutcomeInv'
    BY <1>1, <1>8, <2>2, SuccessOutcome, FinishOutcome DEF ActivationReturns
  <2> QED
    BY <1>4, <1>8, <2>1, <2>2 DEF ActivationReturns
<1>9. CASE NewMappingsRolledBack
  <2>1. ASSUME success PROVE \A m \in Added : Down(m)
    BY <1>1, <1>2, <1>3, <1>9, <2>1, RootsSettled
       DEF NewMappingsRolledBack, OutcomeInv, Down, Roots, Goal, Activating
  <2>2. ASSUME success, ~request.upgrade, Finish("failed") PROVE OutcomeInv'
    BY <1>1, <1>9, <2>2, RollbackOutcome, FinishOutcome DEF NewMappingsRolledBack
  <2> QED
    BY <1>5, <1>6, <1>9, <2>1, <2>2 DEF NewMappingsRolledBack
<1>10. CASE RolledBackToOld
  <2>1. ASSUME success, Finish("failed") PROVE OutcomeInv'
    BY <1>1, <1>10, <2>1, RollbackOutcome, FinishOutcome DEF RolledBackToOld
  <2> QED
    BY <1>5, <1>10, <2>1 DEF RolledBackToOld
<1> QED
  BY <1>7, <1>8, <1>9, <1>10 DEF PhaseReturns

LEMMA InitOutcome == Init => OutcomeInv
<1> SUFFICES ASSUME Init PROVE OutcomeInv
  OBVIOUS
<1>1. IInv
  BY InitInvariant
<1>2. RequestOK(request)
  BY <1>1, RequestsOK DEF IInv, TypeOK
<1>3. KeptUntouched /\ OutsideOK /\ ApartOK
  BY <1>2 DEF Init, RequestOK, KeptUntouched, OutsideOK, ApartOK, Down, Added, Obsolete
<1>4. ResultOK /\ DryRunOK /\ SuccessIsReal /\ FailureRestoresOld
  BY DEF Init, ResultOK, DryRunOK, SuccessIsReal, FailureRestoresOld
<1>5. ForwardOK
  BY DEF Init, ForwardOK
<1> QED
  BY <1>1, <1>3, <1>4, <1>5 DEF OutcomeInv

LEMMA NextOutcome == OutcomeInv /\ [Next]_vars => OutcomeInv'
<1> SUFFICES ASSUME OutcomeInv, [Next]_vars PROVE OutcomeInv'
  OBVIOUS
<1>1. IInv'
  BY NextInvariant DEF OutcomeInv
<1>2. CASE Visit
  BY <1>1, <1>2, VisitOutcome DEF Visit
<1>3. ASSUME NEW m \in Mapping, WaitReaps(m) \/ Child(m) PROVE OutcomeInv'
  BY <1>1, <1>3, ProcessOutcome
<1>4. CASE WaitNothing \/ NextPass \/ Interrupt \/ UNCHANGED vars
  BY <1>1, <1>4, FrameOutcome DEF WaitNothing, NextPass, Interrupt, vars, traversal
<1>5. CASE PhaseReturns
  BY <1>1, <1>5, PhaseOutcome
<1> QED
  BY <1>2, <1>3, <1>4, <1>5 DEF Next, Coordinator, Wait, Returned

LEMMA OutcomeInvariance == Spec => []OutcomeInv
<1>1. Init => OutcomeInv
  BY InitOutcome
<1>2. OutcomeInv /\ [Next]_vars => OutcomeInv'
  BY NextOutcome
<1> QED
  BY <1>1, <1>2, PTL DEF Spec

\* What is in both configurations is left alone by every phase and every
\* rollback, whatever fails.
THEOREM KeptNeverTouched == Spec => []KeptUntouched
<1>1. OutcomeInv => KeptUntouched
  BY DEF OutcomeInv
<1> QED
  BY <1>1, OutcomeInvariance, PTL

\* A transition that reports success has brought the system to exactly the new
\* configuration, even when operations that failed had an effect.
THEOREM ReportedSuccessIsReal == Spec => []SuccessIsReal
<1>1. OutcomeInv => SuccessIsReal
  BY DEF OutcomeInv
<1> QED
  BY <1>1, OutcomeInvariance, PTL

\* A transition that reports a failure, and no failed rollback, has brought the
\* system back to the old configuration when failed operations do nothing.
THEOREM RollbackRestores == Spec => []FailureRestoresOld
<1>1. OutcomeInv => FailureRestoresOld
  BY DEF OutcomeInv
<1> QED
  BY <1>1, OutcomeInvariance, PTL

-----------------------------------------------------------------------------
(* The CPU cores. *)

\* The processes that run on a machine, or ran and are not reaped yet.
OnMachine(t) == {m \in InFlight : TargetOf[m] = t}

\* Every process holds a core; the cores a failed fork() lost are held by none.
CoresHeld ==
    \A t \in Machine :
        /\ IsFiniteSet(OnMachine(t))
        /\ cores[t] + Cardinality(OnMachine(t)) <= Cores[t]

\* No core is lost when fork() never fails.
CoresReturned ==
    ~ForkMayFail => \A t \in Machine : cores[t] + Cardinality(OnMachine(t)) = Cores[t]

CoresInv == IInv /\ CoresHeld /\ CoresReturned

\* A process more on a machine, and a core less, or the other way around.
LEMMA CoreTaken ==
    ASSUME IInv, CoresHeld, NEW f \in Mapping, child[f] = "none", TargetOf[f] \in Machine,
           \A m \in Mapping \ {f} : child'[m] = child[m], child'[f] # "none"
    PROVE  /\ \A t \in Machine \ {TargetOf[f]} : OnMachine(t)' = OnMachine(t)
           /\ IsFiniteSet(OnMachine(TargetOf[f])')
           /\ Cardinality(OnMachine(TargetOf[f])') = Cardinality(OnMachine(TargetOf[f])) + 1
<1>1. \A t \in Machine \ {TargetOf[f]} : OnMachine(t)' = OnMachine(t)
  BY DEF OnMachine, InFlight
<1>2. OnMachine(TargetOf[f])' = OnMachine(TargetOf[f]) \cup {f}
  BY DEF OnMachine, InFlight
<1>3. f \notin OnMachine(TargetOf[f]) /\ IsFiniteSet(OnMachine(TargetOf[f]))
  BY DEF OnMachine, InFlight, CoresHeld
<1> QED
  BY <1>1, <1>2, <1>3, FS_AddElement

LEMMA CoreGivenBack ==
    ASSUME IInv, CoresHeld, NEW f \in Mapping, child[f] # "none", TargetOf[f] \in Machine,
           \A m \in Mapping \ {f} : child'[m] = child[m], child'[f] = "none"
    PROVE  /\ \A t \in Machine \ {TargetOf[f]} : OnMachine(t)' = OnMachine(t)
           /\ IsFiniteSet(OnMachine(TargetOf[f])')
           /\ Cardinality(OnMachine(TargetOf[f])') = Cardinality(OnMachine(TargetOf[f])) - 1
<1>1. \A t \in Machine \ {TargetOf[f]} : OnMachine(t)' = OnMachine(t)
  BY DEF OnMachine, InFlight
<1>2. OnMachine(TargetOf[f])' = OnMachine(TargetOf[f]) \ {f}
  BY DEF OnMachine, InFlight
<1>3. f \in OnMachine(TargetOf[f]) /\ IsFiniteSet(OnMachine(TargetOf[f]))
  BY DEF OnMachine, InFlight, CoresHeld
<1> QED
  BY <1>1, <1>2, <1>3, FS_RemoveElement

LEMMA InitCores == Init => CoresInv
<1> SUFFICES ASSUME Init PROVE CoresInv
  OBVIOUS
<1>1. \A t : OnMachine(t) = {}
  BY DEF Init, OnMachine, InFlight
<1>2. IsFiniteSet({}) /\ Cardinality({}) = 0
  BY FS_EmptySet
<1>3. \A t \in Machine : Cores[t] \in Nat /\ cores[t] = Cores[t]
  BY ConstantsOK DEF Init
<1>4. CoresHeld /\ CoresReturned
  BY <1>1, <1>2, <1>3 DEF CoresHeld, CoresReturned
<1> QED
  BY <1>4, InitInvariant DEF CoresInv

LEMMA NextCores == CoresInv /\ [Next]_vars => CoresInv'
<1> SUFFICES ASSUME CoresInv, [Next]_vars PROVE CoresInv'
  OBVIOUS
<1>1. IInv'
  BY NextInvariant DEF CoresInv
<1>2. /\ child \in [Mapping -> Children] /\ cores \in [Machine -> Nat]
      /\ \A m \in Mapping : TargetOf[m] \in Machine
      /\ \A t \in Machine : Cores[t] \in Nat
  BY ConstantsOK DEF CoresInv, IInv, TypeOK
<1>3. \A t \in Machine : IsFiniteSet(OnMachine(t)) /\ Cardinality(OnMachine(t)) \in Nat
  BY FS_CardinalityType DEF CoresInv, CoresHeld
<1>4. ASSUME UNCHANGED cores, \A t \in Machine : OnMachine(t)' = OnMachine(t)
      PROVE  CoresInv'
  BY <1>1, <1>4 DEF CoresInv, CoresHeld, CoresReturned
<1>5. ASSUME NEW r \in Mapping, VisitFork(r) PROVE CoresInv'
  <2>1. PICK k \in DOMAIN Walk(r) :
          /\ Attempts(r, k) /\ cores[TargetOf[Walk(r)[k]]] > 0
          /\ cores' = [cores EXCEPT ![TargetOf[Walk(r)[k]]] = @ - 1]
          /\ child' = [child EXCEPT ![Walk(r)[k]] =
                          IF Activating THEN "activating" ELSE "deactivating"]
    BY <1>5 DEF VisitFork
  <2>2. PICK f \in Mapping : f = Walk(r)[k]
    BY <2>1, WalkType
  <2>3. child[f] = "none" /\ TargetOf[f] \in Machine
    BY <1>2, <2>1, <2>2 DEF Attempts, CoresInv, IInv, FlightOK, From
  <2>4. child'[f] # "none" /\ \A m \in Mapping \ {f} : child'[m] = child[m]
    BY <1>2, <2>1, <2>2
  <2>5. /\ cores'[TargetOf[f]] = cores[TargetOf[f]] - 1
        /\ \A t \in Machine \ {TargetOf[f]} : cores'[t] = cores[t]
    BY <1>2, <2>1, <2>2, <2>3
  <2>6. /\ \A t \in Machine \ {TargetOf[f]} : OnMachine(t)' = OnMachine(t)
        /\ IsFiniteSet(OnMachine(TargetOf[f])')
        /\ Cardinality(OnMachine(TargetOf[f])') = Cardinality(OnMachine(TargetOf[f])) + 1
    BY <2>3, <2>4, CoreTaken DEF CoresInv
  <2>7. ASSUME NEW t \in Machine
        PROVE  /\ IsFiniteSet(OnMachine(t)')
               /\ cores'[t] + Cardinality(OnMachine(t)') = cores[t] + Cardinality(OnMachine(t))
    <3>1. CASE t = TargetOf[f]
      <4>1. cores[t] \in Nat /\ Cardinality(OnMachine(t)) \in Nat
        BY <1>2, <1>3
      <4> QED
        BY <2>5, <2>6, <3>1, <4>1
    <3>2. CASE t # TargetOf[f]
      BY <1>3, <2>5, <2>6, <3>2
    <3> QED
      BY <3>1, <3>2
  <2> QED
    BY <1>1, <2>7 DEF CoresInv, CoresHeld, CoresReturned
<1>6. ASSUME NEW r \in Mapping, VisitForkFails(r) PROVE CoresInv'
  <2>1. PICK k \in DOMAIN Walk(r) :
          /\ cores[TargetOf[Walk(r)[k]]] > 0
          /\ cores' = [cores EXCEPT ![TargetOf[Walk(r)[k]]] = @ - 1]
    BY <1>6 DEF VisitForkFails
  <2>2. \A t \in Machine : cores'[t] <= cores[t] /\ OnMachine(t)' = OnMachine(t)
    BY <1>2, <1>6, <2>1, WalkType DEF VisitForkFails, OnMachine, InFlight
  <2>3. ForkMayFail /\ \A t \in Machine : cores'[t] \in Nat
    BY <1>1, <1>6 DEF VisitForkFails, IInv, TypeOK
  <2> QED
    BY <1>1, <1>2, <1>3, <2>2, <2>3 DEF CoresInv, CoresHeld, CoresReturned
<1>7. ASSUME NEW m \in Mapping, WaitReaps(m) PROVE CoresInv'
  <2>1. child[m] # "none" /\ child'[m] = "none" /\ \A n \in Mapping \ {m} : child'[n] = child[n]
    BY <1>2, <1>7 DEF WaitReaps, Ended
  <2>2. /\ cores'[TargetOf[m]] = cores[TargetOf[m]] + 1
        /\ \A t \in Machine \ {TargetOf[m]} : cores'[t] = cores[t]
    BY <1>2, <1>7 DEF WaitReaps
  <2>3. /\ \A t \in Machine \ {TargetOf[m]} : OnMachine(t)' = OnMachine(t)
        /\ IsFiniteSet(OnMachine(TargetOf[m])')
        /\ Cardinality(OnMachine(TargetOf[m])') = Cardinality(OnMachine(TargetOf[m])) - 1
    BY <1>2, <2>1, CoreGivenBack DEF CoresInv
  <2> QED
    BY <1>1, <1>2, <1>3, <2>2, <2>3 DEF CoresInv, CoresHeld, CoresReturned
<1>8. ASSUME NEW m \in Mapping, Child(m) PROVE CoresInv'
  <2>1. \A n \in Mapping : child'[n] = "none" <=> child[n] = "none"
    BY <1>2, <1>8 DEF Child, ChildSucceeds, ChildFails
  <2>2. UNCHANGED cores /\ \A t \in Machine : OnMachine(t)' = OnMachine(t)
    BY <1>8, <2>1 DEF Child, ChildSucceeds, ChildFails, OnMachine, InFlight
  <2> QED
    BY <1>4, <2>2
<1>9. ASSUME UNCHANGED <<cores, child>> PROVE CoresInv'
  BY <1>4, <1>9 DEF OnMachine, InFlight
<1>10. CASE PhaseReturns
  BY <1>9, <1>10
     DEF PhaseReturns, DeactivationReturns, ActivationReturns, NewMappingsRolledBack,
         RolledBackToOld, RollBackToOld, RollBackNew, StartTraversal, Finish
<1>11. CASE WaitNothing \/ NextPass \/ Interrupt \/ UNCHANGED vars
  BY <1>9, <1>11 DEF WaitNothing, NextPass, Interrupt, vars
<1>12. ASSUME NEW r \in Mapping,
              VisitDone(r) \/ VisitInProgress(r) \/ VisitError(r) \/ VisitNoCore(r)
       PROVE  CoresInv'
  BY <1>9, <1>12 DEF VisitDone, VisitInProgress, VisitError, VisitNoCore
<1> QED
  BY <1>5, <1>6, <1>7, <1>8, <1>10, <1>11, <1>12
     DEF Next, Coordinator, Visit, Wait, Returned

LEMMA CoresInvariance == Spec => []CoresInv
<1>1. Init => CoresInv
  BY InitCores
<1>2. CoresInv /\ [Next]_vars => CoresInv'
  BY NextCores
<1> QED
  BY <1>1, <1>2, PTL DEF Spec

\* No core is lost or counted twice, when fork() does not fail: it is available
\* or in use by a process that is not reaped yet.
THEOREM EveryCoreAccounted ==
    ASSUME ~ForkMayFail
    PROVE  Spec => []CoresAccounted
<1>1. CoresInv => CoresAccounted
  BY RequestsOK
     DEF CoresInv, CoresReturned, CoresAccounted, OnMachine, IInv, TypeOK, RequestOK
<1> QED
  BY <1>1, CoresInvariance, PTL

\* Whatever fails, and whatever forks fail: there are never more operations at
\* a time on a machine than it has cores.
NeverOversubscribed ==
    \A t \in Machine : Cardinality({m \in InFlight : TargetOf[m] = t}) <= Cores[t]

THEOREM CoresLimitProcesses == Spec => []NeverOversubscribed
<1>1. CoresInv => NeverOversubscribed
  <2> SUFFICES ASSUME CoresInv, NEW t \in Machine PROVE Cardinality(OnMachine(t)) <= Cores[t]
    BY DEF NeverOversubscribed, OnMachine
  <2>1. Cardinality(OnMachine(t)) \in Nat /\ cores[t] \in Nat /\ Cores[t] \in Nat
    BY ConstantsOK, FS_CardinalityType DEF CoresInv, CoresHeld, IInv, TypeOK
  <2> QED
    BY <2>1 DEF CoresInv, CoresHeld
<1> QED
  BY <1>1, CoresInvariance, PTL
=============================================================================
