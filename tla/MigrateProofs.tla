---------------------------- MODULE MigrateProofs ----------------------------
(***************************************************************************)
(* Proofs about Migrate: the remote operations of a traversal keep within  *)
(* the cores and are all reaped, although a traversal makes a fixed number *)
(* of passes; and a migration moves the state of components, and deletes   *)
(* only what is saved.                                                     *)
(***************************************************************************)
EXTENDS Migrate, FiniteSetTheorems, WellFoundedInduction, TLAPS

-----------------------------------------------------------------------------
(* The invariant: processes, cores and workers. *)

ProcStates == {"running", "ok", "failed"}
Procs == [phase : Traversals, m : Mapping, pass : Nat, st : ProcStates]
Workers ==
    [st : {"none", "running", "ok", "failed", "reaped"}, rest : SUBSET Mapping, step : Nat]
Marks == {"old", "new"} \X Mapping

Types ==
    /\ request \in Requests
    /\ phase \in Traversals \cup Iterations \cup {"begin", "returned"}
    /\ turn \in {"fork", "wait"} /\ success \in BOOLEAN /\ lost \in BOOLEAN
    /\ passes \in Nat
    /\ result \in {"none", "success", "failed", "crashed"}
    /\ done \subseteq Marks
    /\ procs \subseteq Procs /\ \A p \in procs : TargetOf[p.m] \in Targets
    /\ cores \in [Targets -> Nat]
    /\ worker \in [Machine -> Workers]
    /\ DOMAIN state = Mapping /\ DOMAIN store = Host /\ \A h \in Host : DOMAIN store[h] = Component

\* A pass is counted after the last one only when there is none.
PassesOK ==
    /\ phase \in Traversals => passes <= Passes /\ (turn = "wait" => passes < Passes)
    /\ phase \notin Traversals => passes <= Cardinality(Mapping)

\* A target that offers one core: it is free, or one process has it.
Single(t) ==
    request.cores[t] <= 1 =>
      /\ cores[t] <= request.cores[t]
      /\ \A p, q \in procs :
           TargetOf[p.m] = t => cores[t] < request.cores[t] /\ (TargetOf[q.m] = t => p = q)

Marked == {m \in Items(phase) : <<Owner(phase), m>> \in done}

\* A traversal over targets that offer one core.  Every pass so far has reaped a
\* process, or there is nothing left to fork: all is done, or a fork() failed.
TraversalOK ==
    /\ \A p \in procs : p.phase = phase /\ p.m \in Items(phase) /\ <<Owner(phase), p.m>> \notin done
    /\ turn = "wait" => Granted = {}
    /\ procs # {} \/ Granted # {} \/ (lost /\ success) => passes <= Cardinality(Marked)
    /\ lost => \E m \in Pending : cores[TargetOf[m]] = 0 /\ \A p \in procs : TargetOf[p.m] # TargetOf[m]
    /\ ~lost => \A t \in Targets : cores[t] = 1 \/ \E p \in procs : TargetOf[p.m] = t

CountingOK ==
    OneCoreEach =>
      /\ phase \in Traversals => TraversalOK
      /\ phase \notin Traversals => procs = {}
      /\ phase \in Iterations \cup {"begin"} => \A t \in Targets : cores[t] = 1

WorkersOK ==
    /\ \A t \in Machine :
         LET w == worker[t] IN
         /\ t \notin Targets => w.st = "none"
         /\ phase \notin Iterations => w.st # "running"
         /\ phase \in Iterations => w.rest \subseteq ItemsOn(t) /\ w.step \in 1 .. Len(Steps[phase])
         /\ w.st = "ok" \/ (w.st = "reaped" /\ success) => w.rest = {}

ProcessInv == Types /\ PassesOK /\ (\A t \in Targets : Single(t)) /\ CountingOK /\ WorkersOK

-----------------------------------------------------------------------------
(* The invariant: what a migration has brought where. *)

Upgrading ==
    /\ Named /\ request.command = "migrate" /\ request.known /\ OneCoreEach
    /\ ~request.transferOnly /\ ~request.all

Gone == request.old \ request.new
Fresh == request.new \ request.old

On(m) == store[TargetOf[m]][ComponentOf[m]]
Kept(m) == store["coordinator"][ComponentOf[m]]

Alone(o) == \A x \in Gone : ComponentOf[x] = ComponentOf[o] /\ Present(x) => x = o

\* What the operations are for.
Taken(m) == On(m) # <<>> /\ Last(On(m)) = Value[m]
Saved(m) == Value[m] \in Range(Kept(m)) /\ Kept(m) # <<>> /\ (Alone(m) => Last(Kept(m)) = Value[m])
Sent(n) == \A o \in Mapping : Moves(o, n) => On(n) # <<>> /\ Last(On(n)) = Value[o]
Moved(n) == \A o \in Mapping : Moves(o, n) => state[n] = Value[o]

\* What a traversal, and what an iteration, did for a mapping.
Effect(p, m) == (p = "snapshot" => Taken(m)) /\ (p = "restore_all" => Moved(m))
WorkDone(p, m) ==
    /\ p \in {"retrieve", "snapshot_depth"} => Saved(m)
    /\ p = "send" => Sent(m)
    /\ p = "restore_depth" => Moved(m)

\* How far a worker is with the first mapping that is left.
Underway(p, m, step) ==
    /\ p = "snapshot_depth" => (step = 2 => Taken(m)) /\ (step = 3 => Saved(m))
    /\ p = "restore_depth" => (step = 2 => Sent(m)) /\ (step = 3 => Moved(m))

IsSeq(s) == \E S : s \in Seq(S)
AllSeqs == \A h \in Host, c \in Component : IsSeq(store[h][c])

StatesOK ==
    /\ \A m \in Gone : state[m] = Value[m] \/ (state[m] = "deleted" /\ Saved(m))
    /\ phase \notin {"delete", "returned"} => \A m \in Gone : state[m] = Value[m]

\* What the phases before have achieved.
EarlierOK ==
    /\ phase = "retrieve" => \A m \in Gone : Present(m) => Taken(m)
    /\ phase \in {"send", "restore_all", "restore_depth", "delete"} \/ result = "success" =>
         \A m \in Gone : Present(m) => Saved(m)
    /\ phase = "restore_all" => \A n \in Fresh : Sent(n)
    /\ phase = "delete" \/ result = "success" => \A n \in Fresh : Moved(n)

\* What the operations of this phase have achieved.
AchievedOK ==
    /\ phase \in Traversals =>
         /\ \A p \in procs : p.st = "ok" => Effect(phase, p.m)
         /\ success => \A m \in Items(phase) : <<Owner(phase), m>> \in done => Effect(phase, m)
    /\ phase \in Iterations =>
         \A t \in Machine :
           worker[t].st # "none" =>
             /\ \A m \in ItemsOn(t) \ worker[t].rest : WorkDone(phase, m)
             /\ worker[t].rest # {} => Underway(phase, Min(worker[t].rest), worker[t].step)

\* The marks that there are yet.
MarksOK ==
    /\ phase = "begin" => done = {}
    /\ phase \notin {"restore_all", "delete", "returned"} => \A m \in Mapping : <<"new", m>> \notin done

DataInv ==
    Upgrading =>
      /\ AllSeqs /\ StatesOK /\ EarlierOK /\ AchievedOK /\ MarksOK
      /\ phase = "begin" => result = "none"
      /\ result = "success" => phase = "returned"

-----------------------------------------------------------------------------
(* Sets of numbers. *)

LEMMA Minimum ==
  ASSUME NEW S \in SUBSET Nat, S # {}
  PROVE  Min(S) \in S /\ \A x \in S : Min(S) <= x
<1>1. PICK R : R = {ss \in Nat \X Nat : ss[1] < ss[2]}
  OBVIOUS
<1>2. IsWellFoundedOn(R, Nat)
  BY NatLessThanWellFounded, <1>1 DEF OpToRel
<1>3. PICK x \in S : \A y \in S : <<y, x>> \notin R
  BY <1>2, WFMin
<1>4. ASSUME NEW y \in S
      PROVE  x <= y
  <2>1. ~(y < x)
    BY <1>1, <1>3
  <2> QED BY <2>1
<1> QED BY <1>4 DEF Min

LEMMA Maximum ==
  ASSUME NEW S \in SUBSET Nat, IsFiniteSet(S), S # {}
  PROVE  \E x \in S : \A y \in S : y <= x
<1> DEFINE Above(x) == {k \in S : k > x}
           Ranks == {Cardinality(Above(x)) : x \in S}
<1>1. \A x \in S : IsFiniteSet(Above(x)) /\ Cardinality(Above(x)) \in Nat
  <2> SUFFICES ASSUME NEW x \in S PROVE IsFiniteSet(Above(x)) /\ Cardinality(Above(x)) \in Nat
    OBVIOUS
  <2>1. IsFiniteSet(Above(x))
    BY FS_Subset
  <2> QED BY <2>1, FS_CardinalityType
<1>2. PICK x \in S : \A y \in S : Cardinality(Above(x)) <= Cardinality(Above(y))
  <2>1. Ranks \in SUBSET Nat /\ Ranks # {}
    BY <1>1
  <2>2. Min(Ranks) \in Ranks /\ \A r \in Ranks : Min(Ranks) <= r
    BY <2>1, Minimum
  <2> QED BY <2>2
<1>3. ASSUME NEW y \in S, y > x
      PROVE  FALSE
  <2>1. Above(y) \in SUBSET Above(x) /\ Above(y) # Above(x)
    <3>1. y \in Above(x) /\ y \notin Above(y)
      BY <1>3
    <3>2. ASSUME NEW k \in S, k > y
          PROVE  k > x
      <4>1. k \in Nat /\ x \in Nat /\ y \in Nat
        OBVIOUS
      <4> QED BY <1>3, <3>2, <4>1
    <3> QED BY <3>1, <3>2
  <2>2. /\ Cardinality(Above(y)) <= Cardinality(Above(x))
        /\ Cardinality(Above(x)) = Cardinality(Above(y)) => Above(x) = Above(y)
    BY <1>1, <2>1, FS_Subset
  <2>3. Cardinality(Above(x)) <= Cardinality(Above(y))
    BY <1>2
  <2> HIDE DEF Above
  <2>4. Cardinality(Above(x)) = Cardinality(Above(y))
    BY <1>1, <2>2, <2>3
  <2> QED BY <2>1, <2>2, <2>4
<1>4. \A y \in S : y <= x
  BY <1>3
<1> QED BY <1>4

\* Of a set of numbers, at most c have fewer than c below them.
LEMMA RankBound ==
  ASSUME NEW S \in SUBSET Nat, IsFiniteSet(S), NEW c \in Nat
  PROVE  LET G == {m \in S : Cardinality({k \in S : k < m}) < c}
         IN  IsFiniteSet(G) /\ Cardinality(G) \in 0 .. c
<1> DEFINE Below(m) == {k \in S : k < m}
           G == {m \in S : Cardinality(Below(m)) < c}
<1>1. IsFiniteSet(G) /\ Cardinality(G) \in Nat
  <2>1. IsFiniteSet(G)
    BY FS_Subset
  <2> QED BY <2>1, FS_CardinalityType
<1>2. ASSUME Cardinality(G) > c
      PROVE  FALSE
  <2>1. G # {}
    <3> HIDE DEF G
    <3> QED BY <1>1, <1>2, FS_EmptySet
  <2>2. PICK x \in G : \A y \in G : y <= x
    BY <1>1, <2>1, Maximum
  <2>3. G \ {x} \in SUBSET Below(x)
    <3>1. ASSUME NEW y \in G \ {x}
          PROVE  y \in Below(x)
      <4>1. y <= x /\ y # x /\ x \in Nat /\ y \in Nat
        BY <2>2, <3>1
      <4> QED BY <4>1
    <3> QED BY <3>1
  <2>4. IsFiniteSet(Below(x)) /\ Cardinality(Below(x)) < c /\ Cardinality(Below(x)) \in Nat
    <3>1. IsFiniteSet(Below(x))
      BY FS_Subset
    <3> QED BY <2>2, <3>1, FS_CardinalityType
  <2>5. Cardinality(G \ {x}) <= Cardinality(Below(x))
    BY <2>3, <2>4, FS_Subset
  <2>6. Cardinality(G \ {x}) = Cardinality(G) - 1
    BY <1>1, FS_RemoveElement
  <2> HIDE DEF G, Below
  <2> QED BY <1>1, <1>2, <2>4, <2>5, <2>6
<1> HIDE DEF G
<1>3. Cardinality(G) \in 0 .. c
  BY <1>1, <1>2
<1> QED BY <1>1, <1>3 DEF G

\* Of a set of numbers, only the smallest has none below it.
LEMMA RankZero ==
  ASSUME NEW S \in SUBSET Nat, IsFiniteSet(S)
  PROVE  {m \in S : Cardinality({k \in S : k < m}) < 1} = IF S = {} THEN {} ELSE {Min(S)}
<1> DEFINE Below(m) == {k \in S : k < m}
<1>1. ASSUME NEW m \in S
      PROVE  Cardinality(Below(m)) < 1 <=> Below(m) = {}
  <2>1. IsFiniteSet(Below(m))
    BY FS_Subset
  <2>2. Cardinality(Below(m)) \in Nat /\ (Cardinality(Below(m)) = 0 <=> Below(m) = {})
    BY <2>1, FS_EmptySet, FS_CardinalityType
  <2> HIDE DEF Below
  <2> QED BY <2>2
<1>2. CASE S = {}
  BY <1>2
<1>3. CASE S # {}
  <2>1. Min(S) \in S /\ \A x \in S : Min(S) <= x
    BY <1>3, Minimum
  <2>2. ASSUME NEW m \in S
        PROVE  Below(m) = {} <=> m = Min(S)
    <3>1. m \in Nat /\ Min(S) \in Nat /\ Min(S) <= m
      BY <2>1
    <3>2. CASE m = Min(S)
      <4>1. \A k \in S : ~(k < m)
        <5> SUFFICES ASSUME NEW k \in S PROVE ~(k < m)
          OBVIOUS
        <5>1. k \in Nat /\ m <= k
          BY <2>1, <3>2
        <5> QED BY <3>1, <5>1
      <4> QED BY <3>2, <4>1
    <3>3. CASE m # Min(S)
      <4>1. Min(S) \in Below(m)
        BY <2>1, <3>1, <3>3
      <4> QED BY <3>3, <4>1
    <3> QED BY <3>2, <3>3
  <2>3. \A m \in S : Cardinality(Below(m)) < 1 <=> m = Min(S)
    BY <1>1, <2>2
  <2> QED BY <1>3, <2>1, <2>3
<1> QED BY <1>2, <1>3

-----------------------------------------------------------------------------
(* The request, the arrays and the cores. *)

LEMMA RequestFacts ==
  ASSUME Types
  PROVE  /\ RequestOK(request) /\ Targets \subseteq Machine
         /\ \A t \in Targets : request.cores[t] \in Nat
         /\ \A p : Items(p) \subseteq Mapping /\ IsFiniteSet(Items(p))
                   /\ Cardinality(Items(p)) \in 0 .. Cardinality(Mapping)
         /\ Passes \in 0 .. Cardinality(Mapping)
<1>1. RequestOK(request)
  BY RequestsOK DEF Types
<1>2. Targets \subseteq Machine /\ \A t \in Targets : request.cores[t] \in Nat
  BY <1>1 DEF RequestOK, Targets
<1>3. ASSUME NEW p
      PROVE  /\ Items(p) \subseteq Mapping /\ IsFiniteSet(Items(p))
             /\ Cardinality(Items(p)) \in 0 .. Cardinality(Mapping)
  <2>1. Items(p) \subseteq Mapping
    BY <1>1 DEF RequestOK, Items, SnapshotItems, RestoreItems, DeleteItems
  <2>2. IsFiniteSet(Mapping) /\ Cardinality(Mapping) \in Nat
    BY ConstantsOK, FS_CardinalityType
  <2>3. IsFiniteSet(Items(p)) /\ Cardinality(Items(p)) <= Cardinality(Mapping)
    BY <2>1, <2>2, FS_Subset
  <2>4. Cardinality(Items(p)) \in Nat
    BY <2>3, FS_CardinalityType
  <2> QED BY <2>1, <2>2, <2>3, <2>4
<1> QED BY <1>1, <1>2, <1>3 DEF Passes

\* Whatever a machine's address is, the mappings that its worker finds are its own.
LEMMA ItemsOfMachine ==
  ASSUME Types, NEW t \in Targets, NEW m \in ItemsOn(t)
  PROVE  m \in Items(phase) /\ m \in Mapping /\ TargetOf[m] = t
<1>1. m \in Items(phase) /\ m \in Mapping /\ TargetOf[m] = request.keys[t]
  BY RequestFacts DEF ItemsOn
<1>2. TargetOf[m] \in Machine
  BY <1>1, ConstantsOK
<1>3. request.keys[t] \in Machine => request.keys[t] = t
  BY RequestFacts DEF RequestOK, Targets
<1> QED BY <1>1, <1>2, <1>3

\* The mappings that a pass forks an operation for, by target.
PendingOn(t) == {m \in Pending : TargetOf[m] = t}
GrantedOn(t) == {m \in Granted : TargetOf[m] = t}

LEMMA GrantedWithinCores ==
  ASSUME Types, NEW t \in Targets
  PROVE  /\ Cardinality(GrantedOn(t)) \in 0 .. cores[t]
         /\ cores[t] = 0 => GrantedOn(t) = {}
         /\ cores[t] = 1 => IF PendingOn(t) = {} THEN GrantedOn(t) = {}
                            ELSE \E m \in PendingOn(t) : GrantedOn(t) = {m}
<1> DEFINE P == PendingOn(t)
<1>1. P \in SUBSET Nat /\ IsFiniteSet(P)
  <2>1. P \subseteq Items(phase) /\ IsFiniteSet(Items(phase)) /\ Items(phase) \subseteq Nat
    BY RequestFacts, ConstantsOK DEF PendingOn, Pending
  <2> QED BY <2>1, FS_Subset
<1>2. cores[t] \in Nat
  BY DEF Types
<1>3. GrantedOn(t) = {m \in P : Cardinality({k \in P : k < m}) < cores[t]}
  <2>1. ASSUME NEW m \in P
        PROVE  {k \in Pending : k < m /\ TargetOf[k] = TargetOf[m]} = {k \in P : k < m}
    BY DEF PendingOn
  <2> QED BY <2>1 DEF GrantedOn, Granted, PendingOn
<1> HIDE DEF P
<1>4. Cardinality(GrantedOn(t)) \in 0 .. cores[t]
  BY <1>1, <1>2, <1>3, RankBound
<1>5. cores[t] = 0 => GrantedOn(t) = {}
  <2>1. IsFiniteSet(GrantedOn(t))
    BY <1>1, <1>2, <1>3, RankBound
  <2>2. cores[t] = 0 => Cardinality(GrantedOn(t)) = 0
    BY <1>4
  <2> QED BY <2>1, <2>2, FS_EmptySet
<1>6. cores[t] = 1 => IF P = {} THEN GrantedOn(t) = {} ELSE \E m \in P : GrantedOn(t) = {m}
  <2>1. cores[t] = 1 => GrantedOn(t) = IF P = {} THEN {} ELSE {Min(P)}
    BY <1>1, <1>3, RankZero
  <2>2. P # {} => Min(P) \in P
    BY <1>1, Minimum
  <2> QED BY <2>1, <2>2
<1> QED BY <1>4, <1>5, <1>6 DEF P

LEMMA GrantedFacts ==
  ASSUME Types
  PROVE  \A m \in Granted : /\ m \in Pending /\ m \in Items(phase) /\ m \in Mapping
                            /\ TargetOf[m] \in Targets /\ cores[TargetOf[m]] > 0
                            /\ m \in GrantedOn(TargetOf[m])
<1> SUFFICES ASSUME NEW m \in Granted
             PROVE  /\ m \in Pending /\ m \in Items(phase) /\ m \in Mapping
                    /\ TargetOf[m] \in Targets /\ cores[TargetOf[m]] > 0
                    /\ m \in GrantedOn(TargetOf[m])
  OBVIOUS
<1>1. m \in Pending /\ m \in Items(phase) /\ TargetOf[m] \in Targets /\ m \in GrantedOn(TargetOf[m])
  BY DEF Granted, Pending, Present, Targets, GrantedOn
<1>2. m \in Mapping
  BY <1>1, RequestFacts
<1>3. cores[TargetOf[m]] # 0
  BY <1>1, GrantedWithinCores
<1>4. cores[TargetOf[m]] \in Nat
  BY <1>1 DEF Types
<1>5. \A n \in Nat : n # 0 => n > 0
  OBVIOUS
<1> QED BY <1>1, <1>2, <1>3, <1>4, <1>5

\* The mappings that are done are among those of the array.
LEMMA MarkedFacts ==
  ASSUME Types
  PROVE  /\ IsFiniteSet(Marked) /\ Cardinality(Marked) \in Nat /\ Cardinality(Marked) <= Passes
         /\ Cardinality(Marked) = Passes => Marked = Items(phase)
<1>1. IsFiniteSet(Items(phase)) /\ Marked \in SUBSET Items(phase)
  BY RequestFacts DEF Marked
<1> QED BY <1>1, FS_Subset, FS_CardinalityType DEF Passes

-----------------------------------------------------------------------------
(* The coordinator's steps keep the invariant of the processes. *)

LEMMA SameRequest ==
  ASSUME request' = request
  PROVE  /\ Targets' = Targets /\ OneCoreEach' = OneCoreEach
         /\ \A p : Items(p)' = Items(p) /\ Owner(p)' = Owner(p)
         /\ Named' = Named
         /\ \A t : (request.cores[t])' = request.cores[t]
  BY DEF Targets, Named, OneCoreEach, Items, SnapshotItems, RestoreItems, DeleteItems, Owner

LEMMA StepsFacts ==
  /\ Steps["retrieve"] = <<"retrieve">> /\ Steps["send"] = <<"send">>
  /\ Steps["snapshot_depth"] = <<"take", "retrieve", "clean">>
  /\ Steps["restore_depth"] = <<"send", "restore", "clean">>
  /\ \A p \in Iterations : Len(Steps[p]) \in {1, 3}
  BY DEF Steps, Iterations

LEMMA FirstStep == \A p : p \in Iterations => 1 \in 1 .. Len(Steps[p])
<1> SUFFICES ASSUME NEW p \in Iterations PROVE 1 \in 1 .. Len(Steps[p])
  OBVIOUS
<1>1. Len(Steps[p]) \in {1, 3}
  BY StepsFacts
<1>2. \A n : n \in {1, 3} => 1 \in 1 .. n
  OBVIOUS
<1> QED BY <1>1, <1>2, Zenon

LEMMA InitProcess == Init => ProcessInv
<1> SUFFICES ASSUME Init PROVE ProcessInv
  OBVIOUS
<1> USE DEF Init
<1>1. RequestOK(request) /\ Targets = DOMAIN request.cores
  BY RequestsOK DEF Targets
<1>2. Types
  <2>1. PICK history \in Histories : store = [h \in Host |-> [c \in Component |-> history[h]]]
    OBVIOUS
  <2>2. cores \in [Targets -> Nat]
    BY <1>1 DEF RequestOK
  <2>3. worker \in [Machine -> Workers]
    BY DEF NoWorker, Workers
  <2>4. DOMAIN state = Mapping /\ DOMAIN store = Host /\ \A h \in Host : DOMAIN store[h] = Component
    BY <2>1
  <2> QED BY <2>2, <2>3, <2>4 DEF Types, Procs
<1>3. PassesOK
  <2>1. Cardinality(Mapping) \in Nat
    BY ConstantsOK, FS_CardinalityType
  <2> QED BY <2>1 DEF PassesOK, Traversals
<1>4. \A t \in Targets : Single(t)
  BY <1>1, <1>2 DEF Single, Types, RequestOK
<1>5. CountingOK
  BY DEF CountingOK, OneCoreEach, Traversals, Iterations
<1>6. WorkersOK
  BY DEF WorkersOK, NoWorker, Iterations
<1> QED BY <1>2, <1>3, <1>4, <1>5, <1>6 DEF ProcessInv

\* What every phase starts from.
Fits == OneCoreEach => procs = {} /\ \A t \in Targets : cores[t] = 1

LEMMA FollowedByFacts ==
  \A p : FollowedBy(p) \in Traversals \cup Iterations \cup {"returned"}
BY DEF FollowedBy

LEMMA MarkedTyped == (Types => Cardinality(Marked) \in Nat)'
<1>1. Types => Cardinality(Marked) \in Nat
  BY MarkedFacts
<1> QED BY <1>1, PTL

LEMMA PassesTyped == (Types => Passes \in 0 .. Cardinality(Mapping))'
<1>1. Types => Passes \in 0 .. Cardinality(Mapping)
  BY RequestFacts
<1> QED BY <1>1, PTL

LEMMA EnterProcess ==
  ASSUME ProcessInv, Fits, NEW p, Enter(FollowedBy(p)), UNCHANGED <<request, cores, procs, state, store>>
  PROVE  ProcessInv'
<1>1. phase' \in Traversals \cup Iterations \cup {"returned"}
  BY FollowedByFacts DEF Enter
<1>2. Targets' = Targets /\ OneCoreEach' = OneCoreEach
  BY SameRequest
<1>3. Types'
  <2>1. Types
    BY DEF ProcessInv
  <2>2. worker' \in [Machine -> Workers]
    BY DEF Enter, NoWorker, Workers
  <2>3. done' \subseteq Marks
    BY <2>1 DEF Enter, Types
  <2>4. result' \in {"none", "success", "failed", "crashed"} /\ success' = TRUE /\ lost' = FALSE
        /\ turn' = "fork" /\ passes' = 0
    BY DEF Enter
  <2> QED BY <1>1, <1>2, <2>1, <2>2, <2>3, <2>4 DEF Types
<1>4. PassesOK'
  <2>1. Passes' \in 0 .. Cardinality(Mapping)
    BY <1>3, PassesTyped
  <2>2. passes' = 0 /\ turn' = "fork"
    BY DEF Enter
  <2>3. Cardinality(Mapping) \in Nat
    BY ConstantsOK, FS_CardinalityType
  <2> QED BY <2>1, <2>2, <2>3 DEF PassesOK
<1>5. \A t \in Targets' : Single(t)'
  BY <1>2 DEF Single, ProcessInv
<1>6. CountingOK'
  <2> SUFFICES ASSUME OneCoreEach' PROVE CountingOK'
    BY DEF CountingOK
  <2>1. procs' = {} /\ \A t \in Targets' : cores'[t] = 1
    BY <1>2 DEF Fits
  <2>2. TraversalOK'
    <3>1. turn' = "fork" /\ lost' = FALSE /\ passes' = 0
      BY DEF Enter
    <3>2. passes' <= Cardinality(Marked')
      BY <1>3, <3>1, MarkedTyped
    <3> QED BY <2>1, <3>1, <3>2 DEF TraversalOK
  <2> QED BY <2>1, <2>2 DEF CountingOK
<1>7. WorkersOK'
  <2>1. worker' = [t \in Machine |-> [st |-> "none", rest |-> {}, step |-> 1]]
    BY DEF Enter, NoWorker
  <2>2. phase' \in Iterations => 1 \in 1 .. Len(Steps[phase'])
    BY FirstStep
  <2> QED BY <2>1, <2>2 DEF WorkersOK
<1> QED BY <1>3, <1>4, <1>5, <1>6, <1>7 DEF ProcessInv

\* A phase that failed.
GivesUp ==
  /\ phase' = "returned" /\ result' = "failed"
  /\ UNCHANGED <<request, passes, turn, success, done, lost, worker, cores, procs, state, store>>

LEMMA GiveUpProcess ==
  ASSUME ProcessInv, GivesUp, OneCoreEach => procs = {},
         \A t \in Machine : worker[t].st # "running"
  PROVE  ProcessInv'
<1> USE DEF GivesUp
<1>1. Targets' = Targets /\ OneCoreEach' = OneCoreEach
  BY SameRequest
<1>2. Types'
  BY <1>1 DEF Types, ProcessInv
<1>3. PassesOK'
  <2>1. Passes \in 0 .. Cardinality(Mapping) /\ passes \in Nat /\ Cardinality(Mapping) \in Nat
    BY RequestFacts, ConstantsOK, FS_CardinalityType DEF ProcessInv, Types
  <2>2. passes <= Cardinality(Mapping)
    BY <2>1 DEF PassesOK, ProcessInv
  <2> QED BY <2>2 DEF PassesOK, Traversals
<1>4. \A t \in Targets' : Single(t)'
  BY <1>1 DEF Single, ProcessInv
<1>5. CountingOK'
  BY <1>1 DEF CountingOK, Traversals, Iterations
<1>6. WorkersOK'
  BY <1>1 DEF WorkersOK, ProcessInv, Iterations
<1> QED BY <1>2, <1>3, <1>4, <1>5, <1>6 DEF ProcessInv

\* When all passes are made, all that was forked is reaped.
LEMMA AllReaped ==
  ASSUME ProcessInv, phase \in Traversals, turn = "fork", passes = Passes, OneCoreEach
  PROVE  procs = {} /\ Granted = {} /\ (success => ~lost /\ \A t \in Targets : cores[t] = 1)
<1>1. TraversalOK
  BY DEF ProcessInv, CountingOK
<1>2. ASSUME procs # {} \/ Granted # {} \/ (lost /\ success)
      PROVE  FALSE
  <2>1. passes <= Cardinality(Marked)
    BY <1>1, <1>2 DEF TraversalOK
  <2>2. Passes \in Nat
    BY RequestFacts, ConstantsOK, FS_CardinalityType DEF ProcessInv
  <2>3. Marked = Items(phase)
    BY <2>1, <2>2, MarkedFacts DEF ProcessInv
  <2>4. Pending = {}
    BY <2>3 DEF Marked, Pending
  <2>5. Granted = {}
    BY <2>4 DEF Granted
  <2>6. procs = {}
    BY <1>1, <2>3 DEF TraversalOK, Marked
  <2>7. ~lost
    BY <1>1, <2>4 DEF TraversalOK
  <2> QED BY <1>2, <2>5, <2>6, <2>7
<1>3. success => ~lost
  BY <1>2
<1>4. success => \A t \in Targets : cores[t] = 1
  BY <1>1, <1>2, <1>3 DEF TraversalOK
<1> QED BY <1>2, <1>3, <1>4

LEMMA ReturnProcess == ProcessInv /\ (Begin \/ TraversalReturns \/ IterationReturns) => ProcessInv'
<1>1. ASSUME ProcessInv, Begin
      PROVE  ProcessInv'
  <2>1. Fits
    BY <1>1 DEF Fits, Begin, ProcessInv, CountingOK, Traversals
  <2> QED BY <1>1, <2>1, EnterProcess DEF Begin
<1>2. ASSUME ProcessInv, TraversalReturns
      PROVE  ProcessInv'
  <2>1. phase \in Traversals /\ turn = "fork" /\ passes = Passes
    BY <1>2 DEF TraversalReturns, Traversing
  <2>2. ASSUME success, Enter(FollowedBy(phase))
        PROVE  ProcessInv'
    <3>1. Fits
      BY <1>2, <2>1, <2>2, AllReaped DEF Fits
    <3> QED BY <1>2, <2>2, <3>1, EnterProcess DEF TraversalReturns
  <2>3. ASSUME GivesUp
        PROVE  ProcessInv'
    <3>1. \A t \in Machine : worker[t].st # "running"
      BY <1>2, <2>1 DEF ProcessInv, WorkersOK, Traversals, Iterations
    <3> QED BY <1>2, <2>1, <2>3, <3>1, AllReaped, GiveUpProcess
  <2> QED BY <1>2, <2>2, <2>3 DEF TraversalReturns, Leave, GivesUp
<1>3. ASSUME ProcessInv, IterationReturns
      PROVE  ProcessInv'
  <2>1. phase \in Iterations /\ phase \notin Traversals /\ Forked = {}
    BY <1>3 DEF IterationReturns, Iterating, Iterations, Traversals
  <2>2. Fits
    BY <1>3, <2>1 DEF Fits, ProcessInv, CountingOK
  <2>3. \A t \in Machine : worker[t].st # "running"
    BY <1>3, <2>1 DEF ProcessInv, WorkersOK, Forked
  <2>4. ASSUME GivesUp
        PROVE  ProcessInv'
    BY <1>3, <2>2, <2>3, <2>4, GiveUpProcess DEF Fits
  <2>5. ASSUME Enter(FollowedBy(phase))
        PROVE  ProcessInv'
    BY <1>3, <2>2, <2>5, EnterProcess DEF IterationReturns
  <2> QED BY <1>3, <2>4, <2>5 DEF IterationReturns, Leave, GivesUp
<1> QED BY <1>1, <1>2, <1>3

\* A set of mappings on targets without a free core grants nothing.
LEMMA NothingGranted ==
  ASSUME Types, \A m \in Pending : cores[TargetOf[m]] = 0
  PROVE  Granted = {}
<1> SUFFICES ASSUME NEW m \in Granted PROVE FALSE
  OBVIOUS
<1>1. m \in Pending /\ cores[TargetOf[m]] > 0
  BY GrantedFacts
<1> QED BY <1>1

LEMMA NothingGrantedNext ==
  (Types /\ (\A m \in Pending : cores[TargetOf[m]] = 0) => Granted = {})'
<1>1. Types /\ (\A m \in Pending : cores[TargetOf[m]] = 0) => Granted = {}
  BY NothingGranted
<1> QED BY <1>1, PTL

LEMMA SamePending ==
  ASSUME UNCHANGED <<request, phase, done>>
  PROVE  Pending' = Pending /\ Marked' = Marked /\ Passes' = Passes
BY SameRequest DEF Pending, Marked, Passes, Present

\* The processes that a pass forks, when those of failing do not start.
Started(failing) ==
  {[phase |-> phase, m |-> m, pass |-> passes, st |-> "running"] : m \in Granted \ failing}

LEMMA ForkItemsProcess == ProcessInv /\ ForkItems => ProcessInv'
<1> SUFFICES ASSUME ProcessInv, ForkItems PROVE ProcessInv'
  OBVIOUS
<1>a. /\ Types /\ phase \in Traversals /\ turn = "fork" /\ passes < Passes /\ turn' = "wait"
      /\ cores' = [t \in DOMAIN cores |-> cores[t] - Cardinality(GrantedOn(t))]
      /\ UNCHANGED <<request, phase, passes, success, done, result, worker, state, store>>
  BY DEF ForkItems, Traversing, ProcessInv, GrantedOn
<1>b. PICK failing \in SUBSET Granted :
        procs' = procs \cup Started(failing) /\ lost' = (lost \/ failing # {})
  <2>1. {} \in SUBSET Granted
    OBVIOUS
  <2> QED BY <2>1 DEF ForkItems, Started
<1>c. Targets' = Targets /\ OneCoreEach' = OneCoreEach /\ Items(phase)' = Items(phase)
      /\ Owner(phase)' = Owner(phase) /\ Pending' = Pending /\ Marked' = Marked /\ Passes' = Passes
  BY <1>a, SameRequest, SamePending
<1>d. \A t \in Targets : /\ cores[t] \in Nat /\ cores'[t] = cores[t] - Cardinality(GrantedOn(t))
                         /\ Cardinality(GrantedOn(t)) \in 0 .. cores[t] /\ cores'[t] \in Nat
  BY <1>a, GrantedWithinCores DEF Types
<1>e. \A p \in Started(failing) :
        /\ p.phase = phase /\ p.m \in Granted \ failing /\ p.pass = passes /\ p.st = "running"
        /\ p = [phase |-> phase, m |-> p.m, pass |-> passes, st |-> "running"]
  BY DEF Started
<1>1. Types'
  <2>1. cores' \in [Targets -> Nat]
    BY <1>a, <1>d DEF Types
  <2>2. \A p \in Started(failing) : p \in Procs /\ TargetOf[p.m] \in Targets
    BY <1>a, <1>e, GrantedFacts DEF Procs, ProcStates, Types
  <2>3. procs' \subseteq Procs /\ \A p \in procs' : TargetOf[p.m] \in Targets
    BY <1>a, <1>b, <2>2 DEF Types
  <2>4. lost' \in BOOLEAN
    BY <1>b, <1>a DEF Types
  <2> QED BY <1>a, <1>c, <2>1, <2>3, <2>4 DEF Types
<1>2. PassesOK'
  BY <1>a, <1>c DEF PassesOK, ProcessInv
<1>f. ASSUME NEW t \in Targets, request.cores[t] <= 1
      PROVE  /\ cores[t] \in {0, 1}
             /\ cores[t] = 0 => cores'[t] = 0 /\ GrantedOn(t) = {}
             /\ cores[t] = 1 => /\ request.cores[t] = 1 /\ \A p \in procs : TargetOf[p.m] # t
                                /\ IF PendingOn(t) = {} THEN GrantedOn(t) = {} /\ cores'[t] = 1
                                   ELSE \E m \in PendingOn(t) : GrantedOn(t) = {m} /\ cores'[t] = 0
  <2>1. cores[t] \in Nat /\ request.cores[t] \in Nat /\ cores[t] <= request.cores[t]
        /\ \A p \in procs : TargetOf[p.m] = t => cores[t] < request.cores[t]
    BY <1>a, <1>d, <1>f, RequestFacts DEF ProcessInv, Single
  <2>2. cores[t] \in {0, 1} /\ (cores[t] = 1 => request.cores[t] = 1)
    BY <1>f, <2>1
  <2>3. /\ cores[t] = 0 => GrantedOn(t) = {}
        /\ cores[t] = 1 => IF PendingOn(t) = {} THEN GrantedOn(t) = {}
                           ELSE \E m \in PendingOn(t) : GrantedOn(t) = {m}
    BY <1>a, GrantedWithinCores
  <2>4. Cardinality({}) = 0 /\ \A m : Cardinality({m}) = 1
    BY FS_EmptySet, FS_Singleton
  <2>5. cores[t] = 0 => cores'[t] = 0 /\ GrantedOn(t) = {}
    BY <1>d, <2>3, <2>4
  <2>6. cores[t] = 1 => \A p \in procs : TargetOf[p.m] # t
    BY <2>1, <2>2
  <2>7. cores[t] = 1 => IF PendingOn(t) = {} THEN GrantedOn(t) = {} /\ cores'[t] = 1
                        ELSE \E m \in PendingOn(t) : GrantedOn(t) = {m} /\ cores'[t] = 0
    <3>1. ASSUME cores[t] = 1, GrantedOn(t) = {}
          PROVE  cores'[t] = 1
      <4>1. Cardinality(GrantedOn(t)) = 0
        BY <2>4, <3>1
      <4>2. cores'[t] = cores[t] - Cardinality(GrantedOn(t))
        BY <1>d
      <4> QED BY <3>1, <4>1, <4>2
    <3>2. ASSUME NEW m, cores[t] = 1, GrantedOn(t) = {m}
          PROVE  cores'[t] = 0
      <4>1. Cardinality(GrantedOn(t)) = 1
        BY <2>4, <3>2
      <4> QED BY <1>d, <3>2, <4>1
    <3> QED BY <2>3, <3>1, <3>2
  <2> QED BY <2>2, <2>5, <2>6, <2>7
<1>g. \A p \in Started(failing) : p.m \in GrantedOn(TargetOf[p.m]) /\ TargetOf[p.m] \in Targets
  BY <1>a, <1>e, GrantedFacts
<1>3. ASSUME NEW t \in Targets, request.cores[t] <= 1
      PROVE  /\ cores'[t] <= request.cores[t]
             /\ \A p, q \in procs' :
                  TargetOf[p.m] = t => cores'[t] < request.cores[t] /\ (TargetOf[q.m] = t => p = q)
  <2>0. request.cores[t] \in Nat
    BY <1>a, RequestFacts
  <2>1. CASE cores[t] = 0
    <3>1. cores'[t] = 0 /\ \A p \in Started(failing) : TargetOf[p.m] # t
      BY <1>3, <1>f, <1>g, <2>1
    <3>2. \A p, q \in procs :
            TargetOf[p.m] = t => 0 < request.cores[t] /\ (TargetOf[q.m] = t => p = q)
      BY <1>3, <2>1 DEF ProcessInv, Single
    <3> QED BY <1>b, <2>0, <3>1, <3>2
  <2>2. CASE cores[t] = 1
    <3>1. request.cores[t] = 1 /\ \A p \in procs : TargetOf[p.m] # t
      BY <1>3, <1>f, <2>2
    <3>2. CASE PendingOn(t) = {}
      BY <1>3, <1>b, <1>f, <1>g, <2>2, <3>1, <3>2
    <3>3. CASE PendingOn(t) # {}
      <4>1. PICK m \in PendingOn(t) : GrantedOn(t) = {m} /\ cores'[t] = 0
        BY <1>3, <1>f, <2>2, <3>3
      <4>2. \A p \in Started(failing) : TargetOf[p.m] = t => p.m = m
        BY <1>g, <4>1
      <4>3. \A p, q \in Started(failing) : TargetOf[p.m] = t /\ TargetOf[q.m] = t => p = q
        BY <1>e, <4>2
      <4> QED BY <1>b, <3>1, <4>1, <4>3
    <3> QED BY <3>2, <3>3
  <2> QED BY <1>3, <1>f, <2>1, <2>2
<1>4. \A t \in Targets' : Single(t)'
  BY <1>3, <1>a, <1>c DEF Single
<1>5. CountingOK'
  <2> SUFFICES ASSUME OneCoreEach PROVE TraversalOK'
    BY <1>a, <1>c DEF CountingOK, Traversals, Iterations
  <2>1. TraversalOK /\ \A t \in Targets : request.cores[t] <= 1
    BY <1>a DEF ProcessInv, CountingOK, OneCoreEach
  <2>2. \A p \in procs' : p.phase = phase /\ p.m \in Items(phase) /\ <<Owner(phase), p.m>> \notin done
    BY <1>a, <1>b, <1>e, <2>1, GrantedFacts DEF TraversalOK, Pending
  <2>3. Granted' = {}
    <3>1. ASSUME NEW m \in Pending
          PROVE  cores'[TargetOf[m]] = 0
      <4>1. TargetOf[m] \in Targets /\ m \in PendingOn(TargetOf[m])
        BY DEF Pending, Present, Targets, PendingOn
      <4> QED BY <4>1, <1>f, <2>1
    <3> QED BY <3>1, <1>1, <1>c, NothingGrantedNext
  <2>4. procs' # {} \/ Granted' # {} \/ (lost' /\ success) => passes <= Cardinality(Marked)
    BY <1>b, <1>e, <2>1, <2>3 DEF TraversalOK
  <2>5. lost' => \E m \in Pending :
                    cores'[TargetOf[m]] = 0 /\ \A p \in procs' : TargetOf[p.m] # TargetOf[m]
    <3>1. ASSUME lost
          PROVE  \E m \in Pending :
                    cores'[TargetOf[m]] = 0 /\ \A p \in procs' : TargetOf[p.m] # TargetOf[m]
      <4>1. PICK m \in Pending :
              cores[TargetOf[m]] = 0 /\ \A p \in procs : TargetOf[p.m] # TargetOf[m]
        BY <2>1, <3>1 DEF TraversalOK
      <4>2. TargetOf[m] \in Targets
        BY DEF Pending, Present, Targets
      <4>3. cores'[TargetOf[m]] = 0 /\ GrantedOn(TargetOf[m]) = {}
        BY <1>f, <2>1, <4>1, <4>2
      <4>4. \A p \in Started(failing) : TargetOf[p.m] # TargetOf[m]
        BY <1>g, <4>3
      <4> QED BY <1>b, <4>1, <4>3, <4>4
    <3>2. ASSUME NEW m \in failing
          PROVE  \E n \in Pending :
                    cores'[TargetOf[n]] = 0 /\ \A p \in procs' : TargetOf[p.m] # TargetOf[n]
      <4>1. m \in Pending /\ TargetOf[m] \in Targets /\ m \in GrantedOn(TargetOf[m])
        BY <1>a, GrantedFacts
      <4>2. cores[TargetOf[m]] = 1
        BY <1>f, <2>1, <4>1
      <4>3. GrantedOn(TargetOf[m]) = {m} /\ cores'[TargetOf[m]] = 0
            /\ \A p \in procs : TargetOf[p.m] # TargetOf[m]
        BY <1>f, <2>1, <4>1, <4>2
      <4>4. \A p \in Started(failing) : TargetOf[p.m] # TargetOf[m]
        BY <1>e, <1>g, <4>3
      <4> QED BY <1>b, <4>1, <4>3, <4>4
    <3> QED BY <1>b, <3>1, <3>2
  <2>6. ~lost' => \A t \in Targets : cores'[t] = 1 \/ \E p \in procs' : TargetOf[p.m] = t
    <3> SUFFICES ASSUME ~lost', NEW t \in Targets, cores'[t] # 1
                 PROVE  \E p \in procs' : TargetOf[p.m] = t
      OBVIOUS
    <3>1. ~lost /\ failing = {}
      BY <1>b
    <3>2. CASE cores[t] # 1
      <4>1. \E p \in procs : TargetOf[p.m] = t
        BY <2>1, <3>1, <3>2 DEF TraversalOK
      <4> QED BY <1>b, <4>1
    <3>3. CASE cores[t] = 1
      <4>1. PICK m \in PendingOn(t) : GrantedOn(t) = {m}
        BY <1>f, <2>1, <3>3
      <4>2. m \in Granted \ failing /\ TargetOf[m] = t
        BY <3>1, <4>1 DEF GrantedOn
      <4>3. \E p \in Started(failing) : TargetOf[p.m] = t
        <5>1. [phase |-> phase, m |-> m, pass |-> passes, st |-> "running"] \in Started(failing)
          BY <4>2 DEF Started
        <5>2. [phase |-> phase, m |-> m, pass |-> passes, st |-> "running"].m = m
          OBVIOUS
        <5> QED BY <4>2, <5>1, <5>2
      <4> QED BY <1>b, <4>3
    <3> QED BY <3>2, <3>3
  <2> QED BY <1>a, <1>c, <2>2, <2>3, <2>4, <2>5, <2>6 DEF TraversalOK
<1>6. WorkersOK'
  BY <1>a, <1>c DEF WorkersOK, ProcessInv, ItemsOn
<1> QED BY <1>1, <1>2, <1>4, <1>5, <1>6 DEF ProcessInv

LEMMA WaitForNothingProcess == ProcessInv /\ WaitForNothing => ProcessInv'
<1> SUFFICES ASSUME ProcessInv, WaitForNothing PROVE ProcessInv'
  OBVIOUS
<1>a. /\ Types /\ phase \in Traversals /\ turn = "wait" /\ turn' = "fork" /\ passes' = passes + 1
      /\ TableEmpty \/ procs = {}
      /\ success' = (success /\ TableEmpty)
      /\ UNCHANGED <<request, phase, done, lost, result, cores, procs, worker, state, store>>
  BY DEF WaitForNothing, Traversing, PassEnds, ProcessInv
<1>b. Targets' = Targets /\ OneCoreEach' = OneCoreEach /\ Items(phase)' = Items(phase)
      /\ Owner(phase)' = Owner(phase) /\ Pending' = Pending /\ Marked' = Marked /\ Passes' = Passes
  BY <1>a, SameRequest, SamePending
<1>c. passes \in Nat /\ Passes \in Nat /\ passes < Passes
  <2>1. Passes \in Nat
    BY <1>a, RequestFacts, ConstantsOK, FS_CardinalityType
  <2> QED BY <1>a, <2>1 DEF ProcessInv, PassesOK, Types
<1>1. Types'
  <2>1. success' \in BOOLEAN /\ passes' \in Nat
    BY <1>a, <1>c DEF Types, TableEmpty
  <2> QED BY <1>a, <1>b, <2>1 DEF Types
<1>2. PassesOK'
  BY <1>a, <1>b, <1>c DEF PassesOK
<1>3. \A t \in Targets' : Single(t)'
  BY <1>a, <1>b DEF ProcessInv, Single
<1>4. CountingOK'
  <2> SUFFICES ASSUME OneCoreEach PROVE TraversalOK'
    BY <1>a, <1>b DEF CountingOK, Traversals, Iterations
  <2>1. TraversalOK
    BY <1>a DEF ProcessInv, CountingOK
  <2>2. procs = {}
    BY <1>a, <2>1 DEF TraversalOK, TableEmpty
  <2>3. Granted' = {}
    BY <1>a, <1>b, <2>1 DEF TraversalOK, Granted
  <2>4. ~(lost /\ success')
    BY <1>a DEF TableEmpty
  <2> QED BY <1>a, <1>b, <2>1, <2>2, <2>3, <2>4 DEF TraversalOK
<1>5. WorkersOK'
  <2>1. success' => success
    BY <1>a
  <2> QED BY <1>a, <1>b, <2>1 DEF WorkersOK, ProcessInv, ItemsOn
<1> QED BY <1>1, <1>2, <1>3, <1>4, <1>5 DEF ProcessInv

LEMMA WaitReapsItemProcess == ProcessInv /\ WaitReapsItem => ProcessInv'
<1> SUFFICES ASSUME ProcessInv, WaitReapsItem PROVE ProcessInv'
  OBVIOUS
<1>a. /\ Types /\ phase \in Traversals /\ turn = "wait" /\ turn' = "fork" /\ passes' = passes + 1
      /\ UNCHANGED <<request, phase, lost, result, worker, state, store>>
  BY DEF WaitReapsItem, Traversing, PassEnds, ProcessInv
<1>b. PICK p \in procs :
        /\ p.phase = phase
        /\ procs' = procs \ {p}
        /\ done' = done \cup {<<Owner(phase), p.m>>}
        /\ cores' = [cores EXCEPT ![TargetOf[p.m]] = @ + 1]
        /\ success' = (success /\ p.st = "ok")
  BY DEF WaitReapsItem, Ended
<1>c. Targets' = Targets /\ OneCoreEach' = OneCoreEach /\ Items(phase)' = Items(phase)
      /\ Owner(phase)' = Owner(phase) /\ Passes' = Passes
  BY <1>a, SameRequest DEF Passes
<1>d. passes \in Nat /\ Passes \in Nat /\ passes < Passes
  <2>1. Passes \in Nat
    BY <1>a, RequestFacts, ConstantsOK, FS_CardinalityType
  <2> QED BY <1>a, <2>1 DEF ProcessInv, PassesOK, Types
<1>e. p \in Procs /\ p.m \in Mapping /\ TargetOf[p.m] \in Targets
  BY <1>a DEF Types, Procs
<1>f. \A t \in Targets : cores[t] \in Nat /\ cores'[t] = IF t = TargetOf[p.m] THEN cores[t] + 1 ELSE cores[t]
  BY <1>a, <1>b DEF Types
<1>1. Types'
  <2>1. success' \in BOOLEAN /\ passes' \in Nat
    BY <1>a, <1>b, <1>d DEF Types
  <2>2. done' \subseteq Marks
    BY <1>a, <1>b, <1>e DEF Types, Marks, Owner
  <2>3. cores' \in [Targets -> Nat]
    BY <1>a, <1>b, <1>f DEF Types
  <2>4. procs' \subseteq Procs /\ \A q \in procs' : TargetOf[q.m] \in Targets
    BY <1>a, <1>b DEF Types
  <2> QED BY <1>a, <1>c, <2>1, <2>2, <2>3, <2>4 DEF Types
<1>2. PassesOK'
  BY <1>a, <1>c, <1>d DEF PassesOK
<1>3. ASSUME NEW t \in Targets, request.cores[t] <= 1
      PROVE  /\ cores'[t] <= request.cores[t]
             /\ \A q, r \in procs' :
                  TargetOf[q.m] = t => cores'[t] < request.cores[t] /\ (TargetOf[r.m] = t => q = r)
  <2>1. /\ cores[t] <= request.cores[t]
        /\ \A q, r \in procs :
             TargetOf[q.m] = t => cores[t] < request.cores[t] /\ (TargetOf[r.m] = t => q = r)
    BY <1>3 DEF ProcessInv, Single
  <2>2. request.cores[t] \in Nat /\ cores[t] \in Nat
    BY <1>a, <1>f, RequestFacts
  <2>3. CASE t = TargetOf[p.m]
    <3>1. cores[t] < request.cores[t] /\ \A q \in procs' : TargetOf[q.m] # t
      BY <1>b, <2>1, <2>3
    <3>2. cores'[t] = cores[t] + 1
      BY <1>f, <2>3
    <3> QED BY <2>2, <3>1, <3>2
  <2>4. CASE t # TargetOf[p.m]
    <3>1. cores'[t] = cores[t]
      BY <1>f, <2>4
    <3> QED BY <1>b, <2>1, <3>1
  <2> QED BY <2>3, <2>4
<1>4. \A t \in Targets' : Single(t)'
  BY <1>3, <1>a, <1>c DEF Single
<1>5. CountingOK'
  <2> SUFFICES ASSUME OneCoreEach PROVE TraversalOK'
    BY <1>a, <1>c DEF CountingOK, Traversals, Iterations
  <2>1. TraversalOK
    BY <1>a DEF ProcessInv, CountingOK
  <2>2. p.m \in Items(phase) /\ <<Owner(phase), p.m>> \notin done /\ p.m \notin Marked
    BY <2>1 DEF TraversalOK, Marked
  <2>3. \A q \in procs' : q \in procs /\ TargetOf[q.m] # TargetOf[p.m]
    <3>1. request.cores[TargetOf[p.m]] = 1
      BY <1>e DEF OneCoreEach
    <3> QED BY <1>b, <1>e, <3>1 DEF ProcessInv, Single
  <2>4. \A q \in procs' : q.phase = phase /\ q.m \in Items(phase) /\ <<Owner(phase), q.m>> \notin done'
    BY <1>b, <2>1, <2>3 DEF TraversalOK
  <2>5. passes' <= Cardinality(Marked')
    <3>1. passes <= Cardinality(Marked)
      BY <2>1 DEF TraversalOK
    <3>2. Marked' = Marked \cup {p.m}
      BY <1>a, <1>b, <1>c, <2>2 DEF Marked
    <3>3. IsFiniteSet(Marked) /\ Cardinality(Marked) \in Nat
      BY <1>a, MarkedFacts
    <3>4. Cardinality(Marked') = Cardinality(Marked) + 1
      BY <2>2, <3>2, <3>3, FS_AddElement
    <3> QED BY <1>a, <1>d, <3>1, <3>3, <3>4
  <2>6. lost' => \E m \in Pending' :
                    cores'[TargetOf[m]] = 0 /\ \A q \in procs' : TargetOf[q.m] # TargetOf[m]
    <3> SUFFICES ASSUME lost
                 PROVE  \E m \in Pending' :
                    cores'[TargetOf[m]] = 0 /\ \A q \in procs' : TargetOf[q.m] # TargetOf[m]
      BY <1>a
    <3>1. PICK m \in Pending :
            cores[TargetOf[m]] = 0 /\ \A q \in procs : TargetOf[q.m] # TargetOf[m]
      BY <2>1 DEF TraversalOK
    <3>2. TargetOf[m] \in Targets /\ TargetOf[m] # TargetOf[p.m] /\ m # p.m
      BY <3>1 DEF Pending, Present, Targets
    <3>3. m \in Pending'
      BY <1>a, <1>b, <1>c, <3>2 DEF Pending, Present
    <3>4. cores'[TargetOf[m]] = 0
      BY <1>f, <3>1, <3>2
    <3> QED BY <2>3, <3>1, <3>3, <3>4
  <2>7. ~lost' => \A t \in Targets' : cores'[t] = 1 \/ \E q \in procs' : TargetOf[q.m] = t
    <3> SUFFICES ASSUME ~lost, NEW t \in Targets
                 PROVE  cores'[t] = 1 \/ \E q \in procs' : TargetOf[q.m] = t
      BY <1>a, <1>c
    <3>1. CASE t = TargetOf[p.m]
      <4>1. cores[t] < request.cores[t] /\ request.cores[t] = 1
        BY <3>1 DEF OneCoreEach, ProcessInv, Single
      <4>2. cores[t] \in Nat /\ cores'[t] = cores[t] + 1
        BY <1>f, <3>1
      <4> QED BY <4>1, <4>2
    <3>2. CASE t # TargetOf[p.m]
      <4>1. cores[t] = 1 \/ \E q \in procs : TargetOf[q.m] = t
        BY <2>1 DEF TraversalOK
      <4>2. cores'[t] = cores[t]
        BY <1>f, <3>2
      <4> QED BY <1>b, <3>2, <4>1, <4>2
    <3> QED BY <3>1, <3>2
  <2>8. (turn = "wait" => Granted = {})'
    BY <1>a
  <2> QED BY <1>a, <1>c, <2>4, <2>5, <2>6, <2>7, <2>8 DEF TraversalOK
<1>6. WorkersOK'
  <2>1. success' => success
    BY <1>b
  <2> QED BY <1>a, <1>c, <2>1 DEF WorkersOK, ProcessInv, ItemsOn
<1> QED BY <1>1, <1>2, <1>4, <1>5, <1>6 DEF ProcessInv

\* A child of an earlier phase: there is none when every target offers one core.
LEMMA WaitReapsLeftoverProcess == ProcessInv /\ WaitReapsLeftover => ProcessInv'
<1> SUFFICES ASSUME ProcessInv, WaitReapsLeftover PROVE ProcessInv'
  OBVIOUS
<1>a. /\ Types /\ result' = "crashed" /\ procs' \subseteq procs /\ \E p \in procs : p.phase # phase
      /\ phase \in Traversals \cup Iterations
      /\ UNCHANGED <<request, phase, passes, turn, success, done, lost, cores, worker, state, store>>
  BY DEF WaitReapsLeftover, Crash, Traversing, Iterating, Ended, ProcessInv
<1>b. Targets' = Targets /\ OneCoreEach' = OneCoreEach /\ Items(phase)' = Items(phase) /\ Passes' = Passes
  BY <1>a, SameRequest DEF Passes
<1>1. Types'
  BY <1>a, <1>b DEF Types
<1>2. PassesOK'
  BY <1>a, <1>b DEF PassesOK, ProcessInv
<1>3. \A t \in Targets' : Single(t)'
  BY <1>a, <1>b DEF ProcessInv, Single
<1>4. CountingOK'
  <2>1. ~OneCoreEach
    BY <1>a DEF ProcessInv, CountingOK, TraversalOK
  <2> QED BY <1>b, <2>1 DEF CountingOK
<1>5. WorkersOK'
  BY <1>a, <1>b DEF WorkersOK, ProcessInv, ItemsOn
<1> QED BY <1>1, <1>2, <1>3, <1>4, <1>5 DEF ProcessInv

-----------------------------------------------------------------------------
(* So do the steps of its children. *)

LEMMA PerformTyped ==
  ASSUME Types, NEW m \in Mapping, NEW op, NEW ok, Perform(m, op, ok)
  PROVE  DOMAIN state' = Mapping /\ DOMAIN store' = Host /\ \A h \in Host : DOMAIN store'[h] = Component
<1>1. ASSUME NEW h, NEW c, NEW gens, SetStore(h, c, gens)
      PROVE  DOMAIN store' = Host /\ \A k \in Host : DOMAIN store'[k] = Component
  BY <1>1 DEF Types, SetStore
<1>2. ASSUME NEW x, state' = [state EXCEPT ![m] = x]
      PROVE  DOMAIN state' = Mapping
  BY <1>2 DEF Types
<1>3. CASE Retrieve(m, ok) \/ Send(m, ok) \/ Take(m) \/ CleanSnapshots(m)
  BY <1>1, <1>3 DEF Retrieve, Send, Take, CleanSnapshots, Types
<1>4. CASE Restore(m)
  <2>1. state' = state \/ \E x : state' = [state EXCEPT ![m] = x]
    BY <1>4 DEF Restore
  <2> QED BY <1>2, <1>4, <2>1 DEF Restore, Types
<1>5. CASE Delete(m)
  <2>1. state' = state \/ \E x : state' = [state EXCEPT ![m] = x]
    BY <1>5 DEF Delete
  <2> QED BY <1>2, <1>5, <2>1 DEF Delete, Types
<1>6. CASE UNCHANGED <<state, store>>
  BY <1>6 DEF Types
<1> QED BY <1>3, <1>4, <1>5, <1>6 DEF Perform

LEMMA ProcessEndsProcess == ProcessInv /\ ProcessEnds => ProcessInv'
<1> SUFFICES ASSUME ProcessInv, ProcessEnds PROVE ProcessInv'
  OBVIOUS
<1>a. PICK p \in procs, ok \in BOOLEAN :
        /\ Perform(p.m, Operation(p.phase), ok)
        /\ procs' = (procs \ {p}) \cup {[p EXCEPT !.st = IF ok THEN "ok" ELSE "failed"]}
  BY DEF ProcessEnds
<1> DEFINE r == [p EXCEPT !.st = IF ok THEN "ok" ELSE "failed"]
<1>b. UNCHANGED <<request, phase, passes, turn, success, done, lost, result, cores, worker>>
  BY DEF ProcessEnds, coordinator
<1>c. Targets' = Targets /\ OneCoreEach' = OneCoreEach /\ Items(phase)' = Items(phase)
      /\ Owner(phase)' = Owner(phase) /\ Pending' = Pending /\ Marked' = Marked /\ Passes' = Passes
  BY <1>b, SameRequest, SamePending
<1>d. /\ Types /\ p \in Procs /\ r \in Procs
      /\ r.m = p.m /\ r.phase = p.phase /\ TargetOf[p.m] \in Targets
  BY DEF ProcessInv, Types, Procs, ProcStates
<1> HIDE DEF r
<1>e. procs' = (procs \ {p}) \cup {r}
  BY <1>a DEF r
<1>1. Types'
  <2>1. DOMAIN state' = Mapping /\ DOMAIN store' = Host /\ \A h \in Host : DOMAIN store'[h] = Component
    BY <1>a, <1>d, PerformTyped DEF Procs
  <2>2. procs' \subseteq Procs /\ \A q \in procs' : TargetOf[q.m] \in Targets
    BY <1>d, <1>e DEF Types
  <2> QED BY <1>b, <1>c, <1>d, <2>1, <2>2 DEF Types
<1>2. PassesOK'
  BY <1>b, <1>c DEF PassesOK, ProcessInv
<1>3. \A t \in Targets' : Single(t)'
  BY <1>b, <1>c, <1>d, <1>e DEF ProcessInv, Single
<1>4. CountingOK'
  <2> SUFFICES ASSUME OneCoreEach PROVE CountingOK'
    BY <1>c DEF CountingOK
  <2>1. phase \in Traversals /\ TraversalOK
    BY DEF ProcessInv, CountingOK
  <2>2. \A q \in procs' :
          q.phase = phase /\ q.m \in Items(phase) /\ <<Owner(phase), q.m>> \notin done
    BY <1>d, <1>e, <2>1 DEF TraversalOK
  <2>3. Granted' = Granted
    BY <1>b, <1>c DEF Granted
  <2>4. \A t : (\E q \in procs' : TargetOf[q.m] = t) <=> (\E q \in procs : TargetOf[q.m] = t)
    BY <1>d, <1>e
  <2>5. TraversalOK'
    BY <1>b, <1>c, <2>1, <2>2, <2>3, <2>4 DEF TraversalOK
  <2> QED BY <1>b, <2>1, <2>5 DEF CountingOK, Traversals, Iterations
<1>5. WorkersOK'
  BY <1>b, <1>c DEF WorkersOK, ProcessInv, ItemsOn
<1> QED BY <1>1, <1>2, <1>3, <1>4, <1>5 DEF ProcessInv

\* A step that changes nothing of the processes but the workers.
LEMMA OnlyWorkers ==
  ASSUME ProcessInv,
         UNCHANGED <<request, phase, passes, turn, done, lost, cores, procs>>,
         success' \in BOOLEAN, result' \in {"none", "success", "failed", "crashed"},
         phase \in Iterations \/ success' = success,
         worker' \in [Machine -> Workers], WorkersOK',
         DOMAIN state' = Mapping, DOMAIN store' = Host, \A h \in Host : DOMAIN store'[h] = Component
  PROVE  ProcessInv'
<1>a. Targets' = Targets /\ OneCoreEach' = OneCoreEach /\ Items(phase)' = Items(phase)
      /\ Owner(phase)' = Owner(phase) /\ Pending' = Pending /\ Marked' = Marked /\ Passes' = Passes
  BY SameRequest, SamePending
<1>1. Types'
  BY <1>a DEF Types, ProcessInv
<1>2. PassesOK'
  BY <1>a DEF PassesOK, ProcessInv
<1>3. \A t \in Targets' : Single(t)'
  BY <1>a DEF ProcessInv, Single
<1>4. CountingOK'
  <2>1. phase \in Traversals => success' = success
    BY DEF Traversals, Iterations
  <2>2. Granted' = Granted
    BY <1>a DEF Granted
  <2>3. phase \in Traversals /\ TraversalOK => TraversalOK'
    BY <1>a, <2>1, <2>2 DEF TraversalOK
  <2> QED BY <1>a, <2>3 DEF CountingOK, ProcessInv
<1> QED BY <1>1, <1>2, <1>3, <1>4 DEF ProcessInv

\* The worker of t becomes w.
LEMMA OneWorker ==
  ASSUME ProcessInv, NEW t \in Machine, NEW w \in Workers,
         UNCHANGED <<request, phase, passes, turn, done, lost, result, cores, procs>>,
         worker' = [worker EXCEPT ![t] = w],
         phase \in Iterations, t \in Targets, success' \in BOOLEAN, success' => success,
         w.rest \subseteq ItemsOn(t), w.step \in 1 .. Len(Steps[phase]),
         w.st = "ok" \/ (w.st = "reaped" /\ success') => w.rest = {},
         DOMAIN state' = Mapping, DOMAIN store' = Host, \A h \in Host : DOMAIN store'[h] = Component
  PROVE  ProcessInv'
<1>1. worker' \in [Machine -> Workers]
      /\ \A u \in Machine : worker'[u] = (IF u = t THEN w ELSE worker[u])
  BY DEF ProcessInv, Types
<1>2. Targets' = Targets /\ \A u : ItemsOn(u)' = ItemsOn(u)
  BY SameRequest DEF ItemsOn
<1>3. WorkersOK'
  BY <1>1, <1>2 DEF WorkersOK, ProcessInv
<1> QED BY <1>1, <1>3, OnlyWorkers DEF ProcessInv, Types

LEMMA ForkWorkerProcess == ProcessInv /\ ForkWorker => ProcessInv'
<1> SUFFICES ASSUME ProcessInv, ForkWorker PROVE ProcessInv'
  OBVIOUS
<1>1. PICK t \in Targets :
        worker' = [worker EXCEPT ![t] = [st |-> "running", rest |-> ItemsOn(t), step |-> 1]]
  BY DEF ForkWorker
<1>2. phase \in Iterations /\ Types /\ t \in Machine /\ ItemsOn(t) \subseteq Mapping
  BY RequestFacts DEF ForkWorker, Iterating, ProcessInv, ItemsOn
<1>3. [st |-> "running", rest |-> ItemsOn(t), step |-> 1] \in Workers
  BY <1>2 DEF Workers
<1>4. 1 \in 1 .. Len(Steps[phase])
  BY <1>2, FirstStep
<1>5. UNCHANGED <<request, phase, passes, turn, success, done, lost, result, cores, procs, state, store>>
  BY DEF ForkWorker, coordinator
<1>6. success' \in BOOLEAN
      /\ DOMAIN state' = Mapping /\ DOMAIN store' = Host /\ \A h \in Host : DOMAIN store'[h] = Component
  BY <1>2, <1>5 DEF Types
<1> QED BY <1>1, <1>2, <1>3, <1>4, <1>5, <1>6, OneWorker

LEMMA ForkWorkerFailsProcess == ProcessInv /\ ForkWorkerFails => ProcessInv'
<1> SUFFICES ASSUME ProcessInv, ForkWorkerFails PROVE ProcessInv'
  OBVIOUS
<1>1. /\ UNCHANGED <<request, phase, passes, turn, success, done, lost, cores, procs, worker, state, store>>
      /\ result' = "crashed"
  BY DEF ForkWorkerFails, Crash
<1>2. Targets' = Targets /\ \A t : ItemsOn(t)' = ItemsOn(t)
  BY <1>1, SameRequest DEF ItemsOn
<1>3. WorkersOK'
  BY <1>1, <1>2 DEF WorkersOK, ProcessInv
<1> QED BY <1>1, <1>3, OnlyWorkers DEF ProcessInv, Types

LEMMA WaitReapsWorkerProcess == ProcessInv /\ WaitReapsWorker => ProcessInv'
<1> SUFFICES ASSUME ProcessInv, WaitReapsWorker PROVE ProcessInv'
  OBVIOUS
<1>1. PICK t \in Forked :
        /\ worker[t].st # "running"
        /\ success' = (success /\ worker[t].st = "ok")
        /\ worker' = [worker EXCEPT ![t].st = "reaped"]
  BY DEF WaitReapsWorker
<1>2. phase \in Iterations /\ Types /\ WorkersOK /\ t \in Targets /\ t \in Machine /\ worker[t] \in Workers
      /\ UNCHANGED <<request, phase, passes, turn, done, lost, result, cores, procs, state, store>>
  BY RequestFacts DEF WaitReapsWorker, Iterating, ProcessInv, Forked, Types
<1>3. PICK w : w = [worker[t] EXCEPT !.st = "reaped"]
  OBVIOUS
<1>4. w \in Workers /\ w.st = "reaped" /\ w.rest = worker[t].rest /\ w.step = worker[t].step
  BY <1>2, <1>3 DEF Workers
<1>5. worker' = [worker EXCEPT ![t] = w]
  BY <1>1, <1>3
<1>6. /\ w.rest \subseteq ItemsOn(t) /\ w.step \in 1 .. Len(Steps[phase])
      /\ success' => w.rest = {}
  BY <1>1, <1>2, <1>4 DEF WorkersOK
<1>7. success' \in BOOLEAN /\ (success' => success)
      /\ DOMAIN state' = Mapping /\ DOMAIN store' = Host /\ \A h \in Host : DOMAIN store'[h] = Component
  BY <1>1, <1>2 DEF Types
<1> QED BY <1>2, <1>4, <1>5, <1>6, <1>7, OneWorker

\* What follows a step that succeeded.
After(w, m, steps) ==
  IF w.step < Len(steps) THEN [w EXCEPT !.step = @ + 1] ELSE [w EXCEPT !.rest = @ \ {m}, !.step = 1]

LEMMA WorkerStepFacts ==
  ASSUME ProcessInv, WorkerStep
  PROVE  \E t \in Targets, ok \in BOOLEAN, m \in Mapping :
           LET w == worker[t]
               next == IF ok THEN After(w, m, Steps[phase]) ELSE [w EXCEPT !.st = "failed"]
           IN  /\ t \in Machine /\ w.st = "running" /\ w.rest # {} /\ w \in Workers /\ m \in ItemsOn(t)
               /\ m = Min(w.rest) /\ m \in w.rest /\ next \in Workers
               /\ Perform(m, Steps[phase][w.step], ok)
               /\ worker' = [worker EXCEPT ![t] = next]
               /\ phase \in Iterations
               /\ UNCHANGED <<request, phase, passes, turn, success, done, lost, result, cores, procs>>
<1>1. PICK t \in Machine, ok \in BOOLEAN :
        LET w == worker[t]
            m == Min(w.rest)
        IN  /\ w.st = "running" /\ w.rest # {}
            /\ Perform(m, Steps[phase][w.step], ok)
            /\ worker' = [worker EXCEPT ![t] = IF ok THEN After(w, m, Steps[phase]) ELSE [w EXCEPT !.st = "failed"]]
            /\ UNCHANGED <<request, coordinator, cores, procs>>
  BY DEF WorkerStep, After
<1>2. Types /\ WorkersOK /\ worker[t] \in Workers
  BY DEF ProcessInv, Types
<1>3. t \in Targets /\ phase \in Iterations /\ worker[t].rest \subseteq ItemsOn(t)
  BY <1>1, <1>2 DEF WorkersOK
<1>4. Min(worker[t].rest) \in worker[t].rest /\ Min(worker[t].rest) \in Mapping
  <2>1. worker[t].rest \in SUBSET Nat /\ worker[t].rest \subseteq Mapping
    BY <1>2, ConstantsOK DEF Workers
  <2> QED BY <1>1, <2>1, Minimum
<1>5. PICK m : m = Min(worker[t].rest)
  OBVIOUS
<1>6. \A w \in Workers : /\ After(w, m, Steps[phase]) \in Workers
                         /\ [w EXCEPT !.st = "failed"] \in Workers
  <2> SUFFICES ASSUME NEW w \in Workers
               PROVE  After(w, m, Steps[phase]) \in Workers /\ [w EXCEPT !.st = "failed"] \in Workers
    OBVIOUS
  <2>1. [w EXCEPT !.st = "failed"] \in Workers
    BY DEF Workers
  <2>2. [w EXCEPT !.step = @ + 1] \in Workers
    BY DEF Workers
  <2>3. [w EXCEPT !.rest = @ \ {m}, !.step = 1] \in Workers
    BY DEF Workers
  <2> QED BY <2>1, <2>2, <2>3 DEF After
<1> QED BY <1>1, <1>2, <1>3, <1>4, <1>5, <1>6 DEF coordinator

LEMMA WorkerStepProcess == ProcessInv /\ WorkerStep => ProcessInv'
<1> SUFFICES ASSUME ProcessInv, WorkerStep PROVE ProcessInv'
  OBVIOUS
<1>1. PICK t \in Targets, ok \in BOOLEAN, m \in Mapping :
           LET w == worker[t]
               next == IF ok THEN After(w, m, Steps[phase]) ELSE [w EXCEPT !.st = "failed"]
           IN  /\ t \in Machine /\ w.st = "running" /\ w.rest # {} /\ w \in Workers /\ m \in ItemsOn(t)
               /\ m = Min(w.rest) /\ m \in w.rest /\ next \in Workers
               /\ Perform(m, Steps[phase][w.step], ok)
               /\ worker' = [worker EXCEPT ![t] = next]
               /\ phase \in Iterations
               /\ UNCHANGED <<request, phase, passes, turn, success, done, lost, result, cores, procs>>
  BY WorkerStepFacts
<1>2. PICK next : next = IF ok THEN After(worker[t], m, Steps[phase]) ELSE [worker[t] EXCEPT !.st = "failed"]
  OBVIOUS
<1>3. Types /\ worker[t].rest \subseteq ItemsOn(t) /\ worker[t].step \in 1 .. Len(Steps[phase])
  BY <1>1 DEF ProcessInv, WorkersOK
<1>4. next.rest \subseteq ItemsOn(t) /\ next.step \in 1 .. Len(Steps[phase]) /\ next.st \in {"running", "failed"}
  <2>1. Len(Steps[phase]) \in {1, 3} /\ worker[t].step \in Nat
    BY <1>1, StepsFacts DEF Workers
  <2>2. CASE ~ok
    BY <1>1, <1>2, <1>3, <2>2 DEF Workers
  <2>3. CASE ok /\ worker[t].step < Len(Steps[phase])
    <3>1. next = [worker[t] EXCEPT !.step = @ + 1]
      BY <1>2, <2>3 DEF After
    <3>2. next.rest = worker[t].rest /\ next.step = worker[t].step + 1 /\ next.st = "running"
      BY <1>1, <3>1 DEF Workers
    <3>3. worker[t].step + 1 \in 1 .. Len(Steps[phase])
      BY <1>3, <2>1, <2>3
    <3> QED BY <1>3, <3>2, <3>3
  <2>4. CASE ok /\ ~(worker[t].step < Len(Steps[phase]))
    <3>1. next = [worker[t] EXCEPT !.rest = @ \ {m}, !.step = 1]
      BY <1>2, <2>4 DEF After
    <3>2. next.rest = worker[t].rest \ {m} /\ next.step = 1 /\ next.st = "running"
      BY <1>1, <3>1 DEF Workers
    <3> QED BY <1>1, <1>3, <3>2, FirstStep
  <2> QED BY <1>1, <2>2, <2>3, <2>4
<1>5. DOMAIN state' = Mapping /\ DOMAIN store' = Host /\ \A h \in Host : DOMAIN store'[h] = Component
  BY <1>1, <1>3, PerformTyped
<1>6. next \in Workers /\ worker' = [worker EXCEPT ![t] = next]
  BY <1>1, <1>2
<1>7. success' \in BOOLEAN /\ (success' => success)
  BY <1>1, <1>3 DEF Types
<1> QED BY <1>1, <1>4, <1>5, <1>6, <1>7, OneWorker

LEMMA WorkerExitsProcess == ProcessInv /\ WorkerExits => ProcessInv'
<1> SUFFICES ASSUME ProcessInv, WorkerExits PROVE ProcessInv'
  OBVIOUS
<1>1. PICK t \in Machine :
        worker[t].st = "running" /\ worker[t].rest = {} /\ worker' = [worker EXCEPT ![t].st = "ok"]
  BY DEF WorkerExits
<1>2. UNCHANGED <<request, phase, passes, turn, success, done, lost, result, cores, procs, state, store>>
  BY DEF WorkerExits, coordinator
<1>3. Types /\ worker[t] \in Workers /\ t \in Targets /\ phase \in Iterations
      /\ worker[t].step \in 1 .. Len(Steps[phase])
  BY <1>1 DEF ProcessInv, WorkersOK, Types
<1>4. PICK w : w = [worker[t] EXCEPT !.st = "ok"]
  OBVIOUS
<1>5. w \in Workers /\ w.st = "ok" /\ w.rest = {} /\ w.step = worker[t].step
  BY <1>1, <1>3, <1>4 DEF Workers
<1>6. worker' = [worker EXCEPT ![t] = w]
  BY <1>1, <1>4
<1>7. success' \in BOOLEAN /\ (success' => success)
      /\ DOMAIN state' = Mapping /\ DOMAIN store' = Host /\ \A h \in Host : DOMAIN store'[h] = Component
  BY <1>2, <1>3 DEF Types
<1>8. {} \subseteq ItemsOn(t)
  OBVIOUS
<1> QED BY <1>2, <1>3, <1>5, <1>6, <1>7, <1>8, OneWorker

-----------------------------------------------------------------------------
(* The theorems on the processes. *)

LEMMA NextProcess == ProcessInv /\ [Next]_vars => ProcessInv'
<1> SUFFICES ASSUME ProcessInv, [Next]_vars PROVE ProcessInv'
  OBVIOUS
<1>1. CASE Coordinator
  BY <1>1, ReturnProcess, ForkItemsProcess, WaitForNothingProcess, WaitReapsItemProcess, ForkWorkerProcess,
     WaitReapsWorkerProcess, WaitReapsLeftoverProcess, ForkWorkerFailsProcess DEF Coordinator
<1>2. CASE ProcessEnds
  BY <1>2, ProcessEndsProcess
<1>3. CASE WorkerStep
  BY <1>3, WorkerStepProcess
<1>4. CASE WorkerExits
  BY <1>4, WorkerExitsProcess
<1>5. CASE UNCHANGED vars
  <2>1. /\ UNCHANGED <<request, phase, passes, turn, success, done, lost, result, cores, procs>>
        /\ UNCHANGED <<worker, state, store>>
    BY <1>5 DEF vars, coordinator
  <2>2. Targets' = Targets /\ \A t : ItemsOn(t)' = ItemsOn(t)
    BY <2>1, SameRequest DEF ItemsOn
  <2>3. WorkersOK'
    BY <2>1, <2>2 DEF WorkersOK, ProcessInv
  <2> QED BY <2>1, <2>3, OnlyWorkers DEF ProcessInv, Types
<1> QED BY <1>1, <1>2, <1>3, <1>4, <1>5 DEF Next, Returned

\* The processes of a migration, whatever the machines, the mappings and the
\* commands (map_snapshot_items, procreact_pid_iterator.c): the inductive
\* invariant.
THEOREM ProcessInvariance == Spec => []ProcessInv
<1> QED BY InitProcess, NextProcess, PTL DEF Spec

\* The type of the state.
THEOREM TypeCorrect == Spec => []TypeOK
<1>1. ProcessInv => TypeOK
  <2> SUFFICES ASSUME ProcessInv PROVE TypeOK
    OBVIOUS
  <2>1. Types /\ Passes \in 0 .. Cardinality(Mapping) /\ Cardinality(Mapping) \in Nat
    BY RequestFacts, ConstantsOK, FS_CardinalityType DEF ProcessInv
  <2>2. passes \in 0 .. Cardinality(Mapping)
    BY <2>1 DEF ProcessInv, PassesOK, Types
  <2>3. \A p \in procs : p.phase \in Traversals /\ p.m \in Mapping /\ p.st \in {"running", "ok", "failed"}
    BY <2>1 DEF Types, Procs, ProcStates
  <2>4. \A t \in Machine : worker[t].st \in {"none", "running", "ok", "failed", "reaped"}
                           /\ worker[t].rest \subseteq Mapping
    <3>1. \A t \in Machine : worker[t] \in Workers
      BY <2>1 DEF Types
    <3> QED BY <3>1 DEF Workers
  <2> QED BY <2>1, <2>2, <2>3, <2>4 DEF TypeOK, Types, Marks
<1> QED BY <1>1, ProcessInvariance, PTL

\* On a target that offers one core no two remote operations run at a time
\* (snapshotmapping-traverse.c), also when operations of an earlier phase are
\* still running and when fork() fails.
THEOREM OneOperationAtATime == Spec => []OneAtATime
<1>1. ProcessInv => OneAtATime
  <2> SUFFICES ASSUME ProcessInv, NEW p \in procs, NEW q \in procs, p # q, TargetOf[p.m] = TargetOf[q.m]
               PROVE  request.cores[TargetOf[p.m]] > 1
    BY DEF OneAtATime
  <2>1. TargetOf[p.m] \in Targets /\ request.cores[TargetOf[p.m]] \in Nat
    BY RequestFacts DEF ProcessInv, Types
  <2>2. ~(request.cores[TargetOf[p.m]] <= 1)
    BY <2>1 DEF ProcessInv, Single
  <2> QED BY <2>1, <2>2
<1> QED BY <1>1, ProcessInvariance, PTL

\* When every target offers one core a traversal has reaped all that it forked
\* when it returns, although it makes as many passes as there are mappings and
\* not as many as are needed (snapshotmapping-traverse.c).
THEOREM TraversalsReapAll == Spec => []NothingLeftBehind
<1>1. ProcessInv => NothingLeftBehind
  BY DEF ProcessInv, CountingOK, TraversalOK, NothingLeftBehind
<1> QED BY <1>1, ProcessInvariance, PTL

-----------------------------------------------------------------------------
(* The order of the phases of a migration, and what they work on. *)

LEMMA UpgradingFacts ==
  ASSUME Types, Upgrading
  PROVE  /\ request.upgrade /\ request.known /\ request.command = "migrate" /\ OneCoreEach
         /\ SnapshotItems = Gone /\ RestoreItems = Fresh /\ DeleteItems = request.old
         /\ Gone \subseteq Mapping /\ Fresh \subseteq Mapping /\ request.old \subseteq Mapping
         /\ \A n \in Fresh : Present(n)
<1>1. RequestOK(request)
  BY RequestFacts
<1>2. request.upgrade /\ request.known /\ request.command = "migrate" /\ OneCoreEach
  BY <1>1 DEF RequestOK, Upgrading
<1>3. \A n \in Fresh : Present(n)
  BY <1>1 DEF RequestOK, Fresh, Present
<1> QED BY <1>1, <1>2, <1>3 DEF RequestOK, SnapshotItems, RestoreItems, DeleteItems, Gone, Fresh

LEMMA ItemsFacts ==
  /\ \A p \in {"snapshot", "retrieve", "snapshot_depth"} : Items(p) = SnapshotItems
  /\ \A p \in {"send", "restore_all", "restore_depth"} : Items(p) = RestoreItems
  /\ Items("delete") = DeleteItems
<1>1. \A p \in {"snapshot", "retrieve", "snapshot_depth"} : Items(p) = SnapshotItems
  BY DEF Items
<1>2. \A p \in {"send", "restore_all", "restore_depth"} : Items(p) = RestoreItems
  BY DEF Items
<1>3. Items("delete") = DeleteItems
  BY DEF Items
<1> QED BY <1>1, <1>2, <1>3

LEMMA SuccessorFacts ==
  ASSUME request.command = "migrate", ~request.transferOnly
  PROVE  /\ Successor("begin") = SnapshotStarts /\ Successor("snapshot") = "retrieve"
         /\ Successor("retrieve") = "snapshotted" /\ Successor("snapshot_depth") = "snapshotted"
         /\ Successor("send") = "restore_all" /\ Successor("restore_all") = "restored"
         /\ Successor("restore_depth") = "restored" /\ Successor("delete") = "returned"
<1>1. Successor("begin") = SnapshotStarts
  BY Zenon DEF Successor
<1>2. Successor("snapshot") = "retrieve"
  BY Zenon DEF Successor
<1>3. Successor("retrieve") = "snapshotted"
  BY Zenon DEF Successor
<1>4. Successor("snapshot_depth") = "snapshotted"
  BY Zenon DEF Successor
<1>5. Successor("send") = "restore_all"
  BY Zenon DEF Successor
<1>6. Successor("restore_all") = "restored"
  BY Zenon DEF Successor
<1>7. Successor("restore_depth") = "restored"
  BY Zenon DEF Successor
<1>8. Successor("delete") = "returned"
  BY Zenon DEF Successor
<1> QED BY <1>1, <1>2, <1>3, <1>4, <1>5, <1>6, <1>7, <1>8

LEMMA ContinuedFacts ==
  ASSUME request.command = "migrate"
  PROVE  /\ Continued("snapshotted") = RestoreStarts /\ Continued("restored") = DeleteStarts
         /\ Continued("retrieve") = "retrieve" /\ Continued("snapshot") = "snapshot"
         /\ Continued("snapshot_depth") = "snapshot_depth" /\ Continued("restore_all") = "restore_all"
         /\ Continued("returned") = "returned"
<1>1. Continued("snapshotted") = RestoreStarts
  BY Zenon DEF Continued
<1>2. Continued("restored") = DeleteStarts
  BY Zenon DEF Continued
<1>3. Continued("retrieve") = "retrieve" /\ Continued("snapshot") = "snapshot"
  BY Zenon DEF Continued
<1>4. Continued("snapshot_depth") = "snapshot_depth" /\ Continued("restore_all") = "restore_all"
  BY Zenon DEF Continued
<1>5. Continued("returned") = "returned"
  BY Zenon DEF Continued
<1> QED BY <1>1, <1>2, <1>3, <1>4, <1>5

LEMMA OrderOfPhases ==
  ASSUME Types, Upgrading
  PROVE  /\ FollowedBy("begin") \in {"snapshot", "snapshot_depth"}
         /\ FollowedBy("snapshot") = "retrieve"
         /\ FollowedBy("retrieve") \in {"send", "restore_depth"}
         /\ FollowedBy("snapshot_depth") \in {"send", "restore_depth"}
         /\ FollowedBy("send") = "restore_all"
         /\ FollowedBy("restore_all") \in {"delete", "returned"}
         /\ FollowedBy("restore_depth") \in {"delete", "returned"}
         /\ FollowedBy("delete") = "returned"
<1>1. request.command = "migrate" /\ ~request.transferOnly /\ request.known /\ request.upgrade
  BY UpgradingFacts DEF Upgrading
<1>2. SnapshotStarts \in {"snapshot", "snapshot_depth"}
  BY <1>1 DEF SnapshotStarts
<1>3. RestoreStarts \in {"send", "restore_depth"}
  BY DEF RestoreStarts
<1>4. DeleteStarts \in {"delete", "returned"}
  BY DEF DeleteStarts
<1>5. \A p : Continued(Successor(p)) \in Traversals \cup Iterations \cup {"returned"}
             => FollowedBy(p) = Continued(Successor(p))
  BY DEF FollowedBy
<1>6. {"snapshot", "snapshot_depth", "retrieve", "send", "restore_all", "restore_depth", "delete", "returned"}
        = Traversals \cup Iterations \cup {"returned"}
  BY DEF Traversals, Iterations
<1>7. \A x \in {"snapshot", "snapshot_depth"} : Continued(x) = x
  BY <1>1, ContinuedFacts
<1>8. Continued(Successor("begin")) \in {"snapshot", "snapshot_depth"}
  BY <1>1, <1>2, <1>7, SuccessorFacts
<1>9. Continued(Successor("retrieve")) \in {"send", "restore_depth"}
      /\ Continued(Successor("snapshot_depth")) \in {"send", "restore_depth"}
  BY <1>1, <1>3, SuccessorFacts, ContinuedFacts
<1>10. Continued(Successor("restore_all")) \in {"delete", "returned"}
       /\ Continued(Successor("restore_depth")) \in {"delete", "returned"}
  BY <1>1, <1>4, SuccessorFacts, ContinuedFacts
<1>11. Continued(Successor("snapshot")) = "retrieve" /\ Continued(Successor("send")) = "restore_all"
       /\ Continued(Successor("delete")) = "returned"
  BY <1>1, SuccessorFacts, ContinuedFacts
<1> HIDE DEF Traversals, Iterations
<1> QED BY <1>5, <1>6, <1>8, <1>9, <1>10, <1>11

-----------------------------------------------------------------------------
(* Generations, and a copy of the newest snapshot. *)

LEMMA GenerationFacts ==
  ASSUME NEW g, IsSeq(g), NEW s
  PROVE  /\ IsSeq(Generation(g, s)) /\ Generation(g, s) # <<>> /\ Last(Generation(g, s)) = s
         /\ s \in Range(Generation(g, s)) /\ Range(g) \subseteq Range(Generation(g, s))
<1>1. PICK S : g \in Seq(S)
  BY DEF IsSeq
<1>2. PICK T : T = S \cup {s}
  OBVIOUS
<1>3. g \in Seq(T) /\ s \in T
  BY <1>1, <1>2
<1>4. CASE g # <<>> /\ Last(g) = s
  <2>1. Len(g) \in DOMAIN g
    BY <1>3, <1>4
  <2>2. Generation(g, s) = g
    BY <1>4 DEF Generation
  <2>3. s \in Range(g)
    BY <1>4, <2>1 DEF Last, Range
  <2> QED BY <1>1, <1>4, <2>2, <2>3 DEF IsSeq
<1>5. CASE ~(g # <<>> /\ Last(g) = s)
  <2>1. Generation(g, s) = Append(g, s)
    BY <1>5 DEF Generation
  <2>2. PICK h : h = Append(g, s)
    OBVIOUS
  <2>3. h \in Seq(T) /\ Len(h) = Len(g) + 1 /\ h[Len(g) + 1] = s /\ DOMAIN h = 1 .. Len(g) + 1
        /\ Len(g) \in Nat
    BY <1>3, <2>2
  <2>4. \A n \in DOMAIN g : n \in DOMAIN h /\ h[n] = g[n]
    BY <1>3, <2>2
  <2>5. h # <<>> /\ Last(h) = s /\ Len(g) + 1 \in DOMAIN h
    BY <2>3 DEF Last
  <2>6. s \in Range(h) /\ Range(g) \subseteq Range(h)
    BY <2>3, <2>4, <2>5 DEF Range
  <2> QED BY <2>1, <2>2, <2>3, <2>5, <2>6 DEF IsSeq
<1> QED BY <1>4, <1>5

LEMMA CleanFacts ==
  ASSUME NEW g, IsSeq(g)
  PROVE  IsSeq(Clean(g, Keep))
<1>1. PICK S : g \in Seq(S)
  BY DEF IsSeq
<1>2. CASE Len(g) <= Keep
  BY <1>1, <1>2 DEF Clean, IsSeq
<1>3. CASE ~(Len(g) <= Keep)
  <2>1. Keep \in Nat /\ Len(g) \in Nat /\ Len(g) - Keep + 1 \in 1 .. Len(g) + 1
    BY <1>1, <1>3, ConstantsOK
  <2>2. SubSeq(g, Len(g) - Keep + 1, Len(g)) \in Seq(S)
    BY <1>1, <2>1
  <2> QED BY <1>3, <2>2 DEF Clean, IsSeq
<1> QED BY <1>2, <1>3

\* The rounds of a copy, one after another.  There is a function that satisfies
\* the recursion: the least number of rounds without one cannot be.
RoundByRound(after, direction, q, dst) ==
    /\ after[0] = {Outcome(dst, TRUE)}
    /\ \A n \in 1 .. Len(q) : after[n] = UNION {Round(direction, o, q[n], q) : o \in after[n - 1]}

LEMMA CopyRounds ==
  ASSUME NEW direction, NEW q, IsSeq(q), NEW dst
  PROVE  \E after : /\ Copy(direction, q, dst) = {Outcome(dst, FALSE)} \cup after[Len(q)]
                    /\ RoundByRound(after, direction, q, dst)
<1> DEFINE start == Outcome(dst, TRUE)
           Rounds(n, S) == UNION {Round(direction, o, q[n], q) : o \in S}
           Is(f, k) == f = [n \in 0 .. k |-> IF n = 0 THEN {start} ELSE Rounds(n, f[n - 1])]
           Without == {k \in Nat : ~\E f : Is(f, k)}
           F == CHOOSE f : Is(f, Len(q))
<1>1. Len(q) \in Nat
  BY DEF IsSeq
<1>2. Copy(direction, q, dst) = {Outcome(dst, FALSE)} \cup F[Len(q)]
  BY DEF Copy
<1> HIDE DEF start, Rounds
<1>3. Without = {}
  <2> SUFFICES ASSUME Without # {} PROVE FALSE
    OBVIOUS
  <2>1. PICK k \in Without : \A j \in Without : k <= j
    <3>1. Without \in SUBSET Nat
      OBVIOUS
    <3> HIDE DEF Without
    <3> QED BY <3>1, Minimum
  <2>2. CASE k = 0
    <3>1. PICK f : f = [n \in 0 .. 0 |-> {start}]
      OBVIOUS
    <3>2. \A n \in 0 .. 0 : n = 0
      OBVIOUS
    <3>3. f = [n \in 0 .. 0 |-> IF n = 0 THEN {start} ELSE Rounds(n, f[n - 1])]
      BY <3>1, <3>2
    <3> QED BY <2>1, <2>2, <3>3
  <2>3. CASE k # 0
    <3>1. k \in Nat \ {0} /\ k - 1 \in Nat /\ k - 1 \notin Without
      <4>1. k \in Nat
        BY <2>1
      <4> HIDE DEF Without
      <4> QED BY <2>1, <2>3, <4>1
    <3>2. PICK f : Is(f, k - 1)
      BY <3>1
    <3>3. PICK g : g = [n \in 0 .. k |-> IF n = k THEN Rounds(n, f[n - 1]) ELSE f[n]]
      OBVIOUS
    <3>4. \A n \in 1 .. k : g[n - 1] = f[n - 1]
      BY <3>1, <3>3
    <3>5. \A n \in 0 .. k : g[n] = IF n = 0 THEN {start} ELSE Rounds(n, g[n - 1])
      <4> SUFFICES ASSUME NEW n \in 0 .. k PROVE g[n] = IF n = 0 THEN {start} ELSE Rounds(n, g[n - 1])
        OBVIOUS
      <4>1. CASE n = k
        BY <3>1, <3>3, <3>4, <4>1
      <4>2. CASE n # k
        <5>1. n \in 0 .. k - 1
          BY <3>1, <4>2
        <5>2. f[n] = IF n = 0 THEN {start} ELSE Rounds(n, f[n - 1])
          BY <3>2, <5>1
        <5> QED BY <3>1, <3>3, <3>4, <4>2, <5>2
      <4> QED BY <4>1, <4>2
    <3>6. Is(g, k)
      BY <3>3, <3>5
    <3> QED BY <2>1, <3>6
  <2> QED BY <2>2, <2>3
<1>4. \E f : Is(f, Len(q))
  BY <1>1, <1>3
<1> HIDE DEF Is
<1>5. Is(F, Len(q))
  BY <1>4
<1>6. PICK f : f = F
  OBVIOUS
<1>7. PICK L : L = Len(q)
  OBVIOUS
<1>8. f[0] = {start} /\ \A n \in 1 .. L : f[n] = Rounds(n, f[n - 1])
  <2>1. f = [n \in 0 .. L |-> IF n = 0 THEN {start} ELSE Rounds(n, f[n - 1])]
    BY <1>5, <1>6, <1>7 DEF Is
  <2>2. 0 \in 0 .. L /\ \A n \in 1 .. L : n \in 0 .. L /\ n # 0
    BY <1>1, <1>7
  <2>3. \A n \in 0 .. L : f[n] = IF n = 0 THEN {start} ELSE Rounds(n, f[n - 1])
    BY <2>1, Zenon
  <2> QED BY <2>2, <2>3
<1>9. RoundByRound(f, direction, q, dst)
  BY <1>7, <1>8 DEF start, Rounds, RoundByRound
<1> QED BY <1>2, <1>6, <1>9

LEMMA CopyNothing ==
  ASSUME NEW direction, NEW dst, NEW o \in Copy(direction, <<>>, dst)
  PROVE  o.gens = dst
<1>1. PICK q : q = <<>> /\ IsSeq(q) /\ Len(q) = 0
  <2>1. <<>> \in Seq({})
    OBVIOUS
  <2>2. IsSeq(<<>>)
    BY <2>1 DEF IsSeq
  <2> QED BY <2>2
<1>2. PICK after : /\ Copy(direction, q, dst) = {Outcome(dst, FALSE)} \cup after[Len(q)]
                   /\ RoundByRound(after, direction, q, dst)
  BY <1>1, CopyRounds
<1>3. o \in {Outcome(dst, FALSE), Outcome(dst, TRUE)}
  BY <1>1, <1>2 DEF RoundByRound
<1> QED BY <1>3 DEF Outcome

LEMMA CopyOneRound ==
  ASSUME NEW direction, NEW s, NEW dst
  PROVE  Copy(direction, <<s>>, dst) =
           {Outcome(dst, FALSE)} \cup Round(direction, Outcome(dst, TRUE), s, <<s>>)
<1>1. PICK q : q = <<s>> /\ IsSeq(q) /\ Len(q) = 1 /\ q[1] = s
  <2>1. <<s>> \in Seq({s})
    OBVIOUS
  <2>2. IsSeq(<<s>>)
    BY <2>1 DEF IsSeq
  <2> QED BY <2>2
<1>2. PICK start : start = Outcome(dst, TRUE)
  OBVIOUS
<1>3. PICK after : /\ Copy(direction, q, dst) = {Outcome(dst, FALSE)} \cup after[Len(q)]
                   /\ RoundByRound(after, direction, q, dst)
  BY <1>1, CopyRounds
<1>4. after[0] = {start} /\ after[1] = UNION {Round(direction, o, q[1], q) : o \in after[1 - 1]}
  BY <1>1, <1>2, <1>3 DEF RoundByRound
<1>5. after[1] = UNION {Round(direction, o, s, q) : o \in {start}}
  BY <1>1, <1>4
<1>6. after[1] = Round(direction, start, s, q)
  BY <1>5
<1>7. after[Len(q)] = after[1]
  BY <1>1
<1> QED BY <1>1, <1>2, <1>3, <1>6, <1>7

\* A round adds a generation or leaves the store alone.
LEMMA RoundAdds ==
  ASSUME NEW direction \in {"to", "from"}, NEW x, NEW s, NEW q, NEW o \in Round(direction, x, s, q)
  PROVE  /\ o.gens = x.gens \/ \E v : o.gens = Generation(x.gens, v)
         /\ direction = "to" /\ o.ok => o.gens = Generation(x.gens, s)
<1>1. ASSUME NEW v
      PROVE  /\ Imported(x, v).gens = Generation(x.gens, v)
             /\ Failed(x).gens = x.gens /\ Failed(x).ok = FALSE
  BY DEF Imported, Failed, Outcome
<1>2. CASE direction = "to"
  <2>1. o \in SendRound(x, s)
    BY <1>2 DEF Round
  <2>2. o \in {Failed(x), Imported(x, s)}
    BY <2>1 DEF SendRound, OrderRemotely, SendMissing
  <2> QED BY <1>1, <2>2
<1>3. CASE direction = "from"
  <2>1. o \in RetrieveRound(x, s, q)
    BY <1>3 DEF Round
  <2>2. o = Failed(x) \/ \E v : o = Imported(x, v)
    BY <2>1 DEF RetrieveRound, OrderLocally, RetrieveMissing
  <2> QED BY <1>1, <1>3, <2>2
<1> QED BY <1>2, <1>3

\* Whatever a copy does in its rounds, it ends with generations in order; and
\* one that sends ends with the round of the newest snapshot.
LEMMA CopyAdds ==
  ASSUME NEW direction \in {"to", "from"}, NEW q, IsSeq(q), NEW dst, IsSeq(dst),
         NEW o \in Copy(direction, q, dst)
  PROVE  /\ IsSeq(o.gens)
         /\ direction = "to" /\ q # <<>> /\ o.ok => Last(o.gens) = Last(q)
<1>1. PICK after : /\ Copy(direction, q, dst) = {Outcome(dst, FALSE)} \cup after[Len(q)]
                   /\ RoundByRound(after, direction, q, dst)
  BY CopyRounds
<1>2. PICK L \in Nat : L = Len(q)
  BY DEF IsSeq
<1>3. \A b : Outcome(dst, b).gens = dst /\ Outcome(dst, b).ok = b
  BY DEF Outcome
<1>4. ASSUME NEW n \in 1 .. L, NEW y \in after[n]
      PROVE  \E x \in after[n - 1] : y \in Round(direction, x, q[n], q)
  BY <1>1, <1>2, <1>4 DEF RoundByRound
<1>5. ASSUME NEW n \in 0 .. L, NEW y \in after[n]
      PROVE  IsSeq(y.gens)
  <2> DEFINE Wrong == {k \in 0 .. L : \E z \in after[k] : ~IsSeq(z.gens)}
  <2>1. SUFFICES ASSUME Wrong # {} PROVE FALSE
    BY <1>5
  <2>2. PICK k \in Wrong : \A j \in Wrong : k <= j
    <3>1. Wrong \in SUBSET Nat
      BY <1>2
    <3> HIDE DEF Wrong
    <3> QED BY <2>1, <3>1, Minimum
  <2>3. PICK z \in after[k] : ~IsSeq(z.gens)
    BY <2>2
  <2>4. CASE k = 0
    <3>1. z = Outcome(dst, TRUE)
      BY <1>1, <2>3, <2>4 DEF RoundByRound
    <3> QED BY <1>3, <2>3, <3>1
  <2>5. CASE k # 0
    <3>1. k \in 1 .. L /\ k - 1 \in 0 .. L /\ k - 1 < k
      BY <1>2, <2>2, <2>5
    <3>2. PICK x \in after[k - 1] : z \in Round(direction, x, q[k], q)
      BY <1>4, <2>3, <3>1
    <3>3. k - 1 \notin Wrong
      <4> HIDE DEF Wrong
      <4> QED BY <2>2, <3>1
    <3>4. IsSeq(x.gens)
      BY <3>1, <3>2, <3>3
    <3> QED BY <2>3, <3>2, <3>4, RoundAdds, GenerationFacts
  <2> QED BY <2>4, <2>5
<1>6. o = Outcome(dst, FALSE) \/ o \in after[L]
  BY <1>1, <1>2
<1>7. IsSeq(o.gens)
  <2>1. L \in 0 .. L
    BY <1>2
  <2>2. o \in after[L] => IsSeq(o.gens)
    BY <1>5, <2>1
  <2> QED BY <1>3, <1>6, <2>2
<1>8. ASSUME direction = "to", q # <<>>, o.ok
      PROVE  Last(o.gens) = Last(q)
  <2>1. L \in 1 .. L /\ L - 1 \in 0 .. L
    BY <1>2, <1>8 DEF IsSeq
  <2>2. o \in after[L]
    BY <1>3, <1>6, <1>8
  <2>3. PICK x \in after[L - 1] : o \in Round(direction, x, q[L], q)
    BY <1>4, <2>1, <2>2
  <2>4. IsSeq(x.gens) /\ o.gens = Generation(x.gens, q[L])
    BY <1>5, <1>8, <2>1, <2>3, RoundAdds
  <2> QED BY <1>2, <2>4, GenerationFacts DEF Last
<1> QED BY <1>7, <1>8

\* A round with one snapshot imports it or leaves the store alone.
LEMMA RoundFacts ==
  ASSUME NEW direction \in {"to", "from"}, NEW s, NEW dst,
         NEW o \in Copy(direction, <<s>>, dst)
  PROVE  o.gens \in {dst, Generation(dst, s)} /\ (o.ok => o.gens = Generation(dst, s))
<1> DEFINE start == Outcome(dst, TRUE)
           fail == Outcome(dst, FALSE)
           done1 == Outcome(Generation(dst, s), TRUE)
<1>1. Failed(start) = fail /\ Imported(start, s) = done1 /\ start.gens = dst
  BY DEF Failed, Imported, Outcome
<1>a. o = fail \/ o \in Round(direction, start, s, <<s>>)
  <2>1. o \in {Outcome(dst, FALSE)} \cup Round(direction, Outcome(dst, TRUE), s, <<s>>)
    BY CopyOneRound, Zenon
  <2> QED BY <2>1, Zenon
<1>2. o \in {fail, done1}
  <2> HIDE DEF start, fail, done1
  <2>2. SendRound(start, s) \subseteq {fail, done1}
    BY <1>1 DEF SendRound, OrderRemotely, SendMissing
  <2>3. RetrieveRound(start, s, <<s>>) \subseteq {fail, done1}
    <3>1. PICK q : q = <<s>> /\ DOMAIN q = {1} /\ q[1] = s
      OBVIOUS
    <3>2. PICK missing : missing = PrintMissing(q, start.gens)
      OBVIOUS
    <3>3. missing \subseteq {1}
      BY <3>1, <3>2 DEF PrintMissing
    <3>4. missing # {} => q[Min(missing)] = s
      <4>1. missing # {} => Min(missing) = 1
        <5>1. missing \in SUBSET Nat
          BY <3>3
        <5>2. missing # {} => Min(missing) \in missing
          BY <5>1, Minimum
        <5> QED BY <3>3, <5>2
      <4> QED BY <3>1, <4>1
    <3>5. RetrieveRound(start, s, q) =
            {Failed(start)} \cup IF missing = {} THEN OrderLocally(start, s) ELSE RetrieveMissing(start, q, missing)
      BY <3>2 DEF RetrieveRound
    <3>6. RetrieveRound(start, s, q) \subseteq {fail, done1}
      BY <1>1, <3>4, <3>5 DEF OrderLocally, RetrieveMissing
    <3> QED BY <3>1, <3>6
  <2> QED BY <1>a, <2>2, <2>3 DEF Round
<1> QED BY <1>2 DEF Outcome

LEMMA CopyLatest ==
  ASSUME NEW direction \in {"to", "from"}, NEW src, NEW dst, NEW all, ~all,
         NEW o \in Copy(direction, Query(src, all), dst)
  PROVE  /\ src = <<>> => o.gens = dst
         /\ src # <<>> => /\ o.gens \in {dst, Generation(dst, Last(src))}
                          /\ o.ok => o.gens = Generation(dst, Last(src))
<1>1. CASE src = <<>>
  <2>1. Query(src, all) = <<>>
    BY <1>1 DEF Query, QueryLatest
  <2> QED BY <1>1, <2>1, CopyNothing
<1>2. CASE src # <<>>
  <2>1. Query(src, all) = <<Last(src)>>
    BY <1>2 DEF Query, QueryLatest
  <2>2. o \in Copy(direction, <<Last(src)>>, dst)
    BY <2>1, Zenon
  <2> QED BY <1>2, <2>2, RoundFacts
<1> QED BY <1>1, <1>2

-----------------------------------------------------------------------------
(* What an operation changes, and what it does not. *)

LEMMA StoreStep ==
  ASSUME Types, NEW h \in Host, NEW c \in Component, NEW g, SetStore(h, c, g)
  PROVE  \A k \in Host, d \in Component :
           store'[k][d] = IF k = h /\ d = c THEN g ELSE store[k][d]
  BY DEF Types, SetStore

LEMMA Places ==
  /\ "coordinator" \in Host /\ Machine \subseteq Host
  /\ \A m \in Mapping : /\ TargetOf[m] \in Machine /\ TargetOf[m] \in Host /\ ComponentOf[m] \in Component
                        /\ TargetOf[m] # "coordinator"
  /\ \A m, n \in Mapping : TargetOf[m] = TargetOf[n] /\ ComponentOf[m] = ComponentOf[n] => m = n
  BY ConstantsOK DEF Host

\* One component in one store becomes g: a machine's, or the coordinator's.
LEMMA OnlyOn ==
  ASSUME Types, NEW m \in Mapping, NEW g, SetStore(TargetOf[m], ComponentOf[m], g)
  PROVE  /\ On(m)' = g
         /\ \A x \in Mapping : Kept(x)' = Kept(x) /\ (x # m => On(x)' = On(x))
<1>1. \A k \in Host, d \in Component :
        store'[k][d] = IF k = TargetOf[m] /\ d = ComponentOf[m] THEN g ELSE store[k][d]
  BY Places, StoreStep
<1> QED BY <1>1, Places DEF On, Kept

LEMMA OnlyKept ==
  ASSUME Types, NEW m \in Mapping, NEW g, SetStore("coordinator", ComponentOf[m], g)
  PROVE  /\ Kept(m)' = g
         /\ \A x \in Mapping : /\ On(x)' = On(x)
                               /\ ComponentOf[x] # ComponentOf[m] => Kept(x)' = Kept(x)
                               /\ ComponentOf[x] = ComponentOf[m] => Kept(x)' = g
<1>1. \A k \in Host, d \in Component :
        store'[k][d] = IF k = "coordinator" /\ d = ComponentOf[m] THEN g ELSE store[k][d]
  BY Places, StoreStep
<1> QED BY <1>1, Places DEF On, Kept

LEMMA SeqsKept ==
  ASSUME Types, AllSeqs, NEW h \in Host, NEW c \in Component, NEW g, IsSeq(g), SetStore(h, c, g)
  PROVE  AllSeqs'
<1>1. \A k \in Host, d \in Component :
        store'[k][d] = IF k = h /\ d = c THEN g ELSE store[k][d]
  BY StoreStep
<1> QED BY <1>1 DEF AllSeqs

LEMMA TakeEffect ==
  ASSUME Types, AllSeqs, NEW m \in Mapping, Take(m)
  PROVE  /\ AllSeqs' /\ state' = state /\ On(m)' = Generation(On(m), state[m])
         /\ \A x \in Mapping : Kept(x)' = Kept(x) /\ (x # m => On(x)' = On(x))
<1>1. PICK g : g = Generation(On(m), state[m])
  OBVIOUS
<1>2. SetStore(TargetOf[m], ComponentOf[m], g) /\ state' = state
  BY <1>1 DEF Take, On
<1>3. IsSeq(On(m))
  BY Places DEF AllSeqs, On
<1>4. IsSeq(g)
  BY <1>1, <1>3, GenerationFacts
<1> QED BY <1>1, <1>2, <1>4, Places, SeqsKept, OnlyOn

LEMMA CleanEffect ==
  ASSUME Types, AllSeqs, NEW m \in Mapping, CleanSnapshots(m)
  PROVE  /\ AllSeqs' /\ state' = state
         /\ \A x \in Mapping : Kept(x)' = Kept(x) /\ (x # m => On(x)' = On(x))
<1>1. PICK g : g = Clean(On(m), Keep)
  OBVIOUS
<1>2. SetStore(TargetOf[m], ComponentOf[m], g) /\ state' = state
  BY <1>1 DEF CleanSnapshots, On
<1>3. IsSeq(On(m))
  BY Places DEF AllSeqs, On
<1>4. IsSeq(g)
  BY <1>1, <1>3, CleanFacts
<1> QED BY <1>2, <1>4, Places, SeqsKept, OnlyOn

LEMMA RetrieveEffect ==
  ASSUME Types, AllSeqs, ~request.all, NEW m \in Mapping, NEW ok, Retrieve(m, ok), On(m) # <<>>
  PROVE  /\ AllSeqs' /\ state' = state
         /\ Kept(m)' \in {Kept(m), Generation(Kept(m), Last(On(m)))}
         /\ ok => Kept(m)' = Generation(Kept(m), Last(On(m)))
         /\ \A x \in Mapping : /\ On(x)' = On(x)
                               /\ ComponentOf[x] # ComponentOf[m] => Kept(x)' = Kept(x)
                               /\ ComponentOf[x] = ComponentOf[m] => Kept(x)' = Kept(m)'
<1>1. PICK o \in Copy("from", Query(On(m), request.all), Kept(m)) :
        o.ok = ok /\ SetStore("coordinator", ComponentOf[m], o.gens) /\ state' = state
  BY DEF Retrieve, CopySnapshotsFrom, On, Kept
<1>2. /\ o.gens \in {Kept(m), Generation(Kept(m), Last(On(m)))}
      /\ o.ok => o.gens = Generation(Kept(m), Last(On(m)))
  BY CopyLatest
<1>3. IsSeq(Kept(m))
  BY Places DEF AllSeqs, Kept
<1>4. IsSeq(o.gens)
  BY <1>2, <1>3, GenerationFacts
<1>5. /\ Kept(m)' = o.gens
      /\ \A x \in Mapping : /\ On(x)' = On(x)
                            /\ ComponentOf[x] # ComponentOf[m] => Kept(x)' = Kept(x)
                            /\ ComponentOf[x] = ComponentOf[m] => Kept(x)' = o.gens
  BY <1>1, OnlyKept
<1> QED BY <1>1, <1>2, <1>4, <1>5, Places, SeqsKept

LEMMA SendEffect ==
  ASSUME Types, AllSeqs, ~request.all, NEW m \in Mapping, NEW ok, Send(m, ok)
  PROVE  /\ AllSeqs' /\ state' = state
         /\ Kept(m) # <<>> => /\ On(m)' \in {On(m), Generation(On(m), Last(Kept(m)))}
                              /\ ok => On(m)' = Generation(On(m), Last(Kept(m)))
         /\ \A x \in Mapping : Kept(x)' = Kept(x) /\ (x # m => On(x)' = On(x))
<1>1. PICK o \in Copy("to", Query(Kept(m), request.all), On(m)) :
        o.ok = ok /\ SetStore(TargetOf[m], ComponentOf[m], o.gens) /\ state' = state
  BY DEF Send, CopySnapshotsTo, On, Kept
<1>2. /\ Kept(m) = <<>> => o.gens = On(m)
      /\ Kept(m) # <<>> => /\ o.gens \in {On(m), Generation(On(m), Last(Kept(m)))}
                           /\ o.ok => o.gens = Generation(On(m), Last(Kept(m)))
  BY CopyLatest
<1>3. IsSeq(On(m))
  BY Places DEF AllSeqs, On
<1>4. IsSeq(o.gens)
  BY <1>2, <1>3, GenerationFacts
<1>5. On(m)' = o.gens /\ \A x \in Mapping : Kept(x)' = Kept(x) /\ (x # m => On(x)' = On(x))
  BY <1>1, OnlyOn
<1> QED BY <1>1, <1>2, <1>4, <1>5, Places, SeqsKept

LEMMA StateEffect ==
  ASSUME Types, AllSeqs, NEW m \in Mapping, Restore(m) \/ Delete(m)
  PROVE  /\ AllSeqs' /\ store' = store /\ \A x \in Mapping : x # m => state'[x] = state[x]
         /\ Restore(m) => state'[m] = IF On(m) = <<>> THEN state[m] ELSE Last(On(m))
         /\ Delete(m) => state'[m] = IF m \in request.new THEN state[m] ELSE "deleted"
<1>1. store' = store
  BY DEF Restore, Delete
<1>2. \A v : state' = [state EXCEPT ![m] = v] =>
               state'[m] = v /\ \A x \in Mapping : x # m => state'[x] = state[x]
  BY DEF Types
<1>3. Restore(m) => /\ state'[m] = IF On(m) = <<>> THEN state[m] ELSE Last(On(m))
                    /\ \A x \in Mapping : x # m => state'[x] = state[x]
  BY <1>2 DEF Restore, On
<1>4. Delete(m) => /\ state'[m] = IF m \in request.new THEN state[m] ELSE "deleted"
                   /\ \A x \in Mapping : x # m => state'[x] = state[x]
  BY <1>2 DEF Delete
<1> QED BY <1>1, <1>3, <1>4 DEF AllSeqs

LEMMA SameUpgrade ==
  ASSUME request' = request
  PROVE  /\ Upgrading' = Upgrading /\ Gone' = Gone /\ Fresh' = Fresh
         /\ \A x : Present(x)' = Present(x) /\ Alone(x)' = Alone(x)
         /\ \A o, n : Moves(o, n)' = Moves(o, n)
  BY SameRequest DEF Upgrading, Gone, Fresh, Present, Alone, Moves

\* What was achieved for a mapping remains, but for what its own operation undoes.
LEMMA AchievedStays ==
  ASSUME request' = request, NEW x
  PROVE  /\ Taken(x) /\ On(x)' = On(x) => Taken(x)'
         /\ Saved(x) /\ Kept(x)' = Kept(x) => Saved(x)'
         /\ Sent(x) /\ On(x)' = On(x) => Sent(x)'
         /\ Moved(x) /\ state'[x] = state[x] => Moved(x)'
<1>1. Taken(x) /\ On(x)' = On(x) => Taken(x)'
  BY DEF Taken
<1>2. Saved(x) /\ Kept(x)' = Kept(x) => Saved(x)'
  BY SameUpgrade DEF Saved
<1>3. Sent(x) /\ On(x)' = On(x) => Sent(x)'
  BY SameUpgrade DEF Sent
<1>4. Moved(x) /\ state'[x] = state[x] => Moved(x)'
  BY SameUpgrade DEF Moved
<1> QED BY <1>1, <1>2, <1>3, <1>4

LEMMA PerformTake ==
  ASSUME Types, AllSeqs, request' = request, NEW m \in Mapping, NEW ok \in BOOLEAN,
         Perform(m, "take", ok), state[m] = Value[m]
  PROVE  /\ AllSeqs' /\ state' = state
         /\ \A x \in Mapping : (Taken(x) => Taken(x)') /\ (Saved(x) => Saved(x)')
         /\ ok => Taken(m)'
<1>1. CASE Take(m)
  <2>1. IsSeq(On(m)) /\ On(m)' = Generation(On(m), Value[m])
    BY <1>1, Places, TakeEffect DEF AllSeqs, On
  <2>2. Taken(m)'
    BY <2>1, GenerationFacts DEF Taken
  <2> QED BY <1>1, <2>2, TakeEffect, AchievedStays
<1>2. CASE ~ok /\ UNCHANGED <<state, store>>
  <2>1. AllSeqs' /\ \A x : On(x)' = On(x) /\ Kept(x)' = Kept(x)
    BY <1>2 DEF AllSeqs, On, Kept
  <2> QED BY <1>2, <2>1, AchievedStays
<1> QED BY <1>1, <1>2 DEF Perform

LEMMA PerformRetrieve ==
  ASSUME Types, AllSeqs, ~request.all, request' = request, NEW m \in Gone, NEW ok \in BOOLEAN,
         Perform(m, "retrieve", ok), m \in Mapping, Present(m), Taken(m)
  PROVE  /\ AllSeqs' /\ state' = state
         /\ \A x \in Mapping : (Taken(x) => Taken(x)') /\ (Saved(x) => Saved(x)')
         /\ ok => Saved(m)'
<1>1. CASE Retrieve(m, ok)
  <2>1. IsSeq(Kept(m)) /\ On(m) # <<>> /\ Last(On(m)) = Value[m]
    BY Places DEF AllSeqs, Kept, Taken
  <2>2. PICK g : g = Generation(Kept(m), Value[m])
    OBVIOUS
  <2>3. g # <<>> /\ Last(g) = Value[m] /\ Value[m] \in Range(g) /\ Range(Kept(m)) \subseteq Range(g)
    BY <2>1, <2>2, GenerationFacts
  <2>4. /\ AllSeqs' /\ state' = state /\ Kept(m)' \in {Kept(m), g} /\ (ok => Kept(m)' = g)
        /\ \A x \in Mapping : /\ On(x)' = On(x)
                              /\ ComponentOf[x] # ComponentOf[m] => Kept(x)' = Kept(x)
                              /\ ComponentOf[x] = ComponentOf[m] => Kept(x)' = Kept(m)'
    BY <1>1, <2>1, <2>2, RetrieveEffect
  <2>5. ok => Saved(m)'
    BY <2>3, <2>4 DEF Saved
  <2>6. ASSUME NEW x \in Mapping, Saved(x), x # m, ComponentOf[x] = ComponentOf[m]
        PROVE  Saved(x)'
    <3>1. Kept(x) = Kept(m) /\ Kept(x)' \in {Kept(m), g}
      BY <2>4, <2>6 DEF Kept
    <3>2. ~Alone(x)'
      BY <2>6, SameUpgrade DEF Alone
    <3> QED BY <2>3, <2>6, <3>1, <3>2 DEF Saved
  <2>7. Saved(m) => Saved(m)'
    <3>1. CASE Kept(m)' = g
      BY <2>3, <3>1 DEF Saved
    <3>2. CASE Kept(m)' = Kept(m)
      BY <3>2, AchievedStays
    <3> QED BY <2>4, <3>1, <3>2
  <2> QED BY <2>4, <2>5, <2>6, <2>7, AchievedStays
<1>2. CASE ~ok /\ UNCHANGED <<state, store>>
  <2>1. AllSeqs' /\ \A x : On(x)' = On(x) /\ Kept(x)' = Kept(x)
    BY <1>2 DEF AllSeqs, On, Kept
  <2> QED BY <1>2, <2>1, AchievedStays
<1> QED BY <1>1, <1>2 DEF Perform

LEMMA PerformClean ==
  ASSUME Types, AllSeqs, request' = request, NEW m \in Mapping, NEW ok \in BOOLEAN,
         Perform(m, "clean", ok)
  PROVE  /\ AllSeqs' /\ state' = state
         /\ \A x \in Mapping : /\ Saved(x) => Saved(x)'
                               /\ Moved(x) => Moved(x)'
                               /\ x # m /\ Taken(x) => Taken(x)'
                               /\ x # m /\ Sent(x) => Sent(x)'
<1>1. CASE CleanSnapshots(m)
  BY <1>1, CleanEffect, AchievedStays
<1>2. CASE ~ok /\ UNCHANGED <<state, store>>
  <2>1. AllSeqs' /\ \A x : On(x)' = On(x) /\ Kept(x)' = Kept(x)
    BY <1>2 DEF AllSeqs, On, Kept
  <2> QED BY <1>2, <2>1, AchievedStays
<1> QED BY <1>1, <1>2 DEF Perform

LEMMA PerformSend ==
  ASSUME Types, AllSeqs, ~request.all, request' = request, NEW m \in Mapping, NEW ok \in BOOLEAN,
         Perform(m, "send", ok), \A o \in Gone : Present(o) => Saved(o)
  PROVE  /\ AllSeqs' /\ state' = state
         /\ \A x \in Mapping : /\ Saved(x) => Saved(x)'
                               /\ Sent(x) => Sent(x)'
                               /\ Moved(x) => Moved(x)'
         /\ ok => Sent(m)'
<1>1. CASE Send(m, ok)
  <2>1. IsSeq(On(m))
    BY Places DEF AllSeqs, On
  <2>2. PICK g : g = Generation(On(m), Last(Kept(m)))
    OBVIOUS
  <2>3. g # <<>> /\ Last(g) = Last(Kept(m))
    BY <2>1, <2>2, GenerationFacts
  <2>4. /\ AllSeqs' /\ state' = state
        /\ Kept(m) # <<>> => On(m)' \in {On(m), g} /\ (ok => On(m)' = g)
        /\ \A x \in Mapping : Kept(x)' = Kept(x) /\ (x # m => On(x)' = On(x))
    BY <1>1, <2>2, SendEffect
  <2>5. \A o \in Mapping : Moves(o, m) => Kept(m) # <<>> /\ Last(Kept(m)) = Value[o]
    <3> SUFFICES ASSUME NEW o \in Mapping, Moves(o, m)
                 PROVE  Kept(m) # <<>> /\ Last(Kept(m)) = Value[o]
      OBVIOUS
    <3>1. o \in Gone /\ Present(o) /\ Alone(o) /\ Kept(o) = Kept(m)
      BY DEF Moves, Gone, Alone, Kept
    <3>2. Saved(o)
      BY <3>1
    <3> QED BY <3>1, <3>2 DEF Saved
  <2>6. ok => Sent(m)'
    BY <2>3, <2>4, <2>5, SameUpgrade DEF Sent
  <2>7. Sent(m) => Sent(m)'
    <3> SUFFICES ASSUME Sent(m), NEW o \in Mapping, Moves(o, m)
                 PROVE  On(m)' # <<>> /\ Last(On(m)') = Value[o]
      BY SameUpgrade DEF Sent
    <3>1. On(m) # <<>> /\ Last(On(m)) = Value[o] /\ On(m)' \in {On(m), g} /\ Last(g) = Value[o]
      BY <2>3, <2>4, <2>5 DEF Sent
    <3> QED BY <2>3, <3>1
  <2> QED BY <2>4, <2>6, <2>7, AchievedStays
<1>2. CASE ~ok /\ UNCHANGED <<state, store>>
  <2>1. AllSeqs' /\ \A x : On(x)' = On(x) /\ Kept(x)' = Kept(x)
    BY <1>2 DEF AllSeqs, On, Kept
  <2> QED BY <1>2, <2>1, AchievedStays
<1> QED BY <1>1, <1>2 DEF Perform

LEMMA PerformRestore ==
  ASSUME Types, AllSeqs, request' = request, NEW m \in Mapping, NEW ok \in BOOLEAN,
         Perform(m, "restore", ok), Sent(m)
  PROVE  /\ AllSeqs'
         /\ \A x \in Mapping : /\ Saved(x) => Saved(x)'
                               /\ Sent(x) => Sent(x)'
                               /\ Moved(x) => Moved(x)'
                               /\ x # m => state'[x] = state[x]
         /\ ok => Moved(m)'
<1>1. CASE Restore(m)
  <2>1. /\ AllSeqs' /\ store' = store /\ \A x \in Mapping : x # m => state'[x] = state[x]
        /\ state'[m] = IF On(m) = <<>> THEN state[m] ELSE Last(On(m))
    BY <1>1, StateEffect
  <2>2. Moved(m)'
    BY <2>1, SameUpgrade DEF Moved, Sent
  <2>3. \A x : On(x)' = On(x) /\ Kept(x)' = Kept(x)
    BY <2>1 DEF On, Kept
  <2> QED BY <2>1, <2>2, <2>3, AchievedStays
<1>2. CASE ~ok /\ UNCHANGED <<state, store>>
  <2>1. AllSeqs' /\ \A x : On(x)' = On(x) /\ Kept(x)' = Kept(x)
    BY <1>2 DEF AllSeqs, On, Kept
  <2> QED BY <1>2, <2>1, AchievedStays
<1> QED BY <1>1, <1>2 DEF Perform

LEMMA PerformDelete ==
  ASSUME Types, AllSeqs, request' = request, NEW m \in Mapping, NEW ok \in BOOLEAN,
         Perform(m, "delete", ok)
  PROVE  /\ AllSeqs'
         /\ \A x \in Mapping : /\ Saved(x) => Saved(x)'
                               /\ x # m /\ Moved(x) => Moved(x)'
                               /\ x # m => state'[x] = state[x]
         /\ state'[m] = state[m] \/ (m \notin request.new /\ state'[m] = "deleted")
<1>1. CASE Delete(m)
  <2>1. /\ AllSeqs' /\ store' = store /\ \A x \in Mapping : x # m => state'[x] = state[x]
        /\ state'[m] = IF m \in request.new THEN state[m] ELSE "deleted"
    BY <1>1, StateEffect
  <2>2. \A x : Kept(x)' = Kept(x)
    BY <2>1 DEF Kept
  <2> QED BY <2>1, <2>2, AchievedStays
<1>2. CASE ~ok /\ UNCHANGED <<state, store>>
  <2>1. AllSeqs' /\ \A x : On(x)' = On(x) /\ Kept(x)' = Kept(x)
    BY <1>2 DEF AllSeqs, On, Kept
  <2> QED BY <1>2, <2>1, AchievedStays
<1> QED BY <1>1, <1>2 DEF Perform

-----------------------------------------------------------------------------
(* The coordinator's steps keep the invariant of the data. *)

LEMMA OwnerFacts ==
  ASSUME request.upgrade, request.command = "migrate"
  PROVE  Owner("snapshot") = "old" /\ Owner("restore_all") = "new" /\ Owner("delete") = "old"
<1>1. Owner("snapshot") = "old"
  BY Zenon DEF Owner
<1>2. Owner("restore_all") = "new"
  BY Zenon DEF Owner
<1>3. Owner("delete") = "old"
  BY Zenon DEF Owner
<1> QED BY <1>1, <1>2, <1>3

LEMMA InitData == Init => DataInv
<1> SUFFICES ASSUME Init, Upgrading PROVE DataInv
  BY DEF DataInv
<1>1. ProcessInv
  BY InitProcess
<1>2. /\ phase = "begin" /\ result = "none" /\ done = {} /\ procs = {}
      /\ state = [m \in Mapping |-> IF m \in Deployed THEN Value[m] ELSE "fresh"]
  BY DEF Init
<1>3. AllSeqs
  <2>1. PICK history \in Histories : store = [h \in Host |-> [c \in Component |-> history[h]]]
    BY DEF Init
  <2>2. \A h \in Host : IsSeq(history[h])
    BY HistoriesOK DEF IsSeq
  <2> QED BY <2>1, <2>2 DEF AllSeqs
<1>4. StatesOK
  <2>1. Gone \subseteq Mapping /\ request.known
    BY <1>1, UpgradingFacts DEF ProcessInv
  <2>2. \A m \in Gone : state[m] = Value[m]
    BY <1>2, <2>1 DEF Deployed, Gone
  <2> QED BY <2>2 DEF StatesOK
<1>5. EarlierOK /\ AchievedOK /\ MarksOK
  BY <1>2 DEF EarlierOK, AchievedOK, MarksOK, Traversals, Iterations
<1> QED BY <1>2, <1>3, <1>4, <1>5 DEF DataInv

LEMMA SameData ==
  ASSUME UNCHANGED <<request, state, store>>
  PROVE  /\ \A x : /\ Taken(x)' = Taken(x) /\ Saved(x)' = Saved(x)
                   /\ Sent(x)' = Sent(x) /\ Moved(x)' = Moved(x)
         /\ \A p, x : Effect(p, x)' = Effect(p, x) /\ WorkDone(p, x)' = WorkDone(p, x)
         /\ \A p, x, n : Underway(p, x, n)' = Underway(p, x, n)
         /\ AllSeqs' = AllSeqs
<1>1. \A x : On(x)' = On(x) /\ Kept(x)' = Kept(x)
  BY DEF On, Kept
<1>2. \A x : /\ Taken(x)' = Taken(x) /\ Saved(x)' = Saved(x)
             /\ Sent(x)' = Sent(x) /\ Moved(x)' = Moved(x)
  BY <1>1, SameUpgrade DEF Taken, Saved, Sent, Moved
<1>3. \A p, x : Effect(p, x)' = Effect(p, x) /\ WorkDone(p, x)' = WorkDone(p, x)
  BY <1>2 DEF Effect, WorkDone
<1>4. \A p, x, n : Underway(p, x, n)' = Underway(p, x, n)
  BY <1>2 DEF Underway
<1> QED BY <1>2, <1>3, <1>4 DEF AllSeqs

\* A step within a phase that leaves the data alone.
LEMMA WithinPhase ==
  ASSUME DataInv, UNCHANGED <<request, phase, state, store>>, result' \in {result, "crashed"},
         phase # "begin", Upgrading => AchievedOK' /\ MarksOK'
  PROVE  DataInv'
<1> SUFFICES ASSUME Upgrading PROVE DataInv'
  BY SameUpgrade DEF DataInv
<1>1. AllSeqs /\ StatesOK /\ EarlierOK
  BY DEF DataInv
<1>2. StatesOK'
  BY <1>1, SameData, SameUpgrade DEF StatesOK
<1>3. EarlierOK'
  <2>1. result' = "success" => result = "success"
    OBVIOUS
  <2> QED BY <1>1, <2>1, SameData, SameUpgrade DEF EarlierOK
<1> QED BY <1>1, <1>2, <1>3, SameData, SameUpgrade DEF DataInv

LEMMA ForkItemsData == ProcessInv /\ DataInv /\ ForkItems => DataInv'
<1> SUFFICES ASSUME ProcessInv, DataInv, ForkItems PROVE DataInv'
  OBVIOUS
<1>1. /\ UNCHANGED <<request, phase, state, store, result, done, success>>
      /\ \A p \in procs' : p.st = "ok" => p \in procs
      /\ phase \in Traversals
  BY DEF ForkItems, Traversing
<1>2. ASSUME Upgrading
      PROVE  AchievedOK' /\ MarksOK'
  <2>1. AchievedOK /\ MarksOK
    BY <1>2 DEF DataInv
  <2>2. Items(phase)' = Items(phase) /\ Owner(phase)' = Owner(phase)
    BY <1>1, SameRequest
  <2>3. AchievedOK'
    BY <1>1, <2>1, <2>2, SameData DEF AchievedOK, Traversals, Iterations
  <2> QED BY <1>1, <2>1, <2>3 DEF MarksOK
<1> QED BY <1>1, <1>2, WithinPhase DEF Traversals

LEMMA WaitForNothingData == ProcessInv /\ DataInv /\ WaitForNothing => DataInv'
<1> SUFFICES ASSUME ProcessInv, DataInv, WaitForNothing PROVE DataInv'
  OBVIOUS
<1>1. /\ UNCHANGED <<request, phase, state, store, result, done, procs>>
      /\ success' => success
      /\ phase \in Traversals
  BY DEF WaitForNothing, Traversing
<1>2. ASSUME Upgrading
      PROVE  AchievedOK' /\ MarksOK'
  <2>1. AchievedOK /\ MarksOK
    BY <1>2 DEF DataInv
  <2>2. Items(phase)' = Items(phase) /\ Owner(phase)' = Owner(phase)
    BY <1>1, SameRequest
  <2>3. AchievedOK'
    BY <1>1, <2>1, <2>2, SameData DEF AchievedOK, Traversals, Iterations
  <2> QED BY <1>1, <2>1, <2>3 DEF MarksOK
<1> QED BY <1>1, <1>2, WithinPhase DEF Traversals

LEMMA WaitReapsItemData == ProcessInv /\ DataInv /\ WaitReapsItem => DataInv'
<1> SUFFICES ASSUME ProcessInv, DataInv, WaitReapsItem PROVE DataInv'
  OBVIOUS
<1>1. UNCHANGED <<request, phase, state, store, result>> /\ phase \in Traversals
  BY DEF WaitReapsItem, Traversing
<1>2. PICK p \in procs :
        /\ procs' \subseteq procs
        /\ done' = done \cup {<<Owner(phase), p.m>>}
        /\ success' = (success /\ p.st = "ok")
  BY DEF WaitReapsItem, Ended
<1>3. ASSUME Upgrading
      PROVE  AchievedOK' /\ MarksOK'
  <2>1. AchievedOK /\ MarksOK /\ Types
    BY <1>3 DEF DataInv, ProcessInv
  <2>2. Items(phase)' = Items(phase) /\ Owner(phase)' = Owner(phase)
    BY <1>1, SameRequest
  <2>3. /\ \A q \in procs' : q.st = "ok" => Effect(phase, q.m)
        /\ success' => \A m \in Items(phase) : <<Owner(phase), m>> \in done' => Effect(phase, m)
    BY <1>1, <1>2, <2>1 DEF AchievedOK
  <2>4. AchievedOK'
    BY <1>1, <2>2, <2>3, SameData DEF AchievedOK, Traversals, Iterations
  <2>5. phase \in {"restore_all", "delete"} \/ Owner(phase) = "old"
    BY <1>1, <1>3, <2>1, UpgradingFacts, OwnerFacts DEF Traversals
  <2>6. MarksOK'
    BY <1>1, <1>2, <2>1, <2>5 DEF MarksOK, Traversals
  <2> QED BY <2>4, <2>6
<1> QED BY <1>1, <1>3, WithinPhase DEF Traversals

\* The steps of the coordinator that crash it.
LEMMA CrashData == ProcessInv /\ DataInv /\ (WaitReapsLeftover \/ ForkWorkerFails) => DataInv'
<1> SUFFICES ASSUME ProcessInv, DataInv, WaitReapsLeftover \/ ForkWorkerFails PROVE DataInv'
  OBVIOUS
<1>1. /\ UNCHANGED <<request, phase, state, store, done, success, worker>>
      /\ result' = "crashed" /\ procs' \subseteq procs
      /\ phase \in Traversals \cup Iterations
  BY DEF WaitReapsLeftover, ForkWorkerFails, Crash, Traversing, Iterating, Ended
<1>2. ASSUME Upgrading
      PROVE  AchievedOK' /\ MarksOK'
  <2>1. AchievedOK /\ MarksOK
    BY <1>2 DEF DataInv
  <2>2. Items(phase)' = Items(phase) /\ Owner(phase)' = Owner(phase) /\ \A t : ItemsOn(t)' = ItemsOn(t)
    BY <1>1, SameRequest DEF ItemsOn
  <2>3. AchievedOK'
    BY <1>1, <2>1, <2>2, SameData DEF AchievedOK
  <2> QED BY <1>1, <2>1, <2>3 DEF MarksOK
<1> QED BY <1>1, <1>2, WithinPhase DEF Traversals, Iterations

\* A step that changes one worker, or whether all has succeeded.
LEMMA WorkerData ==
  ASSUME DataInv, UNCHANGED <<request, phase, state, store, result, done, procs>>, phase \in Iterations,
         \A t \in Machine :
           worker'[t].st # "none" =>
             \/ worker'[t].rest = ItemsOn(t) /\ worker'[t].step = 1
             \/ /\ worker[t].st # "none"
                /\ worker'[t].rest = worker[t].rest /\ worker'[t].step = worker[t].step
  PROVE  DataInv'
<1>1. ASSUME Upgrading
      PROVE  AchievedOK' /\ MarksOK'
  <2>1. AchievedOK /\ MarksOK
    BY <1>1 DEF DataInv
  <2>2. \A t : ItemsOn(t)' = ItemsOn(t)
    BY SameRequest DEF ItemsOn
  <2>3. \A x : Underway(phase, x, 1)
    BY DEF Underway
  <2>4. ASSUME NEW t \in Machine, worker'[t].st # "none"
        PROVE  /\ \A m \in ItemsOn(t) \ worker'[t].rest : WorkDone(phase, m)
               /\ worker'[t].rest # {} => Underway(phase, Min(worker'[t].rest), worker'[t].step)
    BY <2>1, <2>3, <2>4 DEF AchievedOK
  <2>5. AchievedOK'
    BY <2>2, <2>4, SameData DEF AchievedOK, Traversals, Iterations
  <2> QED BY <2>1, <2>5 DEF MarksOK
<1> QED BY <1>1, WithinPhase DEF Iterations

LEMMA ForkWorkerData == ProcessInv /\ DataInv /\ ForkWorker => DataInv'
<1> SUFFICES ASSUME ProcessInv, DataInv, ForkWorker PROVE DataInv'
  OBVIOUS
<1>1. PICK t \in Targets :
        worker' = [worker EXCEPT ![t] = [st |-> "running", rest |-> ItemsOn(t), step |-> 1]]
  BY DEF ForkWorker
<1>2. UNCHANGED <<request, phase, state, store, result, done, procs>> /\ phase \in Iterations
  BY DEF ForkWorker, Iterating, coordinator
<1>3. \A u \in Machine :
        worker'[u] = IF u = t THEN [st |-> "running", rest |-> ItemsOn(t), step |-> 1] ELSE worker[u]
  BY <1>1 DEF ProcessInv, Types
<1> QED BY <1>2, <1>3, WorkerData

LEMMA WaitReapsWorkerData == ProcessInv /\ DataInv /\ WaitReapsWorker => DataInv'
<1> SUFFICES ASSUME ProcessInv, DataInv, WaitReapsWorker PROVE DataInv'
  OBVIOUS
<1>1. PICK t \in Forked : worker' = [worker EXCEPT ![t].st = "reaped"]
  BY DEF WaitReapsWorker
<1>2. UNCHANGED <<request, phase, state, store, result, done, procs>> /\ phase \in Iterations
  BY DEF WaitReapsWorker, Iterating
<1>3. worker[t].st # "none" /\ worker \in [Machine -> Workers]
  BY DEF Forked, ProcessInv, Types
<1>4. \A u \in Machine : worker'[u].rest = worker[u].rest /\ worker'[u].step = worker[u].step
                         /\ (worker'[u].st # "none" => worker[u].st # "none")
  BY <1>1, <1>3 DEF Workers
<1> QED BY <1>2, <1>4, WorkerData

LEMMA WorkerExitsData == ProcessInv /\ DataInv /\ WorkerExits => DataInv'
<1> SUFFICES ASSUME ProcessInv, DataInv, WorkerExits PROVE DataInv'
  OBVIOUS
<1>1. PICK t \in Machine : worker[t].st = "running" /\ worker' = [worker EXCEPT ![t].st = "ok"]
  BY DEF WorkerExits
<1>2. UNCHANGED <<request, phase, state, store, result, done, procs>>
  BY DEF WorkerExits, coordinator
<1>3. worker \in [Machine -> Workers] /\ phase \in Iterations
  BY <1>1 DEF ProcessInv, Types, WorkersOK
<1>4. \A u \in Machine : worker'[u].rest = worker[u].rest /\ worker'[u].step = worker[u].step
                         /\ (worker'[u].st # "none" => worker[u].st # "none")
  BY <1>1, <1>3 DEF Workers
<1> QED BY <1>2, <1>3, <1>4, WorkerData

\* A phase starts, with what the phases before have achieved.
LEMMA EnterData ==
  ASSUME ProcessInv, DataInv, Upgrading, Enter(FollowedBy(phase)),
         UNCHANGED <<request, procs, state, store>>, procs = {},
         phase' # "begin", EarlierOK', MarksOK',
         phase' \in {"delete", "returned"} \/ phase \notin {"delete", "returned"},
         phase' \in {"snapshot", "restore_all"} => \A m \in Mapping : <<Owner(phase'), m>> \notin done'
  PROVE  DataInv'
<1>1. AllSeqs /\ StatesOK /\ Types
  BY DEF DataInv, ProcessInv
<1>2. StatesOK'
  BY <1>1, SameData, SameUpgrade DEF StatesOK
<1>3. AchievedOK'
  <2>1. worker' = [t \in Machine |-> NoWorker] /\ procs' = {}
    BY DEF Enter
  <2>2. PICK q : q = phase'
    OBVIOUS
  <2>3. /\ Items(q) \subseteq Mapping /\ Items(q)' = Items(q) /\ Owner(q)' = Owner(q)
        /\ \A m : Effect("delete", m) /\ Effect(q, m)' = Effect(q, m)
    BY <1>1, RequestFacts, SameRequest, SameData DEF Effect
  <2>4. q \in Traversals => \A m \in Items(q) : <<Owner(q), m>> \in done' => Effect(q, m)
    BY <2>2, <2>3 DEF Traversals
  <2>5. \A t \in Machine : worker'[t].st = "none"
    BY <2>1 DEF NoWorker
  <2>6. \A p \in procs' : FALSE
    BY <2>1
  <2>7. (phase \in Traversals =>
         /\ \A p \in procs : p.st = "ok" => Effect(phase, p.m)
         /\ success => \A m \in Items(phase) : <<Owner(phase), m>> \in done => Effect(phase, m))'
    BY <2>2, <2>3, <2>4, <2>6
  <2> QED BY <2>5, <2>7 DEF AchievedOK
<1>4. result' = "success" => phase' = "returned"
  BY DEF Enter
<1> QED BY <1>1, <1>2, <1>3, <1>4, SameData, SameUpgrade DEF DataInv

\* A phase that failed.
LEMMA GiveUpData ==
  ASSUME DataInv, GivesUp
  PROVE  DataInv'
<1> SUFFICES ASSUME Upgrading PROVE DataInv'
  BY SameUpgrade DEF DataInv, GivesUp
<1> USE DEF GivesUp
<1>1. AllSeqs /\ StatesOK
  BY DEF DataInv
<1>2. StatesOK'
  BY <1>1, SameData, SameUpgrade DEF StatesOK
<1>3. EarlierOK' /\ AchievedOK' /\ MarksOK'
  BY DEF EarlierOK, AchievedOK, MarksOK, Traversals, Iterations
<1> QED BY <1>1, <1>2, <1>3, SameData DEF DataInv

LEMMA BeginData == ProcessInv /\ DataInv /\ Begin => DataInv'
<1> SUFFICES ASSUME ProcessInv, DataInv, Begin PROVE DataInv'
  OBVIOUS
<1>1. phase = "begin" /\ Enter(FollowedBy(phase)) /\ UNCHANGED <<request, procs, state, store>>
  BY DEF Begin
<1> SUFFICES ASSUME Upgrading PROVE DataInv'
  BY <1>1, SameUpgrade DEF DataInv
<1>2. Types /\ MarksOK /\ OneCoreEach
  BY DEF ProcessInv, DataInv, Upgrading
<1>3. phase' \in {"snapshot", "snapshot_depth"} /\ result' = "none" /\ done' \subseteq done
  BY <1>1, <1>2, OrderOfPhases DEF Enter
<1>4. procs = {}
  BY <1>1, <1>2 DEF ProcessInv, CountingOK, Traversals
<1>5. done' = {}
  BY <1>1, <1>2, <1>3 DEF MarksOK
<1>6. EarlierOK' /\ MarksOK'
  BY <1>3, <1>5 DEF EarlierOK, MarksOK
<1> QED BY <1>1, <1>3, <1>4, <1>5, <1>6, EnterData

\* What has been achieved when a traversal returns, and when an iteration does.
LEMMA TraversalAchieves ==
  ASSUME ProcessInv, DataInv, Upgrading, TraversalReturns, success
  PROVE  \A m \in Items(phase) : Present(m) => Effect(phase, m)
<1>1. /\ Types /\ TraversalOK /\ AchievedOK /\ OneCoreEach
      /\ phase \in Traversals /\ turn = "fork" /\ passes = Passes
  BY DEF ProcessInv, CountingOK, DataInv, Upgrading, TraversalReturns, Traversing
<1>2. Granted = {} /\ \A t \in Targets : cores[t] = 1
  BY <1>1, AllReaped
<1>3. ASSUME NEW m \in Items(phase), Present(m), <<Owner(phase), m>> \notin done
      PROVE  FALSE
  <2>1. TargetOf[m] \in Targets /\ m \in PendingOn(TargetOf[m])
    BY <1>3 DEF Present, Targets, Pending, PendingOn
  <2>2. GrantedOn(TargetOf[m]) # {}
    BY <1>1, <1>2, <2>1, GrantedWithinCores
  <2> QED BY <1>2, <2>2 DEF GrantedOn
<1> QED BY <1>1, <1>3 DEF AchievedOK

LEMMA IterationAchieves ==
  ASSUME ProcessInv, DataInv, Upgrading, IterationReturns, success
  PROVE  \A m \in Items(phase) : Present(m) => WorkDone(phase, m)
<1>1. /\ Types /\ WorkersOK /\ AchievedOK /\ phase \in Iterations /\ Forked = {} /\ ~MayFork
  BY DEF ProcessInv, DataInv, IterationReturns, Iterating
<1>2. SUFFICES ASSUME NEW m \in Items(phase), Present(m)
               PROVE  WorkDone(phase, m)
  OBVIOUS
<1>3. PICK t : t = TargetOf[m]
  OBVIOUS
<1>4. t \in Targets /\ t \in Machine /\ m \in ItemsOn(t)
  <2>1. t \in Targets /\ Targets \subseteq Machine
    BY <1>1, <1>2, <1>3, RequestFacts DEF Present, Targets
  <2>2. request.keys[t] = t
    BY <2>1 DEF Upgrading, Named
  <2> QED BY <1>2, <1>3, <2>1, <2>2 DEF ItemsOn
<1>5. worker[t].st \in {"none", "running", "ok", "failed", "reaped"}
  BY <1>1, <1>4 DEF Types, Workers
<1>6. worker[t].st = "reaped"
  <2>1. request.limit \in Nat \ {0}
    BY <1>1, RequestFacts DEF RequestOK
  <2>2. Cardinality(Forked) < request.limit
    <3>1. Cardinality({}) = 0
      BY FS_EmptySet
    <3>2. \A n \in Nat \ {0} : 0 < n
      OBVIOUS
    <3> QED BY <1>1, <2>1, <3>1, <3>2
  <2>3. worker[t].st # "none"
    BY <1>1, <1>4, <2>2 DEF MayFork
  <2> QED BY <1>1, <1>4, <1>5, <2>3 DEF Forked
<1>7. worker[t].rest = {}
  BY <1>1, <1>4, <1>6 DEF WorkersOK
<1> QED BY <1>1, <1>4, <1>6, <1>7 DEF AchievedOK

LEMMA TraversalReturnsData == ProcessInv /\ DataInv /\ TraversalReturns => DataInv'
<1> SUFFICES ASSUME ProcessInv, DataInv, TraversalReturns PROVE DataInv'
  OBVIOUS
<1>1. UNCHANGED <<request, cores, procs, state, store>> /\ phase \in Traversals /\ result = "none"
      /\ turn = "fork" /\ passes = Passes /\ (GivesUp \/ (success /\ Enter(FollowedBy(phase))))
  BY DEF TraversalReturns, Leave, Traversing, Coordinating, GivesUp
<1>2. CASE GivesUp
  BY <1>2, GiveUpData
<1>3. CASE success /\ Enter(FollowedBy(phase))
  <2> SUFFICES ASSUME Upgrading PROVE DataInv'
    BY <1>1, SameUpgrade DEF DataInv
  <2>1. Types /\ OneCoreEach /\ AllSeqs /\ EarlierOK /\ MarksOK
    BY DEF ProcessInv, DataInv, Upgrading
  <2>2. procs = {}
    BY <1>1, <2>1, AllReaped
  <2>3. \A m \in Items(phase) : Present(m) => Effect(phase, m)
    BY <1>3, TraversalAchieves
  <2>4. /\ phase' = FollowedBy(phase) /\ done' \subseteq done
        /\ result' = IF phase' = "returned" THEN "success" ELSE "none"
    BY <1>3 DEF Enter
  <2>5. CASE phase = "snapshot"
    <3>1. phase' = "retrieve" /\ result' = "none"
      BY <2>1, <2>4, <2>5, OrderOfPhases
    <3>2. \A m \in Gone : Present(m) => Taken(m)
      <4>1. Items("snapshot") = Gone
        BY <2>1, ItemsFacts, UpgradingFacts
      <4> QED BY <2>3, <2>5, <4>1 DEF Effect
    <3>3. EarlierOK'
      BY <1>1, <3>1, <3>2, SameData, SameUpgrade DEF EarlierOK
    <3>4. MarksOK'
      BY <2>1, <2>4, <2>5, <3>1 DEF MarksOK
    <3> QED BY <1>1, <1>3, <2>2, <2>5, <3>1, <3>3, <3>4, EnterData
  <2>6. CASE phase = "restore_all"
    <3>1. phase' \in {"delete", "returned"}
      BY <2>1, <2>4, <2>6, OrderOfPhases
    <3>2. \A n \in Fresh : Moved(n)
      <4>1. Items("restore_all") = Fresh /\ \A n \in Fresh : Present(n)
        BY <2>1, ItemsFacts, UpgradingFacts
      <4> QED BY <2>3, <2>6, <4>1 DEF Effect
    <3>3. \A m \in Gone : Present(m) => Saved(m)
      BY <2>1, <2>6 DEF EarlierOK
    <3>4. EarlierOK'
      BY <1>1, <3>1, <3>2, <3>3, SameData, SameUpgrade DEF EarlierOK
    <3>5. MarksOK'
      BY <3>1 DEF MarksOK
    <3> QED BY <1>1, <1>3, <2>2, <3>1, <3>4, <3>5, EnterData
  <2>7. CASE phase = "delete"
    <3>1. phase' = "returned"
      BY <2>1, <2>4, <2>7, OrderOfPhases
    <3>2. (\A n \in Fresh : Moved(n)) /\ \A m \in Gone : Present(m) => Saved(m)
      BY <2>1, <2>7 DEF EarlierOK
    <3>3. EarlierOK'
      BY <1>1, <3>1, <3>2, SameData, SameUpgrade DEF EarlierOK
    <3>4. MarksOK'
      BY <3>1 DEF MarksOK
    <3> QED BY <1>1, <1>3, <2>2, <3>1, <3>3, <3>4, EnterData
  <2> QED BY <1>1, <2>5, <2>6, <2>7 DEF Traversals
<1> QED BY <1>1, <1>2, <1>3

LEMMA IterationReturnsData == ProcessInv /\ DataInv /\ IterationReturns => DataInv'
<1> SUFFICES ASSUME ProcessInv, DataInv, IterationReturns PROVE DataInv'
  OBVIOUS
<1>1. UNCHANGED <<request, cores, procs, state, store>> /\ phase \in Iterations /\ result = "none"
      /\ (GivesUp \/ (success /\ Enter(FollowedBy(phase))))
  BY DEF IterationReturns, Leave, Iterating, Coordinating, GivesUp
<1>2. CASE GivesUp
  BY <1>2, GiveUpData
<1>3. CASE success /\ Enter(FollowedBy(phase))
  <2> SUFFICES ASSUME Upgrading PROVE DataInv'
    BY <1>1, SameUpgrade DEF DataInv
  <2>1. Types /\ OneCoreEach /\ AllSeqs /\ EarlierOK /\ MarksOK
    BY DEF ProcessInv, DataInv, Upgrading
  <2>2. procs = {}
    BY <1>1, <2>1 DEF ProcessInv, CountingOK, Traversals, Iterations
  <2>3. \A m \in Items(phase) : Present(m) => WorkDone(phase, m)
    BY <1>3, IterationAchieves
  <2>4. /\ phase' = FollowedBy(phase) /\ done' \subseteq done
        /\ result' = IF phase' = "returned" THEN "success" ELSE "none"
    BY <1>3 DEF Enter
  <2>5. CASE phase \in {"retrieve", "snapshot_depth"}
    <3>1. phase' \in {"send", "restore_depth"} /\ result' = "none"
      BY <2>1, <2>4, <2>5, OrderOfPhases
    <3>2. \A m \in Gone : Present(m) => Saved(m)
      <4>1. Items(phase) = Gone
        BY <2>1, <2>5, ItemsFacts, UpgradingFacts
      <4> QED BY <2>3, <2>5, <4>1 DEF WorkDone
    <3>3. EarlierOK'
      BY <1>1, <3>1, <3>2, SameData, SameUpgrade DEF EarlierOK
    <3>4. MarksOK'
      BY <2>1, <2>4, <2>5, <3>1 DEF MarksOK
    <3> QED BY <1>1, <1>3, <2>2, <2>5, <3>1, <3>3, <3>4, EnterData
  <2>6. CASE phase = "send"
    <3>1. phase' = "restore_all" /\ result' = "none"
      BY <2>1, <2>4, <2>6, OrderOfPhases
    <3>2. \A n \in Fresh : Sent(n)
      <4>1. Items("send") = Fresh /\ \A n \in Fresh : Present(n)
        BY <2>1, ItemsFacts, UpgradingFacts
      <4> QED BY <2>3, <2>6, <4>1 DEF WorkDone
    <3>3. \A m \in Gone : Present(m) => Saved(m)
      BY <2>1, <2>6 DEF EarlierOK
    <3>4. EarlierOK'
      BY <1>1, <3>1, <3>2, <3>3, SameData, SameUpgrade DEF EarlierOK
    <3>5. MarksOK'
      BY <3>1 DEF MarksOK
    <3>6. \A m \in Mapping : <<Owner(phase'), m>> \notin done'
      BY <2>1, <2>4, <2>6, <3>1, UpgradingFacts, OwnerFacts DEF MarksOK
    <3> QED BY <1>1, <1>3, <2>2, <2>6, <3>1, <3>4, <3>5, <3>6, EnterData
  <2>7. CASE phase = "restore_depth"
    <3>1. phase' \in {"delete", "returned"}
      BY <2>1, <2>4, <2>7, OrderOfPhases
    <3>2. \A n \in Fresh : Moved(n)
      <4>1. Items("restore_depth") = Fresh /\ \A n \in Fresh : Present(n)
        BY <2>1, ItemsFacts, UpgradingFacts
      <4> QED BY <2>3, <2>7, <4>1 DEF WorkDone
    <3>3. \A m \in Gone : Present(m) => Saved(m)
      BY <2>1, <2>7 DEF EarlierOK
    <3>4. EarlierOK'
      BY <1>1, <3>1, <3>2, <3>3, SameData, SameUpgrade DEF EarlierOK
    <3>5. MarksOK'
      BY <3>1 DEF MarksOK
    <3> QED BY <1>1, <1>3, <2>2, <3>1, <3>4, <3>5, EnterData
  <2> QED BY <1>1, <2>5, <2>6, <2>7 DEF Iterations
<1> QED BY <1>1, <1>2, <1>3

-----------------------------------------------------------------------------
(* So do the steps of its children. *)

\* A step of a child: the rest follows from what it changes.
LEMMA ChildData ==
  ASSUME DataInv, UNCHANGED <<request, phase, result, done>>,
         Upgrading => AllSeqs' /\ StatesOK' /\ EarlierOK' /\ AchievedOK'
  PROVE  DataInv'
  BY SameUpgrade DEF DataInv, MarksOK

LEMMA ProcessEndsData == ProcessInv /\ DataInv /\ ProcessEnds => DataInv'
<1> SUFFICES ASSUME ProcessInv, DataInv, ProcessEnds, Upgrading PROVE DataInv'
  BY SameUpgrade DEF DataInv, ProcessEnds
<1>1. PICK p \in procs, ok \in BOOLEAN :
        /\ Perform(p.m, Operation(p.phase), ok)
        /\ procs' = (procs \ {p}) \cup {[p EXCEPT !.st = IF ok THEN "ok" ELSE "failed"]}
  BY DEF ProcessEnds
<1>2. UNCHANGED <<request, phase, success, done, result, worker>>
  BY DEF ProcessEnds, coordinator
<1>3. /\ Types /\ OneCoreEach /\ AllSeqs /\ StatesOK /\ EarlierOK /\ AchievedOK
      /\ ~request.all /\ (result = "success" => phase = "returned")
  BY DEF ProcessInv, DataInv, Upgrading
<1>4. phase \in Traversals /\ TraversalOK
  BY <1>3 DEF ProcessInv, CountingOK
<1>5. PICK m : m = p.m
  OBVIOUS
<1>6. /\ m \in Items(phase) /\ m \in Mapping /\ Present(m) /\ p \in Procs
      /\ Perform(m, Operation(phase), ok)
  <2>1. p.phase = phase /\ m \in Items(phase) /\ p \in Procs /\ TargetOf[m] \in Targets
    BY <1>3, <1>4, <1>5 DEF TraversalOK, Types
  <2> QED BY <1>1, <1>5, <2>1 DEF Procs, Present, Targets
<1>7. \A q \in procs' : q.st = "ok" => q \in procs \/ (q.m = m /\ ok)
  <2>1. PICK r : r = [p EXCEPT !.st = IF ok THEN "ok" ELSE "failed"]
    OBVIOUS
  <2>2. r.m = m /\ (r.st = "ok" => ok)
    BY <1>5, <1>6, <2>1 DEF Procs
  <2> QED BY <1>1, <2>1, <2>2
<1>8. Items(phase)' = Items(phase) /\ Owner(phase)' = Owner(phase) /\ Items(phase) \subseteq Mapping
  BY <1>2, <1>3, SameRequest, RequestFacts
<1>9. \A q \in procs : q.m \in Mapping
  BY <1>3 DEF Types, Procs
<1>10. ASSUME \A x \in Mapping : Effect(phase, x) => Effect(phase, x)',
              ok => Effect(phase, m)'
       PROVE  AchievedOK'
  <2>1. \A q \in procs' : q.st = "ok" => Effect(phase, q.m)'
    <3> SUFFICES ASSUME NEW q \in procs', q.st = "ok" PROVE Effect(phase, q.m)'
      OBVIOUS
    <3>1. CASE q \in procs
      BY <1>3, <1>4, <1>9, <1>10, <3>1 DEF AchievedOK
    <3>2. CASE q.m = m /\ ok
      BY <1>10, <3>2
    <3> QED BY <1>7, <3>1, <3>2
  <2>2. success => \A x \in Items(phase) : <<Owner(phase), x>> \in done => Effect(phase, x)'
    BY <1>3, <1>4, <1>8, <1>10 DEF AchievedOK
  <2> QED BY <1>2, <1>4, <1>8, <2>1, <2>2 DEF AchievedOK, Traversals, Iterations
<1>11. \A x \in Gone : x \in Mapping
  BY <1>3, UpgradingFacts
<1>12. CASE phase = "snapshot"
  <2>1. m \in Gone /\ Operation(phase) = "take"
    BY <1>3, <1>6, <1>12, ItemsFacts, UpgradingFacts DEF Operation
  <2>2. state[m] = Value[m]
    BY <1>3, <1>12, <2>1 DEF StatesOK
  <2>3. /\ AllSeqs' /\ state' = state
        /\ \A x \in Mapping : (Taken(x) => Taken(x)') /\ (Saved(x) => Saved(x)')
        /\ ok => Taken(m)'
    BY <1>2, <1>3, <1>6, <2>1, <2>2, PerformTake
  <2>4. StatesOK'
    BY <1>2, <1>3, <1>11, <2>3, SameUpgrade DEF StatesOK
  <2>5. EarlierOK'
    BY <1>2, <1>3, <1>12 DEF EarlierOK
  <2>6. AchievedOK'
    BY <1>2, <1>10, <1>12, <2>3 DEF Effect
  <2> QED BY <1>2, <2>3, <2>4, <2>5, <2>6, ChildData
<1>13. CASE phase = "restore_all"
  <2>1. m \in Fresh /\ Operation(phase) = "restore"
    BY <1>3, <1>6, <1>13, ItemsFacts, UpgradingFacts DEF Operation
  <2>2. Sent(m)
    BY <1>3, <1>13, <2>1 DEF EarlierOK
  <2>3. /\ AllSeqs'
        /\ \A x \in Mapping : /\ Saved(x) => Saved(x)'
                              /\ Sent(x) => Sent(x)'
                              /\ Moved(x) => Moved(x)'
                              /\ x # m => state'[x] = state[x]
        /\ ok => Moved(m)'
    BY <1>2, <1>3, <1>6, <2>1, <2>2, PerformRestore
  <2>4. \A x \in Gone : x # m
    BY <2>1 DEF Gone, Fresh
  <2>5. StatesOK'
    BY <1>2, <1>3, <1>11, <2>3, <2>4, SameUpgrade DEF StatesOK
  <2>6. \A x \in Fresh : x \in Mapping
    BY <1>3, UpgradingFacts
  <2>7. EarlierOK'
    BY <1>2, <1>3, <1>11, <1>13, <2>3, <2>6, SameUpgrade DEF EarlierOK
  <2>8. AchievedOK'
    BY <1>2, <1>10, <1>13, <2>3 DEF Effect
  <2> QED BY <1>2, <2>3, <2>5, <2>7, <2>8, ChildData
<1>14. CASE phase = "delete"
  <2>1. m \in request.old /\ Operation(phase) = "delete"
    BY <1>3, <1>6, <1>14, ItemsFacts, UpgradingFacts DEF Operation
  <2>2. /\ AllSeqs'
        /\ \A x \in Mapping : /\ Saved(x) => Saved(x)'
                              /\ x # m /\ Moved(x) => Moved(x)'
                              /\ x # m => state'[x] = state[x]
        /\ state'[m] = state[m] \/ (m \notin request.new /\ state'[m] = "deleted")
    BY <1>2, <1>3, <1>6, <2>1, PerformDelete
  <2>3. m \in Gone => Saved(m)
    BY <1>3, <1>6, <1>14 DEF EarlierOK
  <2>4. \A x \in Gone : state'[x] = Value[x] \/ (state'[x] = "deleted" /\ Saved(x)')
    <3> SUFFICES ASSUME NEW x \in Gone
                 PROVE  state'[x] = Value[x] \/ (state'[x] = "deleted" /\ Saved(x)')
      OBVIOUS
    <3>1. CASE x # m
      BY <1>3, <1>11, <2>2, <3>1 DEF StatesOK
    <3>2. CASE x = m
      BY <1>3, <1>6, <2>2, <2>3, <3>2 DEF StatesOK
    <3> QED BY <3>1, <3>2
  <2>5. StatesOK'
    BY <1>2, <1>14, <2>4, SameUpgrade DEF StatesOK
  <2>6. \A x \in Fresh : x \in Mapping /\ x # m
    BY <1>3, <2>1, UpgradingFacts DEF Fresh
  <2>7. EarlierOK'
    BY <1>2, <1>3, <1>11, <1>14, <2>2, <2>6, SameUpgrade DEF EarlierOK
  <2>8. AchievedOK'
    BY <1>2, <1>10, <1>14 DEF Effect
  <2> QED BY <1>2, <2>2, <2>5, <2>7, <2>8, ChildData
<1> QED BY <1>4, <1>12, <1>13, <1>14 DEF Traversals

\* What a worker's step for m has to show.
Works(p, m, step, ok) ==
  /\ AllSeqs' /\ \A x \in Gone : state'[x] = state[x]
  /\ EarlierOK'
  /\ \A x \in Items(p) : x # m =>
       /\ WorkDone(p, x) => WorkDone(p, x)'
       /\ \A n : Underway(p, x, n) => Underway(p, x, n)'
  /\ Underway(p, m, step)'
  /\ ok /\ step < Len(Steps[p]) => Underway(p, m, step + 1)'
  /\ ok /\ step = Len(Steps[p]) => WorkDone(p, m)'

LEMMA RetrieveWorks ==
  ASSUME Types, DataInv, Upgrading, phase = "retrieve", UNCHANGED <<request, phase, result>>,
         NEW m \in Items(phase), Present(m), NEW ok \in BOOLEAN,
         Perform(m, "retrieve", ok)
  PROVE  Works("retrieve", m, 1, ok)
<1>1. /\ AllSeqs /\ EarlierOK /\ ~request.all /\ result # "success"
      /\ m \in Gone /\ m \in Mapping /\ Items("retrieve") = Gone /\ Gone \subseteq Mapping
  BY ItemsFacts, UpgradingFacts DEF DataInv, Upgrading
<1>2. Taken(m)
  BY <1>1 DEF EarlierOK
<1>3. /\ AllSeqs' /\ state' = state
      /\ \A x \in Mapping : (Taken(x) => Taken(x)') /\ (Saved(x) => Saved(x)')
      /\ ok => Saved(m)'
  BY <1>1, <1>2, PerformRetrieve
<1>4. EarlierOK'
  BY <1>1, <1>3, SameUpgrade DEF EarlierOK
<1>5. \A x, n : Underway("retrieve", x, n)'
  BY DEF Underway
<1> QED BY <1>1, <1>3, <1>4, <1>5 DEF Works, WorkDone

LEMMA SendWorks ==
  ASSUME Types, DataInv, Upgrading, phase = "send", UNCHANGED <<request, phase, result>>,
         NEW m \in Items(phase), NEW ok \in BOOLEAN, Perform(m, "send", ok)
  PROVE  Works("send", m, 1, ok)
<1>1. /\ AllSeqs /\ EarlierOK /\ ~request.all /\ result # "success"
      /\ m \in Mapping /\ Items("send") = Fresh /\ Fresh \subseteq Mapping /\ Gone \subseteq Mapping
  BY ItemsFacts, UpgradingFacts DEF DataInv, Upgrading
<1>2. \A o \in Gone : Present(o) => Saved(o)
  BY <1>1 DEF EarlierOK
<1>3. /\ AllSeqs' /\ state' = state
      /\ \A x \in Mapping : (Saved(x) => Saved(x)') /\ (Sent(x) => Sent(x)')
      /\ ok => Sent(m)'
  BY <1>1, <1>2, PerformSend
<1>4. EarlierOK'
  BY <1>1, <1>2, <1>3, SameUpgrade DEF EarlierOK
<1>5. \A x, n : Underway("send", x, n)'
  BY DEF Underway
<1> QED BY <1>1, <1>3, <1>4, <1>5 DEF Works, WorkDone

LEMMA SnapshotDepthWorks ==
  ASSUME Types, DataInv, Upgrading, phase = "snapshot_depth", UNCHANGED <<request, phase, result>>,
         NEW m \in Items(phase), Present(m), NEW ok \in BOOLEAN, NEW step \in 1 .. 3,
         Perform(m, Steps[phase][step], ok), Underway(phase, m, step)
  PROVE  Works("snapshot_depth", m, step, ok)
<1>1. /\ AllSeqs /\ StatesOK /\ EarlierOK /\ ~request.all /\ result # "success"
      /\ m \in Gone /\ m \in Mapping /\ Items("snapshot_depth") = Gone /\ Gone \subseteq Mapping
  BY ItemsFacts, UpgradingFacts DEF DataInv, Upgrading
<1>2. PICK steps : steps = Steps["snapshot_depth"] /\ Len(steps) = 3 /\ steps = <<"take", "retrieve", "clean">>
  BY StepsFacts
<1>3. steps[1] = "take" /\ steps[2] = "retrieve" /\ steps[3] = "clean"
  BY <1>2
<1>4. EarlierOK'
  BY <1>1 DEF EarlierOK
<1>5. CASE step = 1
  <2>1. state[m] = Value[m]
    BY <1>1 DEF StatesOK
  <2>2. /\ AllSeqs' /\ state' = state
        /\ \A x \in Mapping : (Taken(x) => Taken(x)') /\ (Saved(x) => Saved(x)')
        /\ ok => Taken(m)'
    BY <1>1, <1>2, <1>3, <1>5, <2>1, PerformTake
  <2>3. step < 3 /\ step + 1 = 2
    BY <1>5
  <2> QED BY <1>1, <1>2, <1>4, <1>5, <2>2, <2>3 DEF Works, WorkDone, Underway
<1>6. CASE step = 2
  <2>1. Taken(m)
    BY <1>6 DEF Underway
  <2>2. /\ AllSeqs' /\ state' = state
        /\ \A x \in Mapping : (Taken(x) => Taken(x)') /\ (Saved(x) => Saved(x)')
        /\ ok => Saved(m)'
    BY <1>1, <1>2, <1>3, <1>6, <2>1, PerformRetrieve
  <2>3. step < 3 /\ step + 1 = 3
    BY <1>6
  <2> QED BY <1>1, <1>2, <1>4, <1>6, <2>1, <2>2, <2>3 DEF Works, WorkDone, Underway
<1>7. CASE step = 3
  <2>1. Saved(m)
    BY <1>7 DEF Underway
  <2>2. /\ AllSeqs' /\ state' = state
        /\ \A x \in Mapping : (Saved(x) => Saved(x)') /\ (x # m /\ Taken(x) => Taken(x)')
    BY <1>1, <1>2, <1>3, <1>7, PerformClean
  <2>3. ~(step < 3)
    BY <1>7
  <2> QED BY <1>1, <1>2, <1>4, <1>7, <2>1, <2>2, <2>3 DEF Works, WorkDone, Underway
<1> QED BY <1>5, <1>6, <1>7

LEMMA RestoreDepthWorks ==
  ASSUME Types, DataInv, Upgrading, phase = "restore_depth", UNCHANGED <<request, phase, result>>,
         NEW m \in Items(phase), NEW ok \in BOOLEAN, NEW step \in 1 .. 3,
         Perform(m, Steps[phase][step], ok), Underway(phase, m, step)
  PROVE  Works("restore_depth", m, step, ok)
<1>1. /\ AllSeqs /\ StatesOK /\ EarlierOK /\ ~request.all /\ result # "success"
      /\ m \in Fresh /\ m \in Mapping /\ Items("restore_depth") = Fresh
      /\ Fresh \subseteq Mapping /\ Gone \subseteq Mapping
  BY ItemsFacts, UpgradingFacts DEF DataInv, Upgrading
<1>2. PICK steps : steps = Steps["restore_depth"] /\ Len(steps) = 3 /\ steps = <<"send", "restore", "clean">>
  BY StepsFacts
<1>3. steps[1] = "send" /\ steps[2] = "restore" /\ steps[3] = "clean"
  BY <1>2
<1>4. \A o \in Gone : Present(o) => Saved(o)
  BY <1>1 DEF EarlierOK
<1>5. (\A x \in Mapping : Saved(x) => Saved(x)') => EarlierOK'
  BY <1>1, <1>4, SameUpgrade DEF EarlierOK
<1>6. CASE step = 1
  <2>1. /\ AllSeqs' /\ state' = state
        /\ \A x \in Mapping : (Saved(x) => Saved(x)') /\ (Sent(x) => Sent(x)') /\ (Moved(x) => Moved(x)')
        /\ ok => Sent(m)'
    BY <1>1, <1>2, <1>3, <1>4, <1>6, PerformSend
  <2>2. step < 3 /\ step + 1 = 2
    BY <1>6
  <2> QED BY <1>1, <1>2, <1>5, <1>6, <2>1, <2>2 DEF Works, WorkDone, Underway
<1>7. CASE step = 2
  <2>1. Sent(m)
    BY <1>7 DEF Underway
  <2>2. /\ AllSeqs'
        /\ \A x \in Mapping : /\ Saved(x) => Saved(x)'
                              /\ Sent(x) => Sent(x)'
                              /\ Moved(x) => Moved(x)'
                              /\ x # m => state'[x] = state[x]
        /\ ok => Moved(m)'
    BY <1>1, <1>2, <1>3, <1>7, <2>1, PerformRestore
  <2>3. step < 3 /\ step + 1 = 3
    BY <1>7
  <2>4. \A x \in Gone : state'[x] = state[x]
    BY <1>1, <2>2 DEF Gone, Fresh
  <2> QED BY <1>1, <1>2, <1>5, <1>7, <2>1, <2>2, <2>3, <2>4 DEF Works, WorkDone, Underway
<1>8. CASE step = 3
  <2>1. Moved(m)
    BY <1>8 DEF Underway
  <2>2. /\ AllSeqs' /\ state' = state
        /\ \A x \in Mapping : /\ Saved(x) => Saved(x)'
                              /\ Moved(x) => Moved(x)'
                              /\ x # m /\ Sent(x) => Sent(x)'
    BY <1>1, <1>2, <1>3, <1>8, PerformClean
  <2>3. ~(step < 3)
    BY <1>8
  <2> QED BY <1>1, <1>2, <1>5, <1>8, <2>1, <2>2, <2>3 DEF Works, WorkDone, Underway
<1> QED BY <1>6, <1>7, <1>8

LEMMA WorkerStepData == ProcessInv /\ DataInv /\ WorkerStep => DataInv'
<1> SUFFICES ASSUME ProcessInv, DataInv, WorkerStep, Upgrading PROVE DataInv'
  BY SameUpgrade DEF DataInv, WorkerStep
<1>1. PICK t \in Targets, ok \in BOOLEAN, m \in Mapping :
           LET w == worker[t]
               next == IF ok THEN After(w, m, Steps[phase]) ELSE [w EXCEPT !.st = "failed"]
           IN  /\ t \in Machine /\ w.st = "running" /\ w.rest # {} /\ w \in Workers /\ m \in ItemsOn(t)
               /\ m = Min(w.rest) /\ m \in w.rest /\ next \in Workers
               /\ Perform(m, Steps[phase][w.step], ok)
               /\ worker' = [worker EXCEPT ![t] = next]
               /\ phase \in Iterations
               /\ UNCHANGED <<request, phase, passes, turn, success, done, lost, result, cores, procs>>
  BY WorkerStepFacts
<1>2. /\ Types /\ WorkersOK /\ AllSeqs /\ StatesOK /\ EarlierOK /\ AchievedOK
  BY DEF ProcessInv, DataInv
<1>3. PICK w, step, p : w = worker[t] /\ step = w.step /\ p = phase
  OBVIOUS
<1>4. PICK next : next = IF ok THEN After(w, m, Steps[p]) ELSE [w EXCEPT !.st = "failed"]
  OBVIOUS
<1>5. /\ t \in Machine /\ w \in Workers /\ w.st = "running" /\ w.rest # {} /\ m = Min(w.rest)
      /\ p \in Iterations /\ step \in 1 .. Len(Steps[p]) /\ m \in Items(p) /\ Present(m)
      /\ Perform(m, Steps[p][step], ok)
      /\ UNCHANGED <<request, phase, success, done, result, procs>>
      /\ TargetOf[m] = t
  <2>1. m \in Items(phase) /\ TargetOf[m] = t
    BY <1>1, <1>2, ItemsOfMachine
  <2> QED BY <1>1, <1>2, <1>3, <2>1 DEF WorkersOK, Present, Targets
<1>6. worker' \in [Machine -> Workers] /\ \A u \in Machine : worker'[u] = (IF u = t THEN next ELSE worker[u])
  BY <1>1, <1>2, <1>3, <1>4 DEF Types
<1>7. /\ \A x \in ItemsOn(t) \ w.rest : WorkDone(p, x)
      /\ Underway(p, m, step)
  BY <1>2, <1>3, <1>5 DEF AchievedOK
<1>8. Works(p, m, step, ok)
  <2>1. CASE p = "retrieve"
    <3>1. step = 1 /\ Steps[p][step] = "retrieve"
      BY <1>5, <2>1, StepsFacts
    <3> QED BY <1>2, <1>3, <1>5, <2>1, <3>1, RetrieveWorks
  <2>2. CASE p = "send"
    <3>1. step = 1 /\ Steps[p][step] = "send"
      BY <1>5, <2>2, StepsFacts
    <3> QED BY <1>2, <1>3, <1>5, <2>2, <3>1, SendWorks
  <2>3. CASE p = "snapshot_depth"
    <3>1. step \in 1 .. 3
      BY <1>5, <2>3, StepsFacts
    <3> QED BY <1>2, <1>3, <1>5, <1>7, <2>3, <3>1, SnapshotDepthWorks
  <2>4. CASE p = "restore_depth"
    <3>1. step \in 1 .. 3
      BY <1>5, <2>4, StepsFacts
    <3> QED BY <1>2, <1>3, <1>5, <1>7, <2>4, <3>1, RestoreDepthWorks
  <2> QED BY <1>5, <2>1, <2>2, <2>3, <2>4 DEF Iterations
<1>9. StatesOK'
  <2>1. \A x \in Gone : state'[x] = Value[x]
    BY <1>2, <1>3, <1>5, <1>8 DEF StatesOK, Works, Iterations
  <2> QED BY <1>5, <2>1, SameUpgrade DEF StatesOK
\* The mapping that t works on, afterwards.
<1>10. /\ next.rest = w.rest \/ (ok /\ step = Len(Steps[p]) /\ next.rest = w.rest \ {m} /\ next.step = 1)
       /\ next.rest = w.rest => next.step = step \/ (ok /\ step < Len(Steps[p]) /\ next.step = step + 1)
  <2>1. CASE ~ok
    BY <1>3, <1>4, <1>5, <2>1 DEF Workers
  <2>2. CASE ok /\ step < Len(Steps[p])
    <3>1. next = [w EXCEPT !.step = @ + 1]
      BY <1>3, <1>4, <2>2 DEF After
    <3> QED BY <1>3, <1>5, <2>2, <3>1 DEF Workers
  <2>3. CASE ok /\ ~(step < Len(Steps[p]))
    <3>1. next = [w EXCEPT !.rest = @ \ {m}, !.step = 1]
      BY <1>3, <1>4, <2>3 DEF After
    <3>2. next.rest = w.rest \ {m} /\ next.step = 1 /\ m \in w.rest
      BY <1>1, <1>3, <1>5, <3>1 DEF Workers
    <3>3. step = Len(Steps[p])
      <4>1. Len(Steps[p]) \in {1, 3}
        BY <1>5, StepsFacts
      <4> QED BY <1>5, <2>3, <4>1
    <3> QED BY <2>3, <3>2, <3>3
  <2> QED BY <2>1, <2>2, <2>3
<1>11. \A x : Underway(p, x, 1)'
  BY DEF Underway
<1>12. ASSUME NEW u \in Machine, NEW v, v = worker'[u], v.st # "none"
       PROVE  /\ \A x \in ItemsOn(u) \ v.rest : WorkDone(p, x)'
              /\ v.rest # {} => Underway(p, Min(v.rest), v.step)'
  <2>1. CASE u = t
    <3>1. v = next
      BY <1>6, <1>12, <2>1
    <3>2. \A x \in ItemsOn(t) \ w.rest : WorkDone(p, x)'
      <4> SUFFICES ASSUME NEW x \in ItemsOn(t) \ w.rest PROVE WorkDone(p, x)'
        OBVIOUS
      <4>1. x # m /\ x \in Items(p)
        BY <1>1, <1>3 DEF ItemsOn
      <4> QED BY <1>7, <1>8, <4>1 DEF Works
    <3>3. CASE next.rest = w.rest
      <4>1. Underway(p, m, next.step)'
        <5>1. CASE next.step = step
          BY <1>8, <5>1 DEF Works
        <5>2. CASE ok /\ step < Len(Steps[p]) /\ next.step = step + 1
          BY <1>8, <5>2 DEF Works
        <5> QED BY <1>10, <3>3, <5>1, <5>2
      <4> QED BY <1>5, <2>1, <3>1, <3>2, <3>3, <4>1
    <3>4. CASE ok /\ step = Len(Steps[p]) /\ next.rest = w.rest \ {m} /\ next.step = 1
      <4>1. WorkDone(p, m)'
        BY <1>8, <3>4 DEF Works
      <4>2. Underway(p, Min(v.rest), v.step)'
        <5>1. PICK x : x = Min(v.rest)
          OBVIOUS
        <5>2. Underway(p, x, 1)'
          BY <1>11
        <5> QED BY <3>1, <3>4, <5>1, <5>2
      <4> QED BY <2>1, <3>1, <3>2, <3>4, <4>1, <4>2
    <3> QED BY <1>10, <3>3, <3>4
  <2>2. CASE u # t
    <3>1. v = worker[u] /\ v \in Workers /\ v.rest \subseteq ItemsOn(u)
      BY <1>2, <1>3, <1>5, <1>6, <1>12, <2>2 DEF Types, WorkersOK
    <3>2. \A x \in ItemsOn(u) : x \in Items(p) /\ x # m
      <4>1. u \in Targets
        BY <1>2, <1>6, <1>12, <2>2 DEF WorkersOK
      <4>2. \A x \in ItemsOn(u) : x \in Items(phase) /\ TargetOf[x] = u
        BY <1>2, <4>1, ItemsOfMachine
      <4> QED BY <1>3, <1>5, <2>2, <4>2
    <3>3. v.rest # {} => Min(v.rest) \in ItemsOn(u)
      <4>1. v.rest \in SUBSET Nat
        BY <3>1, ConstantsOK DEF Workers
      <4> QED BY <3>1, <4>1, Minimum
    <3>4. /\ \A x \in ItemsOn(u) \ v.rest : WorkDone(p, x)
          /\ v.rest # {} => Underway(p, Min(v.rest), v.step)
      BY <1>2, <1>3, <1>5, <1>12, <3>1 DEF AchievedOK
    <3>5. \A x \in ItemsOn(u) \ v.rest : WorkDone(p, x)'
      BY <1>8, <3>2, <3>4 DEF Works
    <3>6. v.rest # {} => Underway(p, Min(v.rest), v.step)'
      BY <1>8, <3>2, <3>3, <3>4 DEF Works
    <3> QED BY <3>5, <3>6
  <2> QED BY <2>1, <2>2
<1>13. AchievedOK'
  <2>1. \A u : ItemsOn(u)' = ItemsOn(u)
    BY <1>5, SameRequest DEF ItemsOn
  <2> QED BY <1>3, <1>5, <1>12, <2>1 DEF AchievedOK, Traversals, Iterations
<1> QED BY <1>5, <1>8, <1>9, <1>13, ChildData DEF Works

-----------------------------------------------------------------------------
(* The theorems on the data. *)

LEMMA NextData == ProcessInv /\ DataInv /\ [Next]_vars => DataInv'
<1> SUFFICES ASSUME ProcessInv, DataInv, [Next]_vars PROVE DataInv'
  OBVIOUS
<1>1. CASE Coordinator
  BY <1>1, BeginData, ForkItemsData, WaitForNothingData, WaitReapsItemData, TraversalReturnsData,
     ForkWorkerData, WaitReapsWorkerData, IterationReturnsData, CrashData DEF Coordinator
<1>2. CASE ProcessEnds
  BY <1>2, ProcessEndsData
<1>3. CASE WorkerStep
  BY <1>3, WorkerStepData
<1>4. CASE WorkerExits
  BY <1>4, WorkerExitsData
<1>5. CASE UNCHANGED vars
  <2>1. UNCHANGED <<request, phase, success, done, result, procs, worker, state, store>>
    BY <1>5 DEF vars, coordinator
  <2> SUFFICES ASSUME Upgrading PROVE DataInv'
    BY <2>1, SameUpgrade DEF DataInv
  <2>2. AllSeqs /\ StatesOK /\ EarlierOK /\ AchievedOK
    BY DEF DataInv
  <2>3. \A p, t : Items(p)' = Items(p) /\ Owner(p)' = Owner(p) /\ ItemsOn(t)' = ItemsOn(t)
    BY <2>1, SameRequest DEF ItemsOn
  <2>4. StatesOK' /\ EarlierOK'
    BY <2>1, <2>2, SameData, SameUpgrade DEF StatesOK, EarlierOK
  <2>5. AchievedOK'
    BY <2>1, <2>2, <2>3, SameData DEF AchievedOK
  <2> QED BY <2>1, <2>2, <2>4, <2>5, SameData, ChildData
<1> QED BY <1>1, <1>2, <1>3, <1>4, <1>5 DEF Next, Returned

\* What a migration has brought where, and what it has not deleted yet: the
\* inductive invariant.
THEOREM DataInvariance == Spec => [](ProcessInv /\ DataInv)
<1>1. Init => ProcessInv /\ DataInv
  BY InitProcess, InitData
<1>2. ProcessInv /\ DataInv /\ [Next]_vars => (ProcessInv /\ DataInv)'
  BY NextProcess, NextData
<1> QED BY <1>1, <1>2, PTL DEF Spec

\* A migration that reports success has moved the state of every component that
\* had one place in the network to its new machine, if the target property of
\* every machine is its name: snapshot.c, copy-snapshots.c, restore.c and their
\* traversals together, phase by phase or depth first, whatever failed on the way.
THEOREM StateIsMoved == Spec => []RestoredIsMoved
<1>1. ProcessInv /\ DataInv => RestoredIsMoved
  <2> SUFFICES ASSUME DataInv, Named, result = "success", OneCoreEach, request.command = "migrate", request.known,
                      ~request.transferOnly, ~request.all, NEW o \in Mapping, NEW n \in Mapping, Moves(o, n)
               PROVE  state[n] = Value[o]
    BY DEF RestoredIsMoved
  <2>1. EarlierOK
    BY DEF DataInv, Upgrading
  <2>2. n \in Fresh
    BY DEF Moves, Fresh
  <2> QED BY <2>1, <2>2 DEF EarlierOK, Moved
<1> QED BY <1>1, DataInvariance, PTL

\* State is deleted only when the coordinator has a snapshot of it
\* (run-migrate.c, delete-state.c), also when some of the snapshots failed, if the
\* target property of every machine is its name.
THEOREM NoStateIsLost == Spec => []DeletedIsSaved
<1>1. ProcessInv /\ DataInv => DeletedIsSaved
  <2> SUFFICES ASSUME ProcessInv, DataInv, Named, OneCoreEach, request.command = "migrate",
                      ~request.transferOnly, ~request.all, NEW m \in request.old \ request.new,
                      state[m] = "deleted"
               PROVE  Value[m] \in Range(store["coordinator"][ComponentOf[m]])
    BY DEF DeletedIsSaved
  <2>1. RequestOK(request)
    BY RequestFacts DEF ProcessInv
  <2>2. request.known /\ m \in Mapping
    BY <2>1 DEF RequestOK
  <2>3. StatesOK /\ m \in Gone /\ Value[m] # "deleted"
    BY <2>2, ConstantsOK DEF DataInv, Upgrading, Gone
  <2>4. Saved(m)
    BY <2>3 DEF StatesOK
  <2> QED BY <2>4 DEF Saved, Kept
<1> QED BY <1>1, DataInvariance, PTL
-----------------------------------------------------------------------------
(* What a copy brings, also with --all. *)

LEMMA PerformSeqs ==
  ASSUME Types, AllSeqs, NEW m \in Mapping, NEW op, NEW ok, Perform(m, op, ok)
  PROVE  AllSeqs'
<1>1. IsSeq(On(m)) /\ IsSeq(Kept(m))
  BY Places DEF AllSeqs, On, Kept
<1>2. \A all, g : IsSeq(g) => IsSeq(Query(g, all))
  <2> SUFFICES ASSUME NEW g, IsSeq(g), g # <<>> PROVE IsSeq(<<Last(g)>>) /\ IsSeq(<<>>)
    BY DEF Query, QueryAll, QueryLatest
  <2>1. <<Last(g)>> \in Seq({Last(g)}) /\ <<>> \in Seq({})
    OBVIOUS
  <2> QED BY <2>1 DEF IsSeq
<1>3. CASE Retrieve(m, ok)
  <2>1. PICK o \in Copy("from", Query(On(m), request.all), Kept(m)) : SetStore("coordinator", ComponentOf[m], o.gens)
    BY <1>3 DEF Retrieve, CopySnapshotsFrom, On, Kept
  <2>2. IsSeq(o.gens)
    BY <1>1, <1>2, CopyAdds
  <2> QED BY <2>1, <2>2, Places, SeqsKept
<1>4. CASE Send(m, ok)
  <2>1. PICK o \in Copy("to", Query(Kept(m), request.all), On(m)) : SetStore(TargetOf[m], ComponentOf[m], o.gens)
    BY <1>4 DEF Send, CopySnapshotsTo, On, Kept
  <2>2. IsSeq(o.gens)
    BY <1>1, <1>2, CopyAdds
  <2> QED BY <2>1, <2>2, Places, SeqsKept
<1>5. CASE UNCHANGED store
  BY <1>5 DEF AllSeqs
<1>6. Restore(m) \/ Delete(m) => UNCHANGED store
  BY DEF Restore, Delete
<1> QED BY <1>3, <1>4, <1>5, <1>6, TakeEffect, CleanEffect DEF Perform

\* Every store always has its generations in order.
LEMMA StoresInOrder == Spec => [](ProcessInv /\ AllSeqs)
<1>1. Init => AllSeqs
  <2> SUFFICES ASSUME Init, NEW h \in Host, NEW c \in Component PROVE IsSeq(store[h][c])
    BY DEF AllSeqs
  <2>1. PICK history \in Histories : store = [k \in Host |-> [d \in Component |-> history[k]]]
    BY DEF Init
  <2>2. store[h][c] = history[h] /\ history[h] \in Seq(Range(history[h]))
    BY <2>1, HistoriesOK
  <2> QED BY <2>2 DEF IsSeq
<1>2. ProcessInv /\ AllSeqs /\ [Next]_vars => AllSeqs'
  <2> SUFFICES ASSUME ProcessInv, AllSeqs, [Next]_vars PROVE AllSeqs'
    OBVIOUS
  <2>1. Types
    BY DEF ProcessInv
  <2>2. CASE ProcessEnds
    <3>1. PICK p \in procs, ok \in BOOLEAN : Perform(p.m, Operation(p.phase), ok)
      BY <2>2 DEF ProcessEnds
    <3>2. p.m \in Mapping
      BY <2>1 DEF Types, Procs
    <3> QED BY <2>1, <3>1, <3>2, PerformSeqs
  <2>3. CASE WorkerStep
    <3>1. PICK t \in Targets, ok \in BOOLEAN, m \in Mapping : Perform(m, Steps[phase][worker[t].step], ok)
      BY <2>3, WorkerStepFacts
    <3> QED BY <2>1, <3>1, PerformSeqs
  <2>4. CASE ~ProcessEnds /\ ~WorkerStep
    <3>1. UNCHANGED store
      BY <2>4 DEF Next, Coordinator, Begin, ForkItems, WaitForNothing, WaitReapsItem, TraversalReturns, ForkWorker,
             WaitReapsWorker, IterationReturns, WaitReapsLeftover, ForkWorkerFails, WorkerExits, Returned, vars
    <3> QED BY <3>1 DEF AllSeqs
  <2> QED BY <2>2, <2>3, <2>4
<1>3. Init => ProcessInv
  BY InitProcess
<1>4. ProcessInv /\ [Next]_vars => ProcessInv'
  BY NextProcess
<1> QED BY <1>1, <1>2, <1>3, <1>4, PTL DEF Spec

\* Only its own step leaves a worker running that is not what it was.
LEMMA WorkerMoves ==
  ASSUME ProcessInv, [Next]_vars, NEW t \in Machine,
         worker[t].st = "running", worker'[t] # worker[t], worker'[t].st = "running"
  PROVE  \E m \in Mapping :
           /\ m = Min(worker[t].rest) /\ TargetOf[m] = t
           /\ Perform(m, Steps[phase][worker[t].step], TRUE)
<1>1. Types
  BY DEF ProcessInv
<1>2. WorkerStep
  <2>1. CASE UNCHANGED worker
    BY <2>1
  <2>2. CASE ForkWorker \/ WaitReapsWorker \/ WorkerExits
    <3>1. PICK u, v : /\ u \in Machine /\ worker' = [worker EXCEPT ![u] = v]
                      /\ worker[u].st = "none" \/ v.st # "running"
      <4>1. CASE ForkWorker
        <5>1. PICK u, v : u \in Targets /\ worker[u].st = "none" /\ worker' = [worker EXCEPT ![u] = v]
          BY <4>1 DEF ForkWorker
        <5>2. u \in Machine
          BY <1>1, <5>1, RequestFacts
        <5> QED BY <5>1, <5>2
      <4>2. CASE WaitReapsWorker
        <5>1. PICK u \in Targets : worker' = [worker EXCEPT ![u].st = "reaped"]
          BY <4>2 DEF WaitReapsWorker, Forked
        <5>2. u \in Machine /\ worker[u] \in Workers
          BY <1>1, RequestFacts DEF Types
        <5>3. PICK v : v = [worker[u] EXCEPT !.st = "reaped"]
          OBVIOUS
        <5>4. v.st = "reaped"
          BY <5>2, <5>3 DEF Workers
        <5>5. worker' = [worker EXCEPT ![u] = v]
          BY <5>1, <5>3
        <5> QED BY <5>2, <5>4, <5>5
      <4>3. CASE WorkerExits
        <5>1. PICK u \in Machine : worker' = [worker EXCEPT ![u].st = "ok"]
          BY <4>3 DEF WorkerExits
        <5>2. worker[u] \in Workers
          BY <1>1 DEF Types
        <5>3. PICK v : v = [worker[u] EXCEPT !.st = "ok"]
          OBVIOUS
        <5>4. v.st = "ok"
          BY <5>2, <5>3 DEF Workers
        <5>5. worker' = [worker EXCEPT ![u] = v]
          BY <5>1, <5>3
        <5> QED BY <5>4, <5>5
      <4> QED BY <2>2, <4>1, <4>2, <4>3
    <3>2. u # t => worker'[t] = worker[t]
      BY <1>1, <3>1 DEF Types
    <3>3. u = t => worker'[t] = v
      BY <1>1, <3>1 DEF Types
    <3> QED BY <3>1, <3>2, <3>3
  <2>3. CASE Begin \/ TraversalReturns \/ IterationReturns
    <3>1. worker' = worker \/ worker' = [u \in Machine |-> NoWorker]
      BY <2>3 DEF Begin, TraversalReturns, IterationReturns, Leave, Enter
    <3>2. NoWorker.st = "none"
      BY DEF NoWorker
    <3> QED BY <3>1, <3>2
  <2>4. CASE WorkerStep
    BY <2>4
  <2> QED BY <2>1, <2>2, <2>3, <2>4 DEF Next, Coordinator, ForkItems, WaitForNothing, WaitReapsItem, WaitReapsLeftover,
             ForkWorkerFails, ProcessEnds, Returned, vars, coordinator
<1>3. PICK u \in Targets, ok \in BOOLEAN, m \in Mapping :
           LET w == worker[u]
               next == IF ok THEN After(w, m, Steps[phase]) ELSE [w EXCEPT !.st = "failed"]
           IN  /\ u \in Machine /\ w \in Workers /\ m \in ItemsOn(u) /\ m = Min(w.rest)
               /\ Perform(m, Steps[phase][w.step], ok)
               /\ worker' = [worker EXCEPT ![u] = next]
  BY <1>2, WorkerStepFacts
<1>4. u = t
  BY <1>1, <1>3 DEF Types
<1>5. ok
  <2> SUFFICES ASSUME ~ok PROVE FALSE
    OBVIOUS
  <2>1. PICK v : v = [worker[u] EXCEPT !.st = "failed"]
    OBVIOUS
  <2>2. v.st = "failed" /\ worker' = [worker EXCEPT ![u] = v]
    BY <1>3, <2>1 DEF Workers
  <2> QED BY <1>1, <1>4, <2>2 DEF Types
<1>6. TargetOf[m] = u
  BY <1>1, <1>3, ItemsOfMachine
<1> QED BY <1>3, <1>4, <1>5, <1>6

\* A worker whose copy reports success made the newest snapshot of the sender
\* the newest of the receiver (copy-snapshots.c); with --all, sending does
\* whatever became of the rounds before the last one.
THEOREM NewestSnapshotArrives == Spec => NewestArrives
<1> DEFINE Arrives(t) ==
             LET w == worker[t]
                 op == Steps[phase][w.step]
                 c == ComponentOf[Min(w.rest)]
                 from == IF op = "send" THEN "coordinator" ELSE t
                 to == IF op = "send" THEN t ELSE "coordinator"
             IN  /\ w.st = "running" /\ w.rest # {}
                 /\ op = "send" \/ (op = "retrieve" /\ ~request.all)
                 /\ worker'[t] # w /\ worker'[t].st = "running"
                 /\ store[from][c] # <<>>
                 => Last(store'[to][c]) = Last(store[from][c])
<1>1. ASSUME ProcessInv, AllSeqs, [Next]_vars, NEW t \in Machine
      PROVE  Arrives(t)
  <2>1. PICK w, op : w = worker[t] /\ op = Steps[phase][w.step]
    OBVIOUS
  <2> SUFFICES ASSUME w.st = "running", w.rest # {}, op = "send" \/ (op = "retrieve" /\ ~request.all),
                      worker'[t] # w, worker'[t].st = "running"
               PROVE  LET c == ComponentOf[Min(w.rest)]
                          from == IF op = "send" THEN "coordinator" ELSE t
                          to == IF op = "send" THEN t ELSE "coordinator"
                      IN  store[from][c] # <<>> => Last(store'[to][c]) = Last(store[from][c])
    BY <2>1
  <2>2. PICK m \in Mapping : m = Min(w.rest) /\ TargetOf[m] = t /\ Perform(m, op, TRUE)
    BY <1>1, <2>1, WorkerMoves
  <2>3. Types /\ IsSeq(On(m)) /\ IsSeq(Kept(m))
    BY <1>1, Places DEF ProcessInv, AllSeqs, On, Kept
  <2>4. CASE op = "send"
    <3> SUFFICES ASSUME Kept(m) # <<>> PROVE Last(On(m)') = Last(Kept(m))
      BY <2>2, <2>4 DEF On, Kept
    <3>1. PICK o \in Copy("to", Query(Kept(m), request.all), On(m)) :
            o.ok = TRUE /\ SetStore(TargetOf[m], ComponentOf[m], o.gens)
      BY <2>2, <2>4 DEF Perform, Send, CopySnapshotsTo, On, Kept
    <3>2. PICK q : q = Query(Kept(m), request.all)
      OBVIOUS
    <3>3. IsSeq(q) /\ q # <<>> /\ Last(q) = Last(Kept(m))
      <4>1. CASE request.all
        BY <2>3, <3>2, <4>1 DEF Query, QueryAll
      <4>2. CASE ~request.all
        <5>1. PICK s : s = Last(Kept(m))
          OBVIOUS
        <5>2. q = <<s>>
          BY <3>2, <4>2, <5>1 DEF Query, QueryLatest
        <5>3. q \in Seq({s}) /\ Len(q) = 1 /\ q[1] = s /\ q # <<>>
          BY <5>2
        <5>4. Last(q) = q[1]
          BY <5>3 DEF Last
        <5> QED BY <5>1, <5>3, <5>4 DEF IsSeq
      <4> QED BY <4>1, <4>2
    <3>4. Last(o.gens) = Last(q)
      BY <2>3, <3>1, <3>2, <3>3, CopyAdds
    <3> QED BY <2>3, <3>1, <3>3, <3>4, OnlyOn
  <2>5. CASE op = "retrieve" /\ ~request.all
    <3> SUFFICES ASSUME On(m) # <<>> PROVE Last(Kept(m)') = Last(On(m))
      BY <2>2, <2>5 DEF On, Kept
    <3>1. Retrieve(m, TRUE)
      BY <2>2, <2>5 DEF Perform
    <3>2. Kept(m)' = Generation(Kept(m), Last(On(m)))
      BY <1>1, <2>3, <2>5, <3>1, RetrieveEffect
    <3> QED BY <2>3, <3>2, GenerationFacts
  <2> QED BY <2>4, <2>5
<1>2. ProcessInv /\ AllSeqs /\ [Next]_vars => [\A t \in Machine : Arrives(t)]_vars
  BY <1>1
<1>3. NewestArrives <=> [][\A t \in Machine : Arrives(t)]_vars
  BY DEF NewestArrives
<1> HIDE DEF Arrives
<1> QED BY <1>2, <1>3, StoresInOrder, PTL DEF Spec
=============================================================================
